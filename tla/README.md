# Verification of Story-Consensus-Metrics

The program watches a Cosmos/CometBFT chain (Story) through one node. It
records who prevoted, precommitted and signed which block under
`result/<height>/`, or shows a live dashboard. About 940 lines of Python carry
its logic; everything under `src/src/protobuf/` is generated. The repository
has no tests, so README.md, the comments and the log messages are the only
statements of intent.

This directory holds TLA+ modules for its parts, TLC configurations, and proofs.

## 1. Inventory

| part | source | state it keeps | operations |
|---|---|---|---|
| command line and save policy | `utils/flags.py`, `main.py:43-46` | none after start | accept or refuse flags; expand the post-target heights; decide whether a height is saved |
| application | `main.py` | two child processes | check the RPC once, start both children, join them, terminate on Ctrl-C |
| websocket loop | `src/websocket.py` | one connection | connect, subscribe to four events, hand each to a callback, reconnect |
| websocket monitor | `src/ws_monitor.py` | `self.validators`, `ws_votes.json`, `ws_signatures.json` | handlers for Vote, NewBlock, ValidatorSetUpdates, NewRoundStep |
| consensus state poller | `src/fetch_monitor.py` | `self.validators`, `current_round_consensus_state`, `fetch_votes.json` | poll `/consensus_state` without a pause, save it, parse it |
| HTTP calls | `src/calls.py` | a session per call | GET and ABCI queries that yield data or None |
| dashboard | `src/dashboard.py` | validators, consensus state, chain data | poll, merge, render |
| key conversion | `src/converter.py` | none | public key to consensus address |
| logger, protobuf | `utils/logger.py`, `src/protobuf/` | none | output; generated messages |

How they interact. `main.py` starts the monitor and the poller as two operating
system processes; they share nothing but the directory `result/` (different
files in it). Inside each process there is one asyncio task. In the monitor the
websocket loop awaits the callback for each event, so handlers never overlap and
events wait in the connection's queue; a handler may itself await an HTTP request
for the validators. Files outlive processes, memory does not.

What is hard in this code:

* files are rewritten in place, so a signal, a full disk or a failing write leaves
  a partial document that a later run finds;
* votes are gossiped and events are redelivered after reconnections and restarts,
  in an order nobody controls;
* the validator set is refreshed by a request that can fail, be empty or contain
  an entry that does not convert, in the middle of a handler;
* subscriptions are refused or cancelled one by one, connections die silently;
* the chain has its own delays (the commit of block H travels in block H+1, the
  bonded set runs ahead of the signing set);
* two processes, a terminal's Ctrl-C and `terminate()` race at the end.

What makes each part correct:

* save policy: only promised heights are saved, nothing with `--no_save`;
* websocket loop: within a connection no event is lost, repeated or overtaken;
  over connections events keep their order; it gets back to four live
  subscriptions whenever the node allows it;
* monitor: a file holds exactly received events, once, in the right place; a
  handled vote is saved; a good validator set is never lost; what is lost is lost
  as a whole and visibly;
* poller and dashboard: what is shown belongs to one poll and to the right
  validator;
* application: when the parent has gone, no child it had registered is left that will
  go on (one may still be unwinding), and an interrupt of the joins ends the program.

`PROJECT.json` lists every hazard with its line and the property that covers it.

## 2. Modules

| module | models | role |
|---|---|---|
| `SavePolicy` | `flags.py:63-68`, `main.py:43-46`, the test of each handler | pure operators: `Accepted`, `check_blocks_list`, `Selects`; `Promised` is what the repository's README says, `MustSave` that with the one exception the comparison of strings makes |
| `Calls` | `calls.py`, `update_validators` | pure operators from a reply of the network to data or None |
| `WsMonitor` | `ws_monitor.py` | state machine of the monitor process and its files |
| `VoteArchive` | – | abstract specification of `ws_votes.json` for a reader |
| `PollArchive` | – | abstract specification of `fetch_votes.json` for a reader |
| `FetchMonitor` | `fetch_monitor.py` | state machine of the poller process and its files |
| `ChainMonitor` | the chain (external) with `ws_monitor.py` | `WsMonitor` composed with the chain its events come from |
| `WsConnection` | `websocket.py` | state machine of the websocket loop and its node |
| `EventStream` | – | abstract specification of the stream of events the callback sees |
| `Pipeline` | `websocket.py` with `ws_monitor.py` | `WsConnection` with `WsMonitor` as its callback: the whole websocket process |
| `App` | `main.py:43-145` | the parent, its two children and the signals between them |
| `Dashboard` | `dashboard.py` | the dashboard's loop against a node that changes |
| `PolicyProofs` | – | lemmas about `SavePolicy` and `Calls` used by the proofs of both monitors |
| `WsMonitorProofs`, `FetchMonitorProofs`, `ConnectionProofs`, `PipelineProofs`, `ChainProofs`, `AppProofs`, `DashboardProofs` | – | theorems about the module of that name (`WsConnection` and `ChainMonitor` for the third and the fifth) |
| `MCWsMonitor`, `MCFetchMonitor`, `MCChainMonitor`, `MCPipeline`, `MCDashboard` | – | small instances for TLC |

### WsMonitor

| variable | in the code |
|---|---|
| `pc` | where the one asyncio task is: not running, starting, waiting for an event, awaiting `update_validators`, or inside a handler before the load, after it, or with a file open |
| `validators` | `self.validators` (its keys) |
| `vote` | the event a vote handler works on |
| `state`, `data` | the local variables of the same names |
| `ws_votes[h]`, `ws_signatures[h]` | the files: absent, torn (opened for writing and not finished) or a JSON document |
| `votes_taken`, `blocks_taken` | history only: what passed the handler's tests |

| action | in the code |
|---|---|
| `Launch`, `Start` | a run of the program; `start` fetches the validators and exits without any |
| `ReceiveVote` | `process_new_vote_entry` up to its first await or, for a known validator, up to the save test |
| `Refreshed` | `update_validators` returns: second lookup and save test, or the end of a ValidatorSetUpdates event |
| `LoadVotes` | load or create the document, add the event unless present; give up on a file that does not decode |
| `OpenVotes`, `CloseVotes` | `open(..., 'w')` truncates, `json.dump` and the end of the `with` complete |
| `ReceiveBlock`, `OpenSignatures`, `CloseSignatures` | `process_new_block_entry`, in the same steps |
| `WriteFails` | an OSError in a handler, caught by `process_new_event_callback` |
| `Kill` | SIGINT, SIGTERM, `terminate()`, SIGKILL |

The cut between two actions is where a signal or an OSError makes a difference:
an await, a truncation, a completed file. A vote is its height, round, type,
validator and one value for timestamp, hash and signature. `event not in list`
compares these three, hence one value. Writing an unchanged document back is
still a truncation and a dump, and is modelled as such.

A block that is not saved leads to a log line and to marks that nothing reads again
(`ws_monitor.py:163` and `:166` set `signature` in the entries of `self.validators`,
which every later block overwrites before it writes them), so `ReceiveBlock`
is enabled only for blocks that are. The same holds for NewRoundStep and unknown
events: they are not actions.

### ChainMonitor

`WsMonitor` accepts any vote and any block, in any order: its safety does not
depend on the chain. What the files *mean* does. `ChainMonitor` extends it with
the height in consensus, the validators that sign each height (`signing`), who
proposed each block (`proposers`) and who is in its commit (`commits`). `Commit`
appends a block and may change the bonded set. The monitor's steps are those of
`WsMonitor` with their inputs tied to the chain: a vote is by a signing validator
of a height that has begun, a NewBlock event carries the proposer of its block and
the commit of the height before, and an answer to the staking query is the bonded
set of the last block. Events may still come late, repeatedly and in any order.

Assumed of the chain (CometBFT with a staking module): a change of the bonded set
at block h signs from h + 2 on; the commit of h travels in h + 1. Any non-empty
group of the signing validators may form a commit, since voting power is not
modelled.

### FetchMonitor

| variable | in the code |
|---|---|
| `pc` | where the one task is: not running, starting, exited, about to ask, before `open`, with the file open, before the parsing of the votes |
| `validators` | `self.validators` (its keys) |
| `consensus` | the answer in hand |
| `current`, `votes` | height, round, step and the validators' votes in `current_round_consensus_state` |
| `fetch_votes[h]` | the file: absent, torn or a JSON document |
| `polled` | history only: the answers received |

| action | in the code |
|---|---|
| `Launch`, `Start` | a run; `start` fetches the validators and exits without any |
| `PollFails`, `Poll` | the request, the reading of the height and the save test |
| `OpenFetch`, `CloseFetch` | `open(..., 'w')`, `json.dump` and the end of the `with` |
| `Process`, `ProcessRaises` | lines 103-134: current round, votes of each validator; an exception on the way |
| `WriteFails` | an OSError, caught at line 139 |
| `Kill` | the end of the process at any point |

`Process` is one action: nothing else runs in this process and it writes no file.
`Unreadable` are the answers that have a height, round and step but make the parsing
raise, such as one without the vote set of its round: they are saved like any other,
`ProcessRaises` keeps the new height next to the votes read before, and the loop goes
on. An answer without a height ends the iteration before anything is saved, as a
request that fails does (`PollFails`).

`PollArchive` is what a reader of `fetch_votes.json` may rely on: a file changes
only to the newest answer, and is cut short only while its answer is the newest.
`ImplementsPollArchive` is the refinement; a file that is open for writing holds,
for this purpose, the answer that is being written. That is where the two archives
differ: a torn `ws_votes.json` is never repaired, a torn `fetch_votes.json` is
replaced by the next answer of its height.

Two bit arrays are kept by the code besides the votes;
they are copies of one field each and left out. `sleep_time_between` is 0 in
`main.py` and its branch never runs.

### WsConnection

The client's control follows the two nested loops; `Disconnect` is what every
way out of the `async with` does. The node and the network are external: they
emit numbered events while at least one subscription is served, refuse or cancel
subscriptions with an error message, send something that is not the expected
JSON, and lose connections with or without going down. `link` is "broken" until
the library notices ("lost"). What arrived before may still be read. While a
subscription is missing the chain goes on: `Miss` is an event nobody will see.

Assumed of the node: a refused or cancelled subscription is reported by an error
message. A node that drops one silently while others go on is not detected by
this code, and nothing in its documents claims that it is.

`EventStream` is what all this amounts to for the callback: events in the order of
their emission, some missed from the start, and now and then everything that is on
its way given up together. `ImplementsEventStream` is the refinement; an event
waiting in `queue` is one on its way.

### Pipeline

`WsConnection` and `WsMonitor` share one step, the handing over of an event
(`HandleEvent`): `EventOf` says which vote the n-th event of the node is, if it is
one. The callback returns to the loop when the monitor is listening again
(`HandlerReturns`), so a handler that awaits the validators holds up the loop,
while the node goes on emitting, cancelling and losing connections. Faults of the
machine are left out here (`Faults` is empty): they are in `WsMonitor`, and what
this module asks is what gets lost on the way.

### App

| variable | in the code |
|---|---|
| `parent` | the line of `start_app` the parent is at; "at exit" is the join that `multiprocessing` registers with the interpreter |
| `child[c]` | not started, before its signal handler is installed, running, unwinding after KeyboardInterrupt, ended |
| `registered` | the children multiprocessing knows of (`_children` in CPython) |
| `sigint`, `sigterm` | signals sent and not yet handled |

| action | in the code |
|---|---|
| `CheckRpc` | `check_rpc`: go on, or exit without an answer |
| `ForkChild`, `RegisterChild` | the two halves of `Process.start` |
| `start_app` | start, start, join, join; in the except branch terminate, terminate, join, join |
| `AtExit`, `InterruptParent` | the end of the interpreter, and a KeyboardInterrupt at each point |
| `Boot`, `InterruptChild`, `Unwind` | `run_in_process` and `signal_handler` |
| `ExitChild` | the monitor without validators exits (`ws_monitor.py:213`), so does the poller |
| `DieTerminated` | SIGTERM, which the children do not handle |
| `CtrlC`, `IntParent` | the terminal signals the whole group, `kill -INT` the parent alone |

Assumed of Python, as CPython's `multiprocessing` does it with fork: `Process.start`
forks the child, in which no signal is pending, and only then adds it to the children
that the interpreter joins at exit, unless it is interrupted again; SIGTERM kills a
child at once. A
SIGTERM or SIGKILL of the *parent* is not modelled: Python then runs no exit
function, and both children go on as orphans, next to a program started later
(hazard at `main.py:118`).

### Dashboard

| variable | in the code |
|---|---|
| `node` | external: what the node would answer now, and which kinds of requests fail |
| `pc` | the await the loop is at |
| `chain` | `chain_id`, `catching_up`, `ugrade_plan` |
| `validators`, `consensus` | `self.validators`, `current_round_consensus_state` |
| `last_vals`, `last_cons` | the ages of `_last_validators_update` and `_last_consensus_update` |
| `upd_vals`, `upd_cons` | the locals of the same names, kept from iteration to iteration |
| `shown` | what the layout was last updated with |

The actions are the awaits of the loop in order (`FetchChainData`,
`UpdateValidators`, `UpdateConsensus`, `Render`, `Sleep`), the passing of time
(`Tick`) and the node (`NodeChanges`). Answers are well formed.

## 3. Runs

| run | asks | bounds | result |
|---|---|---|---|
| `ws_monitor_faults` | are the files right whatever happens, and does every handler end? | 2 validators, heights 5 and 6 selected and 7 not, six possible votes (two different prevotes of one validator, both types, an unknown type, all three heights), two blocks; any number of events, kills, restarts, write failures and validator refreshes with any answer | hold (24 144 states) |
| `ws_monitor_torn` | the README's promise that votes are saved, with kills | the same with kills only | violated: see section 6 |
| `fetch_monitor` | are the poller's files right whatever happens, does the loop go on? | 2 validators, heights 5 and 6 selected and 7 not, 5 answers (two of height 5, two of height 6, of which one cannot be read); any number of polls, kills, restarts and write failures | hold (23 976 states) |
| `fetch_monitor_votes` | whose votes are kept? | the same without faults | violated: section 6 |
| `chain` | what do the files mean, also while the validators change? | a chain of 3 blocks, bonded sets {v1, v2} and {v2, v3}, a vote of each of v1 and v2, failing requests, kills, write failures | hold (about 1 542 000 states) |
| `chain_proposer`, `chain_joining`, `chain_leaving` | what the repository's README says of proposer, missing signatures and votes | 3 blocks; a fixed set, or v2 joining and leaving {v1} | violated: section 6 |
| `pipeline` | from the connection to the file: what can be lost, what comes out in which order, does it recover? | 3 events (a vote, something else, a vote of the same slot), 2 faults of node or network, queue of 3, 2 validators, one block | hold (201 793 states) |
| `app_signals` | whom does an interrupt leave behind, and does it end the program once the parent joins? | Ctrl-C up to three times, and one SIGINT of the parent alone, at any moments | hold (6 196 states) |
| `app_non_stop` | the README's "non-stop" fetching | nobody interrupts | violated: section 6 |
| `dashboard_table` | is what is drawn what was fetched, and does it follow the node? | 2 validators, a node with 4 states (votes come in, a validator joins, each kind of request fails at times), validators every 2 ticks, consensus every tick | hold (23 364 states) |

Why the bounds are enough. Documents, files and handlers of different heights
interact only through the one handler in progress, so two selected heights and
one that is not show every mixing of files; a list shows ordering and repetition
with two events; the number of redeliveries, kills and restarts is not bounded at
all. In `Pipeline` two faults allow a fault during the recovery from a fault, and
three events put one before, between and after; the two votes go to one list of
one file, where order and loss show (votes of other validators, rounds and heights in
between are covered by the proofs only, and so is more than one round in `WsMonitor`).
Kills and restarts are in the runs of `WsMonitor` and `ChainMonitor`, not in this one. In `FetchMonitor` two answers of one height
show a file that is replaced, two selected heights a file written under the wrong
name. In `ChainMonitor` three blocks are the fewest with a commit that travels in a
later block and a change of validators that takes effect; the target is the middle
one, which has a block before and after it. In `App` the third Ctrl-C finds the
parent in the except branch or at exit after the second; a process handles at most
one more before it ends. In `Dashboard` a period of 2 against 1 separates the
iterations with both updates, with one and with none; the periods of the code
differ in length only.

`CHECK_DEADLOCK` is left on except in the runs of `App`, a program that ends.

Mutants. Every property of a passing run has a mutant, defined beside the
definition it distorts (a test for duplicates dropped, a list shared between
validators, a height taken from the wrong header, a file not loaded before it is
rewritten, callbacks run as tasks, an error message skipped, one child not
terminated, the validators asked for once only, ...), with which TLC
finds that property violated.

## 4. Fairness

* `WsMonitor!FairSpec`: weak fairness of `Start` and of the handlers' own steps.
  A handler only waits for file operations and for an HTTP request that aiohttp
  cuts off after ten seconds (`calls.py:25`). Events need not arrive.
* `FetchMonitor!FairSpec`: weak fairness of the steps of an iteration that has its
  answer (`PollStep`): file operations and a loop. Requests need not succeed.
* `Pipeline!PipelineFairSpec`: weak fairness of the monitor's steps as above, of
  the handing over of a waiting event, of the loop's other own steps (sleeps end,
  connects are retried), of the library noticing a dead peer (its keepalive pings)
  and of the node coming back. No fairness is given to events, silences, or to the
  absence of faults; faults are finitely many, which is what `MaxFaults` says.
* `App!FairSpec`: weak fairness of the parent's and of each child's steps once a
  signal, an end or a join enables them: the operating system schedules processes
  and delivers signals, and a cleanup is cut off by the timeouts of the connections
  it closes. `CheckRpc` and `ExitChild` have none.
* `Dashboard!FairSpec`: weak fairness of the loop (its requests end within ten
  seconds) and of time. Nothing is assumed of the node; `TableFollows` is about a
  node that settles in a state in which it answers.

## 5. What is proved

`WsMonitorProofs` proves, for all sets of heights, rounds, validators, votes and
blocks, all accepted command lines and all combinations of faults:

| theorem | property |
|---|---|
| `TypeCorrect` | `TypeOK` |
| `VotesFilesSafe` | `SavedVotesWereReceived` |
| `NoEventRepeated` | `EventsNotRepeated` |
| `SignaturesFilesSafe` | `SignaturesDescribeBlock` |
| `PromisedHeightsOnly` | `OnlyPromisedHeightsSaved` |
| `ValidatorsKept` | `ValidatorsNeverEmptied` |
| `MonitorImplementsArchive` | `ImplementsVoteArchive` (safety refinement of `VoteArchive`) |
| `HandlersStayConsistent` | `HandlersConsistent` |
| `SignaturesFilesFinal` | `SignaturesWrittenOnce` |
| `NoTakenVoteLost` | `TakenVotesAreKept`, if `Faults` is empty |

`FetchMonitorProofs` proves, for all sets of heights and answers, all accepted
command lines and all faults:

| theorem | property |
|---|---|
| `PollerTypeCorrect` | `TypeOK` |
| `FetchedFilesSafe` | `FilesAreSnapshots` |
| `PolledHeightsPromised` | `OnlyPromisedHeightsPolled` |
| `EndedPollIsSaved` | `PolledIsSaved` |
| `IterationsStayConsistent` | `IterationConsistent` |
| `PollerImplementsArchive` | `ImplementsPollArchive` (safety refinement of `PollArchive`) |

The other parts, again for every value of the constants:

| module | theorem | property |
|---|---|---|
| `PolicyProofs` | `SelectsWhatIsPromised` | the handlers select a height exactly when `MustSave` says so, for every command line |
| `ConnectionProofs` | `ConnectionTypeCorrect` | `TypeOK` |
| | `EventsInOrder` | `HandledInOrder` |
| | `LoopImplementsStream` | `ImplementsEventStream` (safety refinement of `EventStream`) |
| | `NoGapOnAnyConnection` | `NoGapOnConnection` |
| `PipelineProofs` | `PipelineIsLoop`, `PipelineIsMonitor` | every behaviour of `Pipeline` is one of `WsConnection` and one of `WsMonitor` without faults |
| | `PipelineTypeCorrect`, `PipelineInOrder`, `PipelineImplementsStream`, `PipelineNoGap` | the same four of the loop with the monitor as its callback |
| | `PipelineKeepsVotes` | `TakenVotesAreKept` |
| | `ListsInOrder` | `ListedInOrderOfEmission` |
| `ChainProofs` | `ChainIsMonitor` | every behaviour of `ChainMonitor` is one of `WsMonitor` |
| | `ChainImplementsArchive` | `ImplementsVoteArchive` |
| | `CommitsAreOfTheirHeight` | `CommitOfItsHeight` |
| | `NoMixtureOfSets` | `OneValidatorSet` |
| | `ProposerOfNextBlock` | `ProposerIsOfNextBlock` |
| | `ExactWhileUnchanged` | `SignaturesExact` |
| | `UnchangedSetIsSaved` | `VotesOfUnchangedSetAreSaved` |
| `AppProofs` | `AppTypeCorrect` | `TypeOK` |
| | `RegisteredChildrenEnd` | `NoRegisteredChildForgotten` |
| `DashboardProofs` | `DashboardTypeCorrect` | `TypeOK` |
| | `TableShowsMemory` | `TableIsMemory` |
| | `OfflineCountsAbsent` | `OfflineNotUnderstated` |

Assumptions: heights are natural numbers, votes and blocks have the fields the
handlers read, the sentinel `None` is neither, the command line was accepted by
`parse_args` and is not `--dashboard_only`. For the poller: answers have the fields
it reads, and those that can be read at least one entry in `prevotes`. For the chain: every bonded set is
non-empty, heights are `1 .. LastHeight`, any block of those heights may be
delivered. For the dashboard: there are finitely many validators and some are always
bonded, periods are not zero. For the other modules: the bounds are natural numbers.

The argument. None of the properties is inductive alone: what is written comes
from memory, and memory was loaded from the file several steps earlier.
`HandlersConsistent` (checked by TLC first, in `ws_monitor_faults`) says what a
handler holds at each stage: the vote in hand passed all tests (`VoteInHand`),
the document in hand is the file's document with that vote merged, obeys the
file's invariants, and its file has not moved since (`VoteInHand`,
`DocumentInHand`), the signatures in hand describe a received block of a selected
height (`SignaturesInHand`) whose file is absent before `open` and torn after it
(`SignaturesFileInHand`), files without a document read as empty and files
exist for selected heights only (`VotesFilesInOrder`, `SignatureFilesInOrder`).
With the properties themselves this is inductive; one lemma for the votes side,
one for the signatures side, each split by action, with a frame lemma for the
steps that leave its files alone. `MergeExtends`, `RangeOfAppend` and
`InjectiveAppend` carry the data part; `SelectedIsPromised` is the lemma about
the save policy. The refinement maps `OpenVotes` to `Record` (or to a stutter for
a repeated event), a cut dump to `Lose`, and everything else to a stutter.

A signatures file is decided by the first NewBlock event that finds it absent: a
later one is compared with the validators of a later moment and must not replace it.
`SignaturesFilesFinal` follows from `SignaturesFileInHand`: the test that the file
does not exist and the truncation are two steps, and it is the invariant that says
nothing comes between them. A torn file changes only by the end of its own dump; once
that is cut short it stays torn, for good.

For the poller type correctness is inductive only with the fact that an answer is
in hand inside an iteration. `IterationConsistent` (checked by TLC in
`fetch_monitor`) gives the rest: that answer was received, it is of a
selected height until its file is closed, and files exist for selected heights
only. `EndedPollIsSaved` needs one fact more: between `CloseFetch` and the end of
the iteration the file of a selected height is the answer in hand. The refinement
maps `OpenFetch` to `Save`, a dump that fails or is killed to `Lose` (with the answer,
if the process ends), an answer to `Receive`, the end of the process to `GiveUp`, and
everything else to a stutter. The one fact it needs besides those invariants is that a
file under way is torn (`DumpsTorn`): only then may the open file stand for the answer
in memory, and a cut dump for the loss of that answer's file and no other.

`PolicyProofs` has what both arguments share. `SelectedIsPromised`: what the handlers'
test lets through is what the repository's README promises. `SelectsWhatIsPromised`
is both directions: nothing promised is left out either, for every command line, with one
exception that `TargetMatches` names. The target is compared as a string, so one typed
as "0814165" matches no event, unless `check_blocks_list` rewrites it, which it does
whenever post-target blocks are asked for. `PolledIsSaved` and the properties of
`ChainMonitor` about saved votes are therefore about `MustSave`, what was promised, and
not about `Selects`, what the code tests. And
`RefreshKeepsValidators` (no reply of the node turns a non-empty set into an empty
one).

`NoTakenVoteLost` needs two facts together: a file is torn only while its own dump
is under way (`OnlyDumpsTorn`), and a taken vote is in its file, in the document in
hand or about to be merged (`NoVoteLost`). Without the first a torn file could meet
the next vote; that is what kills and failing writes do.

The loop. A step does one of seven things to the events on their way and to those
handled (nothing, put a message behind the others, put the next event behind them,
let one pass unseen, skip the head, hand the head over, abandon the connection). What
is inductive is `OrderInv`: events wait in increasing order, all of them later than
those handled, none later than the last one emitted. The refinement maps each of the
seven to a step of `EventStream` or a stutter; the abandoned connection, which clears
`queue` whatever the reason, is its `GiveUp`.

`NoGapOnConnection` is about one connection, and more exact: what has arrived since it
was opened is the last so many events handled, followed by those in the queue, and
nothing else. It is stated by a function, `place`, from the arrived events that wait to
the places of the queue where they do, which keeps their order and leaves out no event
of the queue. That form can be reasoned about step by step: a message that is no event
leaves `place` alone (`GaplessNote`) or shifts it (`GaplessSkip`), an arriving event
extends it at its end (`GaplessArrive`), handing over the head takes away its least
element and lengthens what was read (`GaplessHand`), and an abandoned connection starts
over with nothing (`GaplessNothing`).

The pipeline. Its steps are steps of the loop, and steps of the monitor without
faults; so each part's theorems carry over (`PipelineIsLoop`, `PipelineIsMonitor`; the
monitor's come in as an instance of `WsMonitorProofs`, whose words are first shown to
mean the same as the model's). The order of the lists belongs to neither part.
`ListInv`: a handler under way holds up the loop (`HandlingWaits`), so the vote in hand
is the newest event handed over (`VoteIsNewest`), and until it is merged all lists are
increasing series of *earlier* events (`FilesListed`); appending it gives a series
again (`SeriesAppend`). `HandledInOrder` of the loop is what makes the newest the
greatest.

The chain. A step of `ChainMonitor` is one of the monitor, with an input the chain can
give, or a new block, which changes nothing of the monitor's (`ChainIsMonitor`): what is
proved of the monitor for any events holds on a chain. `Explains(d)` says of a signatures document, in hand or in a file, that one
of the chain's sets, sorted by the commit of the document's own height, gives its two
lists, and that the proposer is that of the next block. It stays true when the chain
grows because a chain only grows at its end. With it goes `MemoryOfChain`: the
validators in memory are one of the chain's sets, which no failed answer can spoil.
For the saved votes `VoteOfChain` adds that the vote in hand is by a validator that
signs its height: if the set has never changed, the refresh finds that validator.

The application. Whether a registered child is safe to leave (`Settled`: ended,
unwinding, or with a signal pending) is stable under the child's own steps. `AllJoined`
says that the joins and the except branch have all children registered,
`SecondInterruptSettles` that a further Ctrl-C that could cut the end short has reached
them, and `StartedInOrder` that the second child is not forked before the first is
registered, which is why one child at most can be left behind.

The dashboard. The table may lag behind memory only between an update and the drawing,
and then the flag of that update is set (`TableInv`). A flag kept from an earlier
iteration stands for an answer that is still in memory (`FlagsInv`). The number of
offline validators is a matter of cardinalities: at most the larger of the two groups
of voters is subtracted, which is no larger than their union.

Only model-checked: liveness, which is beyond the prover: `HandlersReturn`,
`PollsForever`, `ArrivedIsDone`, `EventuallyServed`, `InterruptEnds`, `TableFollows`.
Every other property of a passing run is a theorem.

## 6. Findings

`ws_monitor_torn`. README.md:44 says that votes are saved to
`result/[height]/ws_votes.json`. Killed while it rewrites that file, the monitor
leaves a partial document. The next run fails to load it (`ws_monitor.py:103`)
and returns (`:107`) for every further vote of that height, without ever
repairing the file: all that was saved is gone and nothing more is saved. The
abstract specification states the same thing positively: a document is lost as a
whole and for good. Any vote triggers a rewrite, also a repeated one that changes
nothing.

`fetch_monitor_votes`. The loop that assigns votes to validators
(`fetch_monitor.py:126-134`) computes its key from `hex`, left over from the loops
before it, instead of `_hex`; every validator gets the votes of the last entry.
The dashboard does the same step with the right variable (`dashboard.py:173`).
Nothing reads the result yet: `fetch_votes.json` holds the raw answer.

`chain_proposer`. The line "Finalized #H ... Proposer: P" (README.md:66) and
`proposer` in `ws_signatures.json` name the proposer of H + 1: the height comes
from `last_commit`, the proposer from the header of the block around it
(`ws_monitor.py:144-145`). `ProposerIsOfNextBlock` states what does hold.

`chain_joining`, `chain_leaving`. The program compares signatures and votes with
the *bonded* set of the last refresh, the chain signs with a set that lags behind.
A validator that has just joined is listed under "Missing signatures" for heights
it was not to sign (`ws_monitor.py:160-167`), and votes of one that has just left
are dropped although it still signs (`:86-93`). `SignaturesExact` and
`VotesOfUnchangedSetAreSaved` hold on a chain as long as its set does not change;
what holds in general is `CommitOfItsHeight` and `OneValidatorSet`.

`app_non_stop`. README.md says that the script fetches the consensus state
"non-stop". `fetch_monitor.start` gives up for good when its first request for the
validators fails, one of the two children may do so while the other goes on, and
the parent joins the monitor first and looks after neither: the program runs on
without the poller, and the monitor's end leaves the poller running alone.

Seen while modelling, without a run, since no document speaks of it. Lines 109 and 110
of `main.py` stand outside the `try`, and `Process.start` forks a child before it
registers it. A Ctrl-C that arrives just before the fork is not known to the child; if
the parent takes it between fork and registration, start_app ends, the interpreter knows
nothing of the child and does not join it: after one Ctrl-C the parent is gone and the
child goes on writing to `result/`. `NoRegisteredChildForgotten` says that this is the
only way, and for one child at most. If the parent takes the same Ctrl-C after the
registration it waits "at exit" for a child that does not know of it, until the next
Ctrl-C; that is why `InterruptEnds` begins with the joins.

After Ctrl-C `signal_handler` logs "terminating
process gracefully" (`main.py:147`), while the parent's `terminate()` (`:118`) sends
SIGTERM to the same child, which nothing catches: the cleanup may be cut off
anywhere, also inside a dump. The dashboard's network panel is fetched until
`chain_id` is known and never again (`dashboard.py:203`): `catching_up` and a failed
or later upgrade plan stay as they were at the start.

## 7. Plan

Built in this order: the two monitors and their files, with what is proved of them;
the chain around the websocket monitor; the websocket loop; then the composition of
loop and monitor, the processes of `main.py`, the dashboard, the abstract stream of
events, the abstract archive of answers, and the proofs of each.

Left, most useful first:

1. two programs on one `result/` directory (a second start, children orphaned by a
   SIGTERM of their parent): two instances of the monitor's steps over shared files,
   once somebody says what is to hold then;
2. answers of the node that make the parsing of an iteration raise, as in
   `FetchMonitor`, in `Dashboard` too;
3. a chain on which more than one set change is under way while the loop of
   `WsConnection` loses events: `ChainMonitor` with `Pipeline` in place of `WsMonitor`.

## 8. Not modelled, and why

* the layout and wording of the dashboard and of log lines: output only;
* `converter.py`: a fixed hash; validators are named by its result;
* protobuf and JSON encodings: the model starts at the fields the code reads; a
  body that does not decode is one outcome of a request;
* two programs on one `result/` (a second start, or children orphaned by a SIGTERM of
  their parent): nothing in the program prevents it and no document speaks of it.
  Both would rewrite whole files from their own copies, so neither
  `TakenVotesAreKept` nor any of the files' properties can be expected to survive;
* the chain's rounds, proposals and voting power: `ChainMonitor` has what decides
  who is in a commit and who is asked for, no more;
* `get_validators` asks for 1000 validators and no second page: the bonded set of
  the chain is far smaller, and the model's answer is the whole set.

How much of the repository that is. Of about 14 500 lines of Python some 13 500 are
generated (`src/protobuf/`: descriptors and gRPC stubs, of which the program uses five
message classes and no stub). Of the 940 written by hand the models map about five
in six; the rest is imports, option declarations, log formats and layout.
