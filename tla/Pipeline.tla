------------------------------- MODULE Pipeline -------------------------------
(***************************************************************************)
(* The websocket process as a whole: the loop of WsConnection, and as its  *)
(* callback the monitor of WsMonitor.  The loop starts when the monitor    *)
(* has its validators; it awaits the callback, so that while a handler     *)
(* waits for the node nothing is read from the connection: events pile up, *)
(* subscriptions are cancelled, the connection is lost.                    *)
(*                                                                         *)
(* Nothing is killed and no write fails here (WsMonitor has that): what is *)
(* lost is lost on the way.                                                *)
(***************************************************************************)
EXTENDS WsConnection

CONSTANTS
  Validator, Height, Round, Payload, Votes, Blocks, flags, None,  \* as in WsMonitor
  EventOf   \* the vote that each event of the node is, or None

VARIABLES pc, validators, vote, state, data,
          ws_votes, ws_signatures, votes_taken, blocks_taken

M == INSTANCE WsMonitor WITH Faults <- {}

(* What WsMonitor assumes of its constants.                                *)
ASSUME MonitorAssumption ==
  /\ Height \subseteq Nat
  /\ Votes \subseteq M!VoteMsg /\ Blocks \subseteq M!BlockMsg /\ None \notin Votes \cup Blocks
  /\ flags \in M!Options /\ M!Accepted(flags) /\ ~flags.dashboard_only

ASSUME EventOfAssumption == EventOf \in [1 .. MaxEvents -> Votes \cup {None}]

monitorVars == <<pc, validators, vote, state, data,
                 ws_votes, ws_signatures, votes_taken, blocks_taken>>
allVars == <<vars, monitorVars>>

PipelineInit == Init /\ M!Init

-------------------------------------------------------------------------------

(* The monitor is past start(), which calls websocket_connect.             *)
Running == pc \notin {"down", "starting", "exited"}

(* The callback, up to its first await or write.  An event that is no vote *)
(* may be any other; NewRoundStep and a block that is not saved are only   *)
(* logged.                                                                 *)
Take(e) ==
  \/ e \in Votes /\ M!ReceiveVote(e)
  \/ e = None /\ \E b \in Blocks : M!ReceiveBlock(b)
  \/ e = None /\ M!ReceiveValidatorSetUpdates
  \/ e = None /\ UNCHANGED monitorVars

HandleEvent == ReceiveEvent /\ Take(EventOf[Last(handled')])

(* The await of the callback ends when the monitor is done with the event. *)
HandlerReturns == pc = "listening" /\ CallbackReturns

LoopStep ==
  /\ Running
  /\ \/ HandleEvent
     \/ /\ HandlerReturns \/ ConnectionStep \/ ResolveFails \/ Silence
        /\ UNCHANGED monitorVars

MonitorStep ==
  /\ M!Launch \/ M!Start \/ M!HandlerStep
  /\ UNCHANGED vars

OutsideStep == NodeStep /\ UNCHANGED monitorVars

PipelineNext == LoopStep \/ MonitorStep \/ OutsideStep

PipelineSpec == PipelineInit /\ [][PipelineNext]_allVars

(* The fairness of the two parts, the return of the callback now being the *)
(* monitor's: silence and a name that does not resolve may recur, but need *)
(* not; a handler runs on, its requests are cut off after ten seconds.     *)
PipelineFairSpec ==
  /\ PipelineSpec
  /\ WF_allVars(M!Start /\ UNCHANGED vars)
  /\ WF_allVars(M!HandlerStep /\ UNCHANGED vars)
  /\ WF_allVars(HandleEvent)
  /\ WF_allVars(Running /\ (HandlerReturns \/ ConnectionStep) /\ UNCHANGED monitorVars)
  /\ WF_allVars(NoticeLoss /\ UNCHANGED monitorVars)
  /\ WF_allVars(NodeReturns /\ UNCHANGED monitorVars)

-------------------------------------------------------------------------------
(* Properties.                                                             *)

(* Whatever is lost, refused or delivered again on the way, the list of a  *)
(* validator's events in a file is in the order in which the node emitted  *)
(* them: the entries are those of an increasing series of events that were *)
(* handed to the callback.                                                 *)
ListedInOrderOfEmission ==
  \A h \in Height : \A s \in M!Slots :
    LET list == ws_votes[h].rounds[s]
    IN  \E n \in [DOMAIN list -> Range(handled)] :
          \A i \in DOMAIN list :
            /\ EventOf[n[i]] \in Votes
            /\ EventOf[n[i]].height = h
            /\ M!Slot(EventOf[n[i]]) = s
            /\ EventOf[n[i]].payload = list[i]
            /\ i > 1 => n[i - 1] < n[i]

(* While nothing is killed and no write fails, the files lose nothing: of  *)
(* all the votes taken, over whatever connections, validators and          *)
(* refreshes, none is missing when the callback returns (each vote         *)
(* rewrites the whole file of its height).                                 *)
TakenVotesAreKept == M!TakenVotesAreKept

(* The event is done with: a vote that was taken is in its file.           *)
Done(n) ==
  /\ n \in Range(handled)
  /\ n = Last(handled) => client # "handling"
  /\ EventOf[n] \in votes_taken => M!InFile(EventOf[n])

(* From the connection to the disk: every event that arrives is done with, *)
(* unless its connection is given up before it is read, however many       *)
(* handlers are ahead of it and whether or not the node answers their      *)
(* requests.                                                               *)
ArrivedIsDone ==
  \A n \in 1 .. MaxEvents :
    (n \in Range(arrived)) ~> (Done(n) \/ n \notin Range(arrived))

(* With the monitor as its callback, and unless the process ends for lack  *)
(* of validators, the loop gets back to a connection that serves all the   *)
(* events: no handler keeps it from seeing an error message or a loss.     *)
EventuallyServed == <>[](Running => link = "open" /\ subs = Queries)
===============================================================================
