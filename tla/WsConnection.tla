----------------------------- MODULE WsConnection -----------------------------
(***************************************************************************)
(* The websocket loop (src/websocket.py, websocket_connect): connect,      *)
(* subscribe to WS_EVENTS, hand every event to the callback, and connect   *)
(* again when the connection is lost, an error message arrives or anything *)
(* raises.  Sixty seconds of silence are logged and waited out on the same *)
(* connection.                                                             *)
(*                                                                         *)
(* The node, the network and the websockets library are external: they are *)
(* modelled by what the loop can see of them.  Events are numbered in the  *)
(* order the node emits them.  What the callback does is in WsMonitor, the *)
(* two together and their fairness in Pipeline.                            *)
(***************************************************************************)
EXTENDS Naturals, Sequences, SequencesExt

CONSTANTS
  MaxEvents,   \* bound: events the node emits
  MaxQueue,    \* bound: messages waiting on a connection
  MaxFaults    \* bound: faults of the node and of the network

ASSUME BoundsAssumption ==
  MaxEvents \in Nat /\ MaxQueue \in Nat /\ MaxFaults \in Nat

(* WS_EVENTS, in the order the subscriptions are sent.                     *)
WS_EVENTS == <<"Vote", "NewRoundStep", "ValidatorSetUpdates", "NewBlock">>
Queries == Range(WS_EVENTS)

VARIABLES
  client,    \* where websocket_connect is
  requests,  \* subscriptions sent on this connection
  link,      \* the connection as the client's library sees it
  queue,     \* messages of this connection not yet received
  subs,      \* subscriptions the node serves on this connection
  node,      \* whether the node can be reached
  emitted,   \* number of events emitted
  faults,    \* number of faults so far
  arrived,   \* history: events put on this connection
  handled    \* history: events handed to the callback, all connections

clientVars == <<client, requests>>
nodeVars == <<node, emitted, faults>>
vars == <<clientVars, nodeVars, link, queue, subs, arrived, handled>>

Client == { "connecting", "dns pause", "subscribing", "receiving",
            "handling", "silence pause", "error pause" }

Message == [kind : {"ack", "error", "garbage"}] \cup [kind : {"event"}, n : 1 .. MaxEvents]
Ack == [kind |-> "ack"]
Error == [kind |-> "error"]
Garbage == [kind |-> "garbage"]
Event(n) == [kind |-> "event", n |-> n]

Init ==
  /\ client = "connecting"
  /\ requests = 0
  /\ link = "closed"
  /\ queue = << >>
  /\ subs = {}
  /\ node = "up"
  /\ emitted = 0
  /\ faults = 0
  /\ arrived = << >>
  /\ handled = << >>

-------------------------------------------------------------------------------
(* The client.                                                             *)

(* Mutant of Disconnect: the next connection repeats the last request only. *)
DisconnectResumes(next) ==
  /\ client' = next
  /\ requests' = requests - 1
  /\ link' = "closed"
  /\ queue' = << >>
  /\ subs' = {}
  /\ arrived' = << >>
  /\ UNCHANGED <<nodeVars, handled>>

(* Leaving the async with closes the connection, if it is still open.      *)
Disconnect(next) ==
  /\ client' = next
  /\ requests' = 0
  /\ link' = "closed"
  /\ queue' = << >>
  /\ subs' = {}
  /\ arrived' = << >>
  /\ UNCHANGED <<nodeVars, handled>>

Connect ==
  /\ client = "connecting"
  /\ node = "up"
  /\ client' = "subscribing"
  /\ link' = "open"
  /\ UNCHANGED <<requests, nodeVars, queue, subs, arrived, handled>>

(* A name that does not resolve costs a pause of five seconds; every other *)
(* failure to connect is retried at once and changes nothing.              *)
ResolveFails ==
  /\ client = "connecting"
  /\ node = "down"
  /\ client' = "dns pause"
  /\ UNCHANGED <<requests, nodeVars, link, queue, subs, arrived, handled>>

DnsPauseEnds ==
  /\ client = "dns pause"
  /\ client' = "connecting"
  /\ UNCHANGED <<requests, nodeVars, link, queue, subs, arrived, handled>>

(* websocket.send of the next subscription; the node grants or refuses it, *)
(* or never sees it.                                                       *)
Subscribe ==
  /\ client = "subscribing"
  /\ requests' = requests + 1
  /\ client' = IF requests' = Len(WS_EVENTS) THEN "receiving" ELSE "subscribing"
  /\ \/ /\ link = "open"
        /\ queue' = Append(queue, Ack)
        /\ subs' = subs \cup {WS_EVENTS[requests + 1]}
        /\ UNCHANGED faults
     \/ /\ link = "open"
        /\ faults < MaxFaults
        /\ faults' = faults + 1
        /\ queue' = Append(queue, Error)
        /\ UNCHANGED subs
     \/ /\ link = "broken"
        /\ UNCHANGED <<queue, subs, faults>>
  /\ UNCHANGED <<node, emitted, link, arrived, handled>>

(* A message without a query is dropped, or ends the connection if it is   *)
(* an error; one that is not the expected JSON raises.                     *)
ReceiveAck ==
  /\ client = "receiving"
  /\ queue # << >>
  /\ Head(queue) = Ack
  /\ queue' = Tail(queue)
  /\ UNCHANGED <<clientVars, nodeVars, link, subs, arrived, handled>>

(* Mutant of ReceiveError: an error message is skipped like any other.     *)
ReceiveErrorIgnored ==
  /\ client = "receiving"
  /\ queue # << >>
  /\ Head(queue) = Error
  /\ queue' = Tail(queue)
  /\ UNCHANGED <<clientVars, nodeVars, link, subs, arrived, handled>>

ReceiveError ==
  /\ client = "receiving"
  /\ queue # << >>
  /\ Head(queue) = Error
  /\ Disconnect("error pause")

ReceiveGarbage ==
  /\ client = "receiving"
  /\ queue # << >>
  /\ Head(queue) = Garbage
  /\ Disconnect("connecting")

ErrorPauseEnds ==
  /\ client = "error pause"
  /\ client' = "connecting"
  /\ UNCHANGED <<requests, nodeVars, link, queue, subs, arrived, handled>>

(* Mutant of ReceiveEvent: callbacks run as tasks of their own.            *)
ReceiveEventAsTask ==
  /\ client = "receiving"
  /\ \E i \in DOMAIN queue :
       /\ queue[i].kind = "event"
       /\ handled' = Append(handled, queue[i].n)
       /\ queue' = RemoveAt(queue, i)
  /\ client' = "handling"
  /\ UNCHANGED <<requests, nodeVars, link, subs, arrived>>

ReceiveEvent ==
  /\ client = "receiving"
  /\ queue # << >>
  /\ Head(queue).kind = "event"
  /\ client' = "handling"
  /\ queue' = Tail(queue)
  /\ handled' = Append(handled, Head(queue).n)
  /\ UNCHANGED <<requests, nodeVars, link, subs, arrived>>

(* The callback never raises: it logs its exceptions.                      *)
CallbackReturns ==
  /\ client = "handling"
  /\ client' = "receiving"
  /\ UNCHANGED <<requests, nodeVars, link, queue, subs, arrived, handled>>

(* Mutant of Silence: the timeout races with a message and drops it.       *)
SilenceDropsMessage ==
  /\ client = "receiving"
  /\ link # "lost"
  /\ queue' = IF queue = << >> THEN queue ELSE Tail(queue)
  /\ client' = "silence pause"
  /\ UNCHANGED <<requests, nodeVars, link, subs, arrived, handled>>

(* wait_for gives up after 60 seconds; the loop sleeps and reads on.  On a *)
(* connection known to be lost recv raises without waiting.                *)
Silence ==
  /\ client = "receiving"
  /\ queue = << >>
  /\ link # "lost"
  /\ client' = "silence pause"
  /\ UNCHANGED <<requests, nodeVars, link, queue, subs, arrived, handled>>

SilencePauseEnds ==
  /\ client = "silence pause"
  /\ client' = "receiving"
  /\ UNCHANGED <<requests, nodeVars, link, queue, subs, arrived, handled>>

(* send or recv raises ConnectionClosed.                                   *)
SeesClosed ==
  /\ client \in {"subscribing", "receiving"}
  /\ link = "lost"
  /\ Disconnect("connecting")

-------------------------------------------------------------------------------
(* The node and the network.                                               *)

Emit ==
  /\ link = "open"
  /\ subs # {}
  /\ emitted < MaxEvents
  /\ Len(queue) < MaxQueue
  /\ emitted' = emitted + 1
  /\ queue' = Append(queue, Event(emitted + 1))
  /\ arrived' = Append(arrived, emitted + 1)
  /\ UNCHANGED <<clientVars, node, faults, link, subs, handled>>

(* The chain goes on while the loop has no connection, or lacks a          *)
(* subscription: the event is never seen.                                  *)
Miss ==
  /\ link # "open" \/ subs # Queries
  /\ emitted < MaxEvents
  /\ emitted' = emitted + 1
  /\ UNCHANGED <<clientVars, node, faults, link, queue, subs, arrived, handled>>

Fault ==
  /\ faults < MaxFaults
  /\ faults' = faults + 1

(* A client that does not keep up loses the subscription and is told so.   *)
CancelSubscription ==
  /\ link = "open"
  /\ Fault
  /\ \E q \in subs : subs' = subs \ {q}
  /\ queue' = Append(queue, Error)
  /\ UNCHANGED <<clientVars, node, emitted, link, arrived, handled>>

SendGarbage ==
  /\ link = "open"
  /\ Fault
  /\ queue' = Append(queue, Garbage)
  /\ UNCHANGED <<clientVars, node, emitted, link, subs, arrived, handled>>

(* The connection is lost, with or without the node.  What has arrived may *)
(* still be read.                                                          *)
LoseConnection ==
  /\ Fault
  /\ link' = IF link = "open" THEN "broken" ELSE link
  /\ subs' = {}
  /\ node' \in {"up", "down"}
  /\ UNCHANGED <<clientVars, emitted, queue, arrived, handled>>

(* The library's keepalive, or a reset by the peer, reveals the loss.      *)
NoticeLoss ==
  /\ link = "broken"
  /\ link' = "lost"
  /\ UNCHANGED <<clientVars, nodeVars, queue, subs, arrived, handled>>

NodeReturns ==
  /\ node = "down"
  /\ node' = "up"
  /\ UNCHANGED <<clientVars, emitted, faults, link, queue, subs, arrived, handled>>

-------------------------------------------------------------------------------

ConnectionStep ==
  \/ Connect \/ DnsPauseEnds \/ Subscribe
  \/ ReceiveAck \/ ReceiveError \/ ReceiveGarbage
  \/ ErrorPauseEnds \/ SilencePauseEnds \/ SeesClosed

ClientStep == ConnectionStep \/ ReceiveEvent \/ CallbackReturns

NodeStep == Emit \/ Miss \/ CancelSubscription \/ SendGarbage \/ LoseConnection
            \/ NoticeLoss \/ NodeReturns

Next == ClientStep \/ ResolveFails \/ Silence \/ NodeStep

Spec == Init /\ [][Next]_vars

-------------------------------------------------------------------------------
(* Properties.                                                             *)

TypeOK ==
  /\ client \in Client
  /\ requests \in 0 .. Len(WS_EVENTS)
  /\ link \in {"closed", "open", "broken", "lost"}
  /\ queue \in Seq(Message)
  /\ subs \subseteq Queries
  /\ node \in {"up", "down"}
  /\ emitted \in 0 .. MaxEvents
  /\ faults \in 0 .. MaxFaults
  /\ arrived \in Seq(1 .. MaxEvents)
  /\ handled \in Seq(1 .. MaxEvents)

(* Where the events are that wait on the connection.                      *)
EventPlaces == { j \in DOMAIN queue : queue[j].kind = "event" }

(* Of what arrived, `read' events are the last ones handled, in the same   *)
(* order; each of the others has its own place in the queue, in the same   *)
(* order, and no event is in the queue besides them.                       *)
Accounted(read, place) ==
  /\ \A i \in 1 .. read : arrived[i] = handled[Len(handled) - read + i]
  /\ Range(place) = EventPlaces
  /\ \A i, k \in DOMAIN place : i < k => place[i] < place[k]
  /\ \A i \in DOMAIN place : arrived[i] = queue[place[i]].n

(* On one connection no event is lost, repeated or overtaken, whatever     *)
(* timeouts and pauses come between: what arrived is what was handed to    *)
(* the callback followed by what still waits.                              *)
NoGapOnConnection ==
  \E read \in 0 .. Len(handled) :
    /\ read <= Len(arrived)
    /\ \E place \in [read + 1 .. Len(arrived) -> EventPlaces] : Accounted(read, place)

(* Across reconnections the callback sees events in the order the node     *)
(* emitted them, each at most once: nothing of an earlier connection comes *)
(* after the first event of a later one.                                   *)
HandledInOrder ==
  \A i, j \in 1 .. Len(handled) : i < j => handled[i] < handled[j]

(* The loop implements the stream: with all its connections, pauses,       *)
(* refused subscriptions and timeouts it loses events in no other way than *)
(* those emitted while it is not subscribed, and those that wait on a      *)
(* connection when it leaves it.                                           *)
EventsIn(q) == { q[i].n : i \in { k \in DOMAIN q : q[k].kind = "event" } }

Stream == INSTANCE EventStream
            WITH last <- emitted, pending <- EventsIn(queue), delivered <- handled

ImplementsEventStream == Stream!Spec
===============================================================================
