--------------------------- MODULE ConnectionProofs ---------------------------
(* Theorems about WsConnection (src/websocket.py), for any number of       *)
(* events, messages and faults.                                            *)
EXTENDS WsConnection, TLAPS

-------------------------------------------------------------------------------
(* Types.  A subscription is only sent while one is left to send: no       *)
(* connection begins with requests of an earlier one.                      *)

RequestsInHand ==
  /\ client \in {"connecting", "dns pause", "error pause"} => requests = 0
  /\ client = "subscribing" => requests < Len(WS_EVENTS)

TypeInv == TypeOK /\ RequestsInHand

LEMMA FourQueries == Len(WS_EVENTS) = 4
  BY DEF WS_EVENTS

LEMMA QueriesOfEvents == \A i \in 1 .. 4 : WS_EVENTS[i] \in Queries
  BY DEF WS_EVENTS, Queries, Range

LEMMA MessagesAreMessages ==
  /\ Ack \in Message /\ Error \in Message /\ Garbage \in Message
  /\ \A n \in 1 .. MaxEvents : Event(n) \in Message
  BY DEF Ack, Error, Garbage, Event, Message

LEMMA QueuesAreQueues ==
  \A q \in Seq(Message), m \in Message : Append(q, m) \in Seq(Message)
  OBVIOUS

LEMMA EventNumbers ==
  \A m \in Message : m.kind = "event" => m.n \in 1 .. MaxEvents
  BY DEF Message

LEMMA InitTypes == Init => TypeInv
<1> SUFFICES ASSUME Init PROVE TypeInv
  OBVIOUS
<1>1. TypeOK
  BY FourQueries, BoundsAssumption DEF Init, TypeOK, Client
<1>2. RequestsInHand
  BY FourQueries DEF Init, RequestsInHand
<1> QED
  BY <1>1, <1>2 DEF TypeInv

LEMMA SubscribeTypes ==
  ASSUME TypeInv, Subscribe
  PROVE  TypeInv'
<1>1. /\ requests \in 0 .. 3
      /\ requests' = requests + 1
      /\ client' = IF requests' = 4 THEN "receiving" ELSE "subscribing"
  BY FourQueries DEF TypeInv, TypeOK, RequestsInHand, Subscribe
<1>2. RequestsInHand'
  BY <1>1, FourQueries DEF RequestsInHand
<1>3. requests' \in 0 .. Len(WS_EVENTS) /\ client' \in Client
  BY <1>1, FourQueries DEF Client
<1>4. WS_EVENTS[requests + 1] \in Queries
  BY <1>1, QueriesOfEvents
<1>5. queue' \in Seq(Message)
  BY MessagesAreMessages, QueuesAreQueues DEF Subscribe, TypeInv, TypeOK
<1>6. subs' \subseteq Queries
  BY <1>4 DEF Subscribe, TypeInv, TypeOK
<1>7. faults' \in 0 .. MaxFaults
  BY BoundsAssumption DEF Subscribe, TypeInv, TypeOK
<1> QED
  BY <1>2, <1>3, <1>5, <1>6, <1>7 DEF TypeInv, TypeOK, Subscribe

LEMMA DisconnectTypes ==
  ASSUME TypeInv, NEW next \in Client \ {"subscribing"}, Disconnect(next)
  PROVE  TypeInv'
<1>1. TypeOK'
  BY FourQueries DEF TypeInv, TypeOK, Disconnect, nodeVars
<1>2. RequestsInHand'
  BY DEF RequestsInHand, Disconnect
<1> QED
  BY <1>1, <1>2 DEF TypeInv

(* The steps of the client that change neither requests nor queue.         *)
LEMMA ClientTypes ==
  ASSUME TypeInv,
         \/ Connect \/ ResolveFails \/ DnsPauseEnds \/ ErrorPauseEnds
         \/ Silence \/ SilencePauseEnds \/ CallbackReturns
  PROVE  TypeInv'
<1>1. TypeOK'
  BY DEF TypeInv, TypeOK, Client, nodeVars, Connect, ResolveFails, DnsPauseEnds,
         ErrorPauseEnds, Silence, SilencePauseEnds, CallbackReturns
<1>2. /\ requests' = requests
      /\ client' = "subscribing" => client = "connecting"
      /\ client' \in {"connecting", "dns pause", "error pause"} =>
           client \in {"connecting", "dns pause", "error pause"}
  BY DEF Connect, ResolveFails, DnsPauseEnds, ErrorPauseEnds, Silence, SilencePauseEnds,
         CallbackReturns
<1>3. RequestsInHand'
  <2>1. client' \in {"connecting", "dns pause", "error pause", "subscribing"} => requests' = 0
    BY <1>2 DEF TypeInv, RequestsInHand
  <2>2. 0 < Len(WS_EVENTS)
    BY FourQueries
  <2>3. client' = "subscribing" => requests' < Len(WS_EVENTS)
    BY <2>1, <2>2
  <2> QED
    BY <2>1, <2>3 DEF RequestsInHand
<1> QED
  BY <1>1, <1>3 DEF TypeInv

LEMMA ReceiveTypes ==
  ASSUME TypeInv, ReceiveAck \/ ReceiveEvent
  PROVE  TypeInv'
<1>1. /\ requests' = requests
      /\ client' \in {"receiving", "handling"}
  BY DEF ReceiveAck, ReceiveEvent, clientVars
<1>2. Head(queue) \in Message /\ Tail(queue) \in Seq(Message)
  BY DEF TypeInv, TypeOK, ReceiveAck, ReceiveEvent
<1>3. handled' \in Seq(1 .. MaxEvents)
  <2>1. CASE ReceiveAck
    BY <2>1 DEF TypeInv, TypeOK, ReceiveAck
  <2>2. CASE ReceiveEvent
    <3>1. Head(queue).n \in 1 .. MaxEvents
      BY <1>2, <2>2, EventNumbers DEF ReceiveEvent
    <3> QED
      BY <2>2, <3>1 DEF TypeInv, TypeOK, ReceiveEvent
  <2> QED
    BY <2>1, <2>2
<1>4. TypeOK'
  BY <1>1, <1>2, <1>3 DEF TypeInv, TypeOK, ReceiveAck, ReceiveEvent, Client, nodeVars
<1>5. RequestsInHand'
  BY <1>1 DEF RequestsInHand
<1> QED
  BY <1>4, <1>5 DEF TypeInv

LEMMA NodeTypes ==
  ASSUME TypeInv, NodeStep
  PROVE  TypeInv'
<1>1. UNCHANGED <<client, requests>>
  BY DEF NodeStep, Emit, Miss, CancelSubscription, SendGarbage, LoseConnection, NoticeLoss,
         NodeReturns, clientVars
<1>2. RequestsInHand'
  BY <1>1 DEF TypeInv, RequestsInHand
<1> USE DEF TypeInv, TypeOK
<1>3. CASE Emit
  <2>1. emitted + 1 \in 1 .. MaxEvents
    BY <1>3, BoundsAssumption DEF Emit
  <2> QED
    BY <1>1, <1>2, <1>3, <2>1, MessagesAreMessages DEF Emit
<1>4. CASE Miss
  <2>1. emitted' \in 0 .. MaxEvents
    BY <1>4, BoundsAssumption DEF Miss
  <2> QED
    BY <1>1, <1>2, <1>4, <2>1 DEF Miss
<1>5. CASE CancelSubscription \/ SendGarbage \/ LoseConnection
  <2>1. faults' \in 0 .. MaxFaults
    BY <1>5, BoundsAssumption DEF CancelSubscription, SendGarbage, LoseConnection, Fault
  <2>2. queue' \in Seq(Message)
    BY <1>5, MessagesAreMessages, QueuesAreQueues DEF CancelSubscription, SendGarbage, LoseConnection
  <2> QED
    BY <1>1, <1>2, <1>5, <2>1, <2>2 DEF CancelSubscription, SendGarbage, LoseConnection
<1>6. CASE NoticeLoss \/ NodeReturns
  BY <1>1, <1>2, <1>6 DEF NoticeLoss, NodeReturns, nodeVars
<1> QED
  BY <1>3, <1>4, <1>5, <1>6 DEF NodeStep

LEMMA TypeStep == TypeInv /\ [Next]_vars => TypeInv'
<1> SUFFICES ASSUME TypeInv, [Next]_vars PROVE TypeInv'
  OBVIOUS
<1>1. CASE ReceiveError \/ ReceiveGarbage \/ SeesClosed
  <2>1. {"error pause", "connecting"} \subseteq Client \ {"subscribing"}
    BY DEF Client
  <2> QED
    BY <1>1, <2>1, DisconnectTypes DEF ReceiveError, ReceiveGarbage, SeesClosed
<1>2. CASE UNCHANGED vars
  BY <1>2 DEF vars, clientVars, nodeVars, TypeInv, TypeOK, RequestsInHand
<1> QED
  BY <1>1, <1>2, SubscribeTypes, ClientTypes, ReceiveTypes, NodeTypes
     DEF Next, ClientStep, ConnectionStep

(* The variables of WsConnection have their types.                         *)
THEOREM ConnectionTypeCorrect == Spec => []TypeOK
<1>1. TypeInv => TypeOK
  BY DEF TypeInv
<1> QED
  BY <1>1, InitTypes, TypeStep, PTL DEF Spec

-------------------------------------------------------------------------------
(* What a step can do to the events on the connection and to those handled *)
(* is one of seven things.                                                 *)

Still == UNCHANGED <<queue, emitted, arrived, handled>>

Note == \* an answer or an error message is put behind the others
  /\ \E m \in Message : m.kind # "event" /\ queue' = Append(queue, m)
  /\ UNCHANGED <<emitted, arrived, handled>>

Skip == \* the first message is no event and is dropped
  /\ queue # << >> /\ Head(queue).kind # "event" /\ queue' = Tail(queue)
  /\ UNCHANGED <<emitted, arrived, handled>>

Abandon == \* the connection is left
  /\ queue' = << >>
  /\ arrived' = << >>
  /\ UNCHANGED <<emitted, handled>>

Hand == \* the first message is an event and is handed to the callback
  /\ queue # << >> /\ Head(queue).kind = "event" /\ queue' = Tail(queue)
  /\ handled' = Append(handled, Head(queue).n)
  /\ UNCHANGED <<emitted, arrived>>

Arrive ==
  /\ emitted' = emitted + 1
  /\ queue' = Append(queue, Event(emitted'))
  /\ arrived' = Append(arrived, emitted')
  /\ emitted' \in 1 .. MaxEvents
  /\ UNCHANGED handled

Pass == emitted' = emitted + 1 /\ UNCHANGED <<queue, arrived, handled>>

LEMMA StepOnEvents ==
  ASSUME TypeInv, [Next]_vars
  PROVE  Still \/ Note \/ Skip \/ Abandon \/ Hand \/ Arrive \/ Pass
<1> USE DEF nodeVars, clientVars
<1>1. CASE Connect \/ ResolveFails \/ DnsPauseEnds \/ ErrorPauseEnds
           \/ Silence \/ SilencePauseEnds \/ CallbackReturns
  BY <1>1 DEF Still, Connect, ResolveFails, DnsPauseEnds, ErrorPauseEnds, Silence,
              SilencePauseEnds, CallbackReturns
<1>2. CASE NoticeLoss \/ NodeReturns \/ LoseConnection \/ UNCHANGED vars
  BY <1>2 DEF Still, NoticeLoss, NodeReturns, LoseConnection, Fault, vars
<1>3. CASE Subscribe
  <2>1. Ack.kind # "event" /\ Error.kind # "event"
    BY DEF Ack, Error
  <2> QED
    BY <1>3, <2>1, MessagesAreMessages DEF Subscribe, Note, Still
<1>4. CASE CancelSubscription \/ SendGarbage
  <2>1. Error.kind # "event" /\ Garbage.kind # "event"
    BY DEF Error, Garbage
  <2> QED
    BY <1>4, <2>1, MessagesAreMessages DEF CancelSubscription, SendGarbage, Fault, Note
<1>5. CASE ReceiveAck
  <2>1. Ack.kind # "event"
    BY DEF Ack
  <2> QED
    BY <1>5, <2>1 DEF ReceiveAck, Skip
<1>6. CASE ReceiveError \/ ReceiveGarbage \/ SeesClosed
  BY <1>6 DEF ReceiveError, ReceiveGarbage, SeesClosed, Disconnect, Abandon
<1>7. CASE ReceiveEvent
  BY <1>7 DEF ReceiveEvent, Hand
<1>8. CASE Emit
  <2>1. emitted + 1 \in 1 .. MaxEvents
    BY <1>8, BoundsAssumption DEF Emit, TypeInv, TypeOK
  <2> QED
    BY <1>8, <2>1 DEF Emit, Arrive
<1>9. CASE Miss
  BY <1>9 DEF Miss, Pass
<1> QED
  BY <1>1, <1>2, <1>3, <1>4, <1>5, <1>6, <1>7, <1>8, <1>9
     DEF Next, ClientStep, ConnectionStep, NodeStep

-------------------------------------------------------------------------------
(* Events wait in the order of their emission, behind all those handled.   *)

IsEvent(i) == queue[i].kind = "event"

QueueInOrder ==
  \A i, j \in 1 .. Len(queue) :
    i < j /\ IsEvent(i) /\ IsEvent(j) => queue[i].n < queue[j].n

HandledFirst ==
  \A i \in 1 .. Len(handled), j \in 1 .. Len(queue) : IsEvent(j) => handled[i] < queue[j].n

EmittedLast ==
  /\ \A i \in 1 .. Len(handled) : handled[i] <= emitted
  /\ \A j \in 1 .. Len(queue) : IsEvent(j) => queue[j].n <= emitted

OrderInv == TypeInv /\ HandledInOrder /\ QueueInOrder /\ HandledFirst /\ EmittedLast

(* What the tail and an extension of a sequence are made of.               *)
LEMMA TailOf ==
  ASSUME NEW S, NEW q \in Seq(S), q # << >>
  PROVE  /\ Tail(q) \in Seq(S)
         /\ Len(q) \in Nat \ {0}
         /\ Len(Tail(q)) = Len(q) - 1
         /\ Head(q) = q[1]
         /\ \A i \in 1 .. Len(Tail(q)) : i + 1 \in 1 .. Len(q) /\ Tail(q)[i] = q[i + 1]
  OBVIOUS

LEMMA ElementsOf ==
  ASSUME NEW S, NEW q \in Seq(S)
  PROVE  \A i \in 1 .. Len(q) : q[i] \in S
  OBVIOUS

LEMMA AppendOf ==
  ASSUME NEW S, NEW q \in Seq(S), NEW e \in S
  PROVE  /\ Len(q) \in Nat
         /\ Len(Append(q, e)) = Len(q) + 1
         /\ \A i \in 1 .. Len(q) : Append(q, e)[i] = q[i]
         /\ Append(q, e)[Len(q) + 1] = e
  OBVIOUS

LEMMA InitOrder == Init => OrderInv
<1> SUFFICES ASSUME Init PROVE OrderInv
  OBVIOUS
<1>1. Len(queue) = 0 /\ Len(handled) = 0
  BY DEF Init
<1> QED
  BY <1>1, InitTypes DEF OrderInv, HandledInOrder, QueueInOrder, HandledFirst, EmittedLast

(* The numbers compared are numbers.                                       *)
LEMMA Numbers ==
  ASSUME TypeInv
  PROVE  /\ emitted \in Nat
         /\ Len(queue) \in Nat /\ Len(handled) \in Nat
         /\ \A i \in 1 .. Len(handled) : handled[i] \in Nat
         /\ \A j \in 1 .. Len(queue) : queue[j] \in Message /\ (IsEvent(j) => queue[j].n \in Nat)
<1>1. emitted \in Nat /\ queue \in Seq(Message) /\ handled \in Seq(1 .. MaxEvents)
  BY DEF TypeInv, TypeOK
<1>2. \A i \in 1 .. Len(handled) : handled[i] \in Nat
  <2>1. \A i \in 1 .. Len(handled) : handled[i] \in 1 .. MaxEvents
    BY <1>1, ElementsOf
  <2> QED
    BY <2>1, BoundsAssumption
<1>3. \A j \in 1 .. Len(queue) : queue[j] \in Message
  BY <1>1
<1>4. \A j \in 1 .. Len(queue) : IsEvent(j) => queue[j].n \in Nat
  BY <1>3, EventNumbers DEF IsEvent
<1> QED
  BY <1>1, <1>2, <1>3, <1>4

LEMMA OrderStep == OrderInv /\ [Next]_vars => OrderInv'
<1> SUFFICES ASSUME OrderInv, [Next]_vars PROVE OrderInv'
  OBVIOUS
<1>0. TypeInv /\ TypeInv'
  BY TypeStep DEF OrderInv
<1>1. queue \in Seq(Message) /\ handled \in Seq(1 .. MaxEvents)
  BY <1>0 DEF TypeInv, TypeOK
<1> DEFINE Order == HandledInOrder /\ QueueInOrder /\ HandledFirst /\ EmittedLast
<1>2. Order
  BY DEF OrderInv
<1> USE DEF HandledInOrder, QueueInOrder, HandledFirst, EmittedLast, IsEvent
<1>3. ASSUME Still PROVE Order'
  BY <1>2, <1>3 DEF Still
<1>4. ASSUME Note PROVE Order'
  <2>1. PICK m \in Message : m.kind # "event" /\ queue' = Append(queue, m)
    BY <1>4 DEF Note
  <2>2. /\ Len(queue) \in Nat /\ Len(queue') = Len(queue) + 1
        /\ \A i \in 1 .. Len(queue) : queue'[i] = queue[i]
        /\ queue'[Len(queue) + 1].kind # "event"
    BY <1>1, <2>1, AppendOf
  <2>3. \A i \in 1 .. Len(queue') : IsEvent(i)' => i \in 1 .. Len(queue) /\ queue'[i] = queue[i]
    BY <2>2
  <2> QED
    BY <1>2, <1>4, <2>3 DEF Note
<1>5. ASSUME Skip \/ Hand
      PROVE  /\ Len(queue') = Len(queue) - 1
             /\ Len(queue) \in Nat \ {0}
             /\ Head(queue) = queue[1]
             /\ \A i \in 1 .. Len(queue') : i + 1 \in 1 .. Len(queue) /\ queue'[i] = queue[i + 1]
  BY <1>1, <1>5, TailOf DEF Skip, Hand
<1>6. ASSUME Skip \/ Hand
      PROVE  /\ QueueInOrder'
             /\ \A j \in 1 .. Len(queue') : IsEvent(j)' => queue'[j].n <= emitted'
  <2>1. UNCHANGED emitted
    BY <1>6 DEF Skip, Hand
  <2>2. QueueInOrder'
    <3> SUFFICES ASSUME NEW i \in 1 .. Len(queue'), NEW j \in 1 .. Len(queue'),
                        i < j, IsEvent(i)', IsEvent(j)'
                 PROVE  queue'[i].n < queue'[j].n
      OBVIOUS
    <3>1. i + 1 < j + 1
      OBVIOUS
    <3> QED
      BY <1>2, <1>5, <1>6, <3>1
  <2>3. \A j \in 1 .. Len(queue') : IsEvent(j)' => queue'[j].n <= emitted'
    BY <1>2, <1>5, <1>6, <2>1
  <2> QED
    BY <2>2, <2>3
<1>7. ASSUME Skip PROVE Order'
  <2>1. UNCHANGED <<emitted, handled>>
    BY <1>7 DEF Skip
  <2>2. HandledFirst'
    BY <1>2, <1>5, <1>7, <2>1
  <2> QED
    BY <1>2, <1>6, <1>7, <2>1, <2>2
<1>8. ASSUME Hand PROVE Order'
  <2>1. IsEvent(1) /\ 1 \in 1 .. Len(queue) /\ queue[1].n \in 1 .. MaxEvents
    <3>1. queue[1] \in Message
      BY <1>1, <1>5, <1>8
    <3> QED
      BY <1>5, <1>8, <3>1, EventNumbers DEF Hand
  <2>2. /\ Len(handled) \in Nat /\ Len(handled') = Len(handled) + 1
        /\ \A i \in 1 .. Len(handled) : handled'[i] = handled[i]
        /\ handled'[Len(handled) + 1] = queue[1].n
    BY <1>1, <1>5, <1>8, <2>1, AppendOf DEF Hand
  <2>3. \A i \in 1 .. Len(handled) : handled[i] < queue[1].n
    BY <1>2, <2>1
  <2>4. HandledInOrder'
    <3> SUFFICES ASSUME NEW i \in 1 .. Len(handled'), NEW j \in 1 .. Len(handled'), i < j
                 PROVE  handled'[i] < handled'[j]
      OBVIOUS
    <3>1. i \in 1 .. Len(handled)
      BY <2>2
    <3>2. CASE j \in 1 .. Len(handled)
      BY <1>2, <2>2, <3>1, <3>2
    <3>3. CASE j = Len(handled) + 1
      BY <2>2, <2>3, <3>1, <3>3
    <3> QED
      BY <2>2, <3>2, <3>3
  <2>5. \A j \in 1 .. Len(queue') : IsEvent(j)' => queue[1].n < queue'[j].n
    BY <1>2, <1>5, <1>8, <2>1
  <2>6. HandledFirst'
    <3> SUFFICES ASSUME NEW i \in 1 .. Len(handled'), NEW j \in 1 .. Len(queue'), IsEvent(j)'
                 PROVE  handled'[i] < queue'[j].n
      OBVIOUS
    <3>1. j + 1 \in 1 .. Len(queue) /\ queue'[j] = queue[j + 1]
      BY <1>5, <1>8
    <3>2. CASE i \in 1 .. Len(handled)
      BY <1>2, <2>2, <3>1, <3>2
    <3>3. CASE i = Len(handled) + 1
      BY <2>2, <2>5, <3>3
    <3> QED
      BY <2>2, <3>2, <3>3
  <2>7. \A i \in 1 .. Len(handled') : handled'[i] <= emitted'
    BY <1>2, <1>8, <2>1, <2>2 DEF Hand
  <2> QED
    BY <1>6, <1>8, <2>4, <2>6, <2>7
<1>9. ASSUME Abandon PROVE Order'
  <2>1. Len(queue') = 0
    BY <1>9 DEF Abandon
  <2> QED
    BY <1>2, <1>9, <2>1 DEF Abandon
<1>10. ASSUME Arrive PROVE Order'
  <2>1. /\ Event(emitted') \in Message
        /\ Event(emitted').kind = "event" /\ Event(emitted').n = emitted'
    BY <1>10, MessagesAreMessages DEF Arrive, Event
  <2>2. /\ Len(queue) \in Nat /\ Len(queue') = Len(queue) + 1
        /\ \A i \in 1 .. Len(queue) : queue'[i] = queue[i]
        /\ queue'[Len(queue) + 1].n = emitted'
    BY <1>1, <1>10, <2>1, AppendOf DEF Arrive
  <2>3. emitted \in Nat /\ emitted' = emitted + 1 /\ handled' = handled
    BY <1>0, <1>10, Numbers DEF Arrive
  <2>4. /\ \A i \in 1 .. Len(handled) : handled[i] < emitted'
        /\ \A j \in 1 .. Len(queue) : IsEvent(j) => queue[j].n < emitted'
    BY <1>0, <1>2, <2>3, Numbers
  <2>5. QueueInOrder'
    BY <1>2, <2>2, <2>4
  <2>6. HandledFirst'
    BY <1>2, <2>2, <2>3, <2>4
  <2>7. EmittedLast'
    BY <1>0, <2>2, <2>3, <2>4, Numbers
  <2> QED
    BY <1>2, <2>3, <2>5, <2>6, <2>7
<1>11. ASSUME Pass PROVE Order'
  <2>1. emitted \in Nat /\ emitted' = emitted + 1
    BY <1>0, <1>11, Numbers DEF Pass
  <2>2. UNCHANGED <<queue, handled>>
    BY <1>11 DEF Pass
  <2>3. HandledInOrder' /\ QueueInOrder' /\ HandledFirst'
    BY <1>2, <2>2
  <2>4. EmittedLast'
    BY <1>0, <1>2, <2>1, <2>2, Numbers
  <2> QED
    BY <2>3, <2>4
<1> QED
  BY <1>0, <1>3, <1>4, <1>7, <1>8, <1>9, <1>10, <1>11, StepOnEvents DEF OrderInv

(* Over all connections the callback sees the events in the order of their *)
(* emission, each at most once.                                            *)
THEOREM EventsInOrder == Spec => []HandledInOrder
<1>1. OrderInv => HandledInOrder
  BY DEF OrderInv
<1> QED
  BY <1>1, InitOrder, OrderStep, PTL DEF Spec

-------------------------------------------------------------------------------
(* No gap on a connection, said of any sequences: what arrived (a), what    *)
(* was handled (h) and what waits (q).                                     *)

EventsAt(q) == { j \in DOMAIN q : q[j].kind = "event" }

Matches(a, h, q, read, place) ==
  /\ \A i \in 1 .. read : a[i] = h[Len(h) - read + i]
  /\ \A i \in DOMAIN place : a[i] = q[place[i]].n
  /\ \A i, k \in DOMAIN place : i < k => place[i] < place[k]
  /\ \A j \in EventsAt(q) : \E i \in DOMAIN place : place[i] = j

Gapless(a, h, q) ==
  \E read \in 0 .. Len(h) :
    /\ read <= Len(a)
    /\ \E place \in [read + 1 .. Len(a) -> EventsAt(q)] : Matches(a, h, q, read, place)

LEMMA GaplessIsNoGap == NoGapOnConnection <=> Gapless(arrived, handled, queue)
<1>1. EventPlaces = EventsAt(queue)
  BY DEF EventPlaces, EventsAt
<1>2. ASSUME NEW read, NEW place \in [read + 1 .. Len(arrived) -> EventPlaces]
      PROVE  Accounted(read, place) <=> Matches(arrived, handled, queue, read, place)
  <2>1. Range(place) = EventPlaces <=> \A j \in EventPlaces : \E i \in DOMAIN place : place[i] = j
    BY DEF Range
  <2> QED
    BY <1>1, <2>1 DEF Accounted, Matches
<1> QED
  BY <1>1, <1>2 DEF NoGapOnConnection, Gapless

(* A message that is no event comes in behind the others.                  *)
LEMMA GaplessNote ==
  ASSUME NEW a, NEW h, NEW q \in Seq(Message), NEW m \in Message, m.kind # "event",
         Gapless(a, h, q)
  PROVE  Gapless(a, h, Append(q, m))
<1>1. /\ Len(q) \in Nat /\ Append(q, m) \in Seq(Message)
      /\ DOMAIN q = 1 .. Len(q) /\ DOMAIN Append(q, m) = 1 .. Len(q) + 1
      /\ \A i \in 1 .. Len(q) : Append(q, m)[i] = q[i]
      /\ Append(q, m)[Len(q) + 1] = m
  BY AppendOf
<1>2. \A i \in 1 .. Len(q) + 1 : i = Len(q) + 1 \/ i \in 1 .. Len(q)
  BY <1>1
<1>3. EventsAt(Append(q, m)) = EventsAt(q)
  BY <1>1, <1>2 DEF EventsAt
<1>4. \A j \in EventsAt(q) : Append(q, m)[j] = q[j]
  BY <1>1 DEF EventsAt
<1>5. PICK read \in 0 .. Len(h) :
        /\ read <= Len(a)
        /\ \E place \in [read + 1 .. Len(a) -> EventsAt(q)] : Matches(a, h, q, read, place)
  BY DEF Gapless
<1>6. PICK place \in [read + 1 .. Len(a) -> EventsAt(q)] : Matches(a, h, q, read, place)
  BY <1>5
<1>7. \A i \in DOMAIN place : Append(q, m)[place[i]] = q[place[i]]
  BY <1>4
<1>8. Matches(a, h, Append(q, m), read, place)
  BY <1>3, <1>6, <1>7 DEF Matches
<1> QED
  BY <1>3, <1>5, <1>8 DEF Gapless

(* Where the events are when the first message has been taken.             *)
LEMMA EventsAtTail ==
  ASSUME NEW q \in Seq(Message), q # << >>
  PROVE  /\ EventsAt(q) \subseteq Nat \ {0} /\ EventsAt(Tail(q)) \subseteq Nat \ {0}
         /\ 1 \in EventsAt(q) <=> Head(q).kind = "event"
         /\ Head(q) = q[1]
         /\ \A j \in EventsAt(q) : j # 1 => j - 1 \in EventsAt(Tail(q)) /\ Tail(q)[j - 1] = q[j]
         /\ \A j \in EventsAt(Tail(q)) : j + 1 \in EventsAt(q)
<1>1. /\ Len(q) \in Nat \ {0} /\ Head(q) = q[1]
      /\ DOMAIN q = 1 .. Len(q) /\ DOMAIN Tail(q) = 1 .. Len(q) - 1
      /\ \A i \in 1 .. Len(q) - 1 : i + 1 \in 1 .. Len(q) /\ Tail(q)[i] = q[i + 1]
  BY TailOf
<1>2. \A i \in 1 .. Len(q) : i # 1 => i - 1 \in 1 .. Len(q) - 1 /\ (i - 1) + 1 = i
  BY <1>1
<1>3. EventsAt(q) \subseteq Nat \ {0} /\ EventsAt(Tail(q)) \subseteq Nat \ {0}
  BY <1>1 DEF EventsAt
<1>4. 1 \in 1 .. Len(q)
  BY <1>1
<1>5. 1 \in EventsAt(q) <=> Head(q).kind = "event"
  BY <1>1, <1>4 DEF EventsAt
<1>6. \A j \in EventsAt(q) : j # 1 => j - 1 \in EventsAt(Tail(q)) /\ Tail(q)[j - 1] = q[j]
  <2> SUFFICES ASSUME NEW j \in EventsAt(q), j # 1
               PROVE  j - 1 \in EventsAt(Tail(q)) /\ Tail(q)[j - 1] = q[j]
    OBVIOUS
  <2>1. j - 1 \in 1 .. Len(q) - 1 /\ Tail(q)[j - 1] = q[j]
    BY <1>1, <1>2 DEF EventsAt
  <2> QED
    BY <1>1, <2>1 DEF EventsAt
<1>7. \A j \in EventsAt(Tail(q)) : j + 1 \in EventsAt(q)
  BY <1>1 DEF EventsAt
<1> QED
  BY <1>1, <1>3, <1>5, <1>6, <1>7

(* The first message is no event and is dropped.                           *)
LEMMA GaplessSkip ==
  ASSUME NEW a, Len(a) \in Nat, NEW h, Len(h) \in Nat,
         NEW q \in Seq(Message), q # << >>, Head(q).kind # "event",
         Gapless(a, h, q)
  PROVE  Gapless(a, h, Tail(q))
<1>1. PICK read \in 0 .. Len(h) :
        /\ read <= Len(a)
        /\ \E place \in [read + 1 .. Len(a) -> EventsAt(q)] : Matches(a, h, q, read, place)
  BY DEF Gapless
<1>2. PICK place \in [read + 1 .. Len(a) -> EventsAt(q)] : Matches(a, h, q, read, place)
  BY <1>1
<1> DEFINE moved == [i \in read + 1 .. Len(a) |-> place[i] - 1]
<1>3. \A i \in read + 1 .. Len(a) :
        /\ place[i] \in Nat /\ place[i] # 1
        /\ place[i] - 1 \in EventsAt(Tail(q)) /\ Tail(q)[place[i] - 1] = q[place[i]]
  BY EventsAtTail
<1>4. moved \in [read + 1 .. Len(a) -> EventsAt(Tail(q))]
  BY <1>3
<1>5. DOMAIN place = read + 1 .. Len(a) /\ DOMAIN moved = read + 1 .. Len(a)
  OBVIOUS
<1>6. \A i \in DOMAIN moved : moved[i] = place[i] - 1
  OBVIOUS
<1> HIDE DEF moved
<1>7. \A i, k \in DOMAIN moved : i < k => moved[i] < moved[k]
  BY <1>2, <1>3, <1>5, <1>6 DEF Matches
<1>8. \A j \in EventsAt(Tail(q)) : \E i \in DOMAIN moved : moved[i] = j
  <2> SUFFICES ASSUME NEW j \in EventsAt(Tail(q))
               PROVE  \E i \in DOMAIN moved : moved[i] = j
    OBVIOUS
  <2>1. j \in Nat /\ j + 1 \in EventsAt(q)
    BY EventsAtTail
  <2>2. PICK i \in DOMAIN place : place[i] = j + 1
    BY <1>2, <2>1 DEF Matches
  <2> QED
    BY <1>5, <1>6, <2>1, <2>2
<1>9. \A i \in DOMAIN moved : a[i] = Tail(q)[moved[i]].n
  <2> SUFFICES ASSUME NEW i \in DOMAIN moved PROVE a[i] = Tail(q)[moved[i]].n
    OBVIOUS
  <2>1. moved[i] = place[i] - 1 /\ Tail(q)[place[i] - 1] = q[place[i]]
    BY <1>3, <1>5, <1>6
  <2>2. a[i] = q[place[i]].n
    BY <1>2, <1>5 DEF Matches
  <2> QED
    BY <2>1, <2>2
<1>10. Matches(a, h, Tail(q), read, moved)
  BY <1>2, <1>7, <1>8, <1>9 DEF Matches
<1> QED
  BY <1>1, <1>4, <1>10 DEF Gapless

(* The first message is an event and is handed over: it is the first of    *)
(* those that had arrived and were not yet handled.                        *)
LEMMA GaplessHand ==
  ASSUME NEW a, Len(a) \in Nat, NEW h \in Seq(1 .. MaxEvents),
         NEW q \in Seq(Message), q # << >>, Head(q).kind = "event",
         Gapless(a, h, q)
  PROVE  Gapless(a, Append(h, Head(q).n), Tail(q))
<1> DEFINE more == Append(h, Head(q).n)
<1>0. /\ Len(h) \in Nat /\ Len(more) = Len(h) + 1
      /\ \A i \in 1 .. Len(h) : more[i] = h[i]
      /\ more[Len(h) + 1] = Head(q).n
  <2>1. Head(q) \in Message
    OBVIOUS
  <2>2. Head(q).n \in 1 .. MaxEvents
    BY <2>1, EventNumbers
  <2> QED
    BY <2>2, AppendOf
<1> HIDE DEF more
<1>1. PICK read \in 0 .. Len(h) :
        /\ read <= Len(a)
        /\ \E place \in [read + 1 .. Len(a) -> EventsAt(q)] : Matches(a, h, q, read, place)
  BY DEF Gapless
<1>2. PICK place \in [read + 1 .. Len(a) -> EventsAt(q)] : Matches(a, h, q, read, place)
  BY <1>1
<1>3. DOMAIN place = read + 1 .. Len(a) /\ 1 \in EventsAt(q)
  BY EventsAtTail
<1>4. \A i \in read + 1 .. Len(a) : place[i] \in Nat \ {0}
  BY EventsAtTail
<1>5. read + 1 \in read + 1 .. Len(a) /\ place[read + 1] = 1
  <2>1. PICK i \in read + 1 .. Len(a) : place[i] = 1
    BY <1>2, <1>3 DEF Matches
  <2>2. read + 1 \in read + 1 .. Len(a) /\ (i = read + 1 \/ read + 1 < i)
    BY <1>1, <2>1
  <2>3. read + 1 < i => place[read + 1] < 1
    BY <1>2, <1>3, <2>1, <2>2 DEF Matches
  <2> QED
    BY <1>4, <2>1, <2>2, <2>3
<1>6. \A i \in read + 2 .. Len(a) :
        /\ i \in read + 1 .. Len(a) /\ place[i] \in Nat /\ place[i] # 1
        /\ place[i] - 1 \in EventsAt(Tail(q)) /\ Tail(q)[place[i] - 1] = q[place[i]]
  <2> SUFFICES ASSUME NEW i \in read + 2 .. Len(a)
               PROVE  /\ i \in read + 1 .. Len(a) /\ place[i] \in Nat /\ place[i] # 1
                      /\ place[i] - 1 \in EventsAt(Tail(q)) /\ Tail(q)[place[i] - 1] = q[place[i]]
    OBVIOUS
  <2>1. i \in read + 1 .. Len(a) /\ read + 1 < i
    BY <1>1
  <2>2. place[read + 1] < place[i]
    BY <1>2, <1>3, <1>5, <2>1 DEF Matches
  <2>3. place[i] \in Nat /\ place[i] # 1 /\ place[i] \in EventsAt(q)
    BY <1>4, <1>5, <2>1, <2>2
  <2> QED
    BY <2>1, <2>3, EventsAtTail
<1> DEFINE moved == [i \in read + 2 .. Len(a) |-> place[i] - 1]
<1>7. /\ moved \in [read + 2 .. Len(a) -> EventsAt(Tail(q))]
      /\ DOMAIN moved = read + 2 .. Len(a)
      /\ \A i \in DOMAIN moved : moved[i] = place[i] - 1
  BY <1>6
<1> HIDE DEF moved
<1>8. \A i, k \in DOMAIN moved : i < k => moved[i] < moved[k]
  BY <1>2, <1>3, <1>6, <1>7 DEF Matches
<1>9. \A j \in EventsAt(Tail(q)) : \E i \in DOMAIN moved : moved[i] = j
  <2> SUFFICES ASSUME NEW j \in EventsAt(Tail(q))
               PROVE  \E i \in DOMAIN moved : moved[i] = j
    OBVIOUS
  <2>1. j \in Nat \ {0} /\ j + 1 \in EventsAt(q)
    BY EventsAtTail
  <2>2. PICK i \in read + 1 .. Len(a) : place[i] = j + 1
    BY <1>2, <1>3, <2>1 DEF Matches
  <2>3. i # read + 1
    BY <1>5, <2>1, <2>2
  <2>4. i \in read + 2 .. Len(a)
    BY <1>1, <2>2, <2>3
  <2> QED
    BY <1>7, <2>1, <2>2, <2>4
<1>10. \A i \in 1 .. read + 1 : a[i] = more[Len(more) - (read + 1) + i]
  <2> SUFFICES ASSUME NEW i \in 1 .. read + 1
               PROVE  a[i] = more[Len(more) - (read + 1) + i]
    OBVIOUS
  <2>1. Len(more) - (read + 1) + i = Len(h) - read + i
    BY <1>0, <1>1
  <2>2. CASE i = read + 1
    <3>1. Len(h) - read + i = Len(h) + 1
      BY <1>0, <1>1, <2>2
    <3>2. a[i] = Head(q).n
      BY <1>2, <1>3, <1>5, <2>2, EventsAtTail DEF Matches
    <3> QED
      BY <1>0, <2>1, <3>1, <3>2
  <2>3. CASE i # read + 1
    <3>1. i \in 1 .. read /\ Len(h) - read + i \in 1 .. Len(h)
      BY <1>0, <1>1, <2>3
    <3> QED
      BY <1>0, <1>2, <2>1, <3>1 DEF Matches
  <2> QED
    BY <2>2, <2>3
<1>11. \A i \in DOMAIN moved : a[i] = Tail(q)[moved[i]].n
  <2> SUFFICES ASSUME NEW i \in DOMAIN moved PROVE a[i] = Tail(q)[moved[i]].n
    OBVIOUS
  <2>1. /\ i \in DOMAIN place /\ moved[i] = place[i] - 1
        /\ Tail(q)[place[i] - 1] = q[place[i]]
    BY <1>3, <1>6, <1>7
  <2>2. a[i] = q[place[i]].n
    BY <1>2, <2>1 DEF Matches
  <2> QED
    BY <2>1, <2>2
<1>12. Matches(a, more, Tail(q), read + 1, moved)
  BY <1>8, <1>9, <1>10, <1>11 DEF Matches
<1>13. read + 1 \in 0 .. Len(more) /\ read + 1 <= Len(a) /\ (read + 1) + 1 = read + 2
  BY <1>0, <1>1, <1>5
<1> QED
  BY <1>7, <1>12, <1>13 DEF Gapless, more

(* An event arrives behind the others.                                     *)
LEMMA GaplessArrive ==
  ASSUME NEW a \in Seq(1 .. MaxEvents), NEW h, Len(h) \in Nat, NEW q \in Seq(Message),
         NEW e \in 1 .. MaxEvents, Gapless(a, h, q)
  PROVE  Gapless(Append(a, e), h, Append(q, Event(e)))
<1> DEFINE b == Append(a, e)
           r == Append(q, Event(e))
<1>1. Event(e) \in Message /\ Event(e).kind = "event" /\ Event(e).n = e
  BY MessagesAreMessages DEF Event
<1>2. /\ Len(a) \in Nat /\ Len(b) = Len(a) + 1
      /\ \A i \in 1 .. Len(a) : b[i] = a[i]
      /\ b[Len(a) + 1] = e
  BY AppendOf
<1>3. /\ Len(q) \in Nat /\ DOMAIN q = 1 .. Len(q)
      /\ r \in Seq(Message) /\ DOMAIN r = 1 .. Len(q) + 1
      /\ \A i \in 1 .. Len(q) : r[i] = q[i]
      /\ r[Len(q) + 1] = Event(e)
  BY <1>1, AppendOf
<1> HIDE DEF b, r
<1>4. /\ \A j \in EventsAt(q) : j \in 1 .. Len(q) /\ j \in EventsAt(r) /\ r[j] = q[j]
      /\ Len(q) + 1 \in EventsAt(r)
      /\ \A j \in EventsAt(r) : j = Len(q) + 1 \/ j \in EventsAt(q)
  <2>1. \A j \in 1 .. Len(q) + 1 : j = Len(q) + 1 \/ j \in 1 .. Len(q)
    BY <1>3
  <2>2. Len(q) + 1 \in 1 .. Len(q) + 1 /\ \A j \in 1 .. Len(q) : j \in 1 .. Len(q) + 1
    BY <1>3
  <2> QED
    BY <1>1, <1>3, <2>1, <2>2 DEF EventsAt
<1>5. PICK read \in 0 .. Len(h) :
        /\ read <= Len(a)
        /\ \E place \in [read + 1 .. Len(a) -> EventsAt(q)] : Matches(a, h, q, read, place)
  BY DEF Gapless
<1>6. PICK place \in [read + 1 .. Len(a) -> EventsAt(q)] : Matches(a, h, q, read, place)
  BY <1>5
<1> DEFINE last == Len(a) + 1
           wider == [i \in read + 1 .. Len(b) |-> IF i = last THEN Len(q) + 1 ELSE place[i]]
<1>7. /\ read + 1 .. Len(b) = (read + 1 .. Len(a)) \cup {last}
      /\ last \notin read + 1 .. Len(a) /\ last \in Nat
      /\ \A i \in read + 1 .. Len(a) : i < last /\ i \in Nat /\ i \in 1 .. Len(a)
      /\ \A i \in 1 .. read : i \in 1 .. Len(a)
  BY <1>2, <1>5
<1>8. /\ DOMAIN place = read + 1 .. Len(a)
      /\ DOMAIN wider = read + 1 .. Len(b)
      /\ wider[last] = Len(q) + 1
      /\ \A i \in DOMAIN place : wider[i] = place[i]
      /\ wider \in [read + 1 .. Len(b) -> EventsAt(r)]
  BY <1>4, <1>7
<1>9. \A i \in DOMAIN place : place[i] \in 1 .. Len(q) /\ place[i] \in EventsAt(q)
  BY <1>4
<1> HIDE DEF wider
<1>10. \A i \in 1 .. read : b[i] = h[Len(h) - read + i]
  BY <1>2, <1>6, <1>7 DEF Matches
<1>11. \A i \in DOMAIN wider : b[i] = r[wider[i]].n
  <2> SUFFICES ASSUME NEW i \in DOMAIN wider PROVE b[i] = r[wider[i]].n
    OBVIOUS
  <2>1. CASE i = last
    BY <1>1, <1>2, <1>3, <1>8, <2>1
  <2>2. CASE i \in DOMAIN place
    <3>1. a[i] = q[place[i]].n /\ b[i] = a[i] /\ wider[i] = place[i]
      BY <1>2, <1>6, <1>7, <1>8, <2>2 DEF Matches
    <3> QED
      BY <1>4, <1>9, <2>2, <3>1
  <2> QED
    BY <1>7, <1>8, <2>1, <2>2
<1>12. \A i, k \in DOMAIN wider : i < k => wider[i] < wider[k]
  <2> SUFFICES ASSUME NEW i \in DOMAIN wider, NEW k \in DOMAIN wider, i < k
               PROVE  wider[i] < wider[k]
    OBVIOUS
  <2>1. i \in DOMAIN place
    <3>1. k = last \/ k \in read + 1 .. Len(a)
      BY <1>7, <1>8
    <3>2. i \in Nat /\ k \in Nat /\ ~(last < k)
      BY <1>7, <1>8, <3>1
    <3> QED
      BY <1>7, <1>8, <3>2
  <2>2. CASE k = last
    BY <1>3, <1>8, <1>9, <2>1, <2>2
  <2>3. CASE k \in DOMAIN place
    BY <1>6, <1>8, <2>1, <2>3 DEF Matches
  <2> QED
    BY <1>7, <1>8, <2>2, <2>3
<1>13. \A j \in EventsAt(r) : \E i \in DOMAIN wider : wider[i] = j
  BY <1>4, <1>6, <1>7, <1>8 DEF Matches
<1>14. Matches(b, h, r, read, wider)
  BY <1>10, <1>11, <1>12, <1>13 DEF Matches
<1>15. read <= Len(b)
  BY <1>2, <1>5
<1> QED
  BY <1>5, <1>8, <1>14, <1>15 DEF Gapless, b, r

(* Nothing has arrived and nothing waits.                                  *)
LEMMA GaplessNothing ==
  ASSUME NEW h \in Seq(1 .. MaxEvents)
  PROVE  Gapless(<< >>, h, << >>)
<1> DEFINE nowhere == [i \in 0 + 1 .. 0 |-> 0]
<1>1. Len(<< >>) = 0 /\ 0 \in 0 .. Len(h) /\ EventsAt(<< >>) = {}
  BY DEF EventsAt
<1>2. 0 + 1 .. 0 = {}
  OBVIOUS
<1>3. DOMAIN nowhere = {} /\ nowhere \in [0 + 1 .. 0 -> {}]
  BY <1>2
<1>4. Matches(<< >>, h, << >>, 0, nowhere)
  BY <1>1, <1>3 DEF Matches
<1> HIDE DEF nowhere
<1>5. 0 <= 0 /\ 0 + 1 .. Len(<< >>) = 0 + 1 .. 0
  BY <1>1
<1> QED
  BY <1>1, <1>3, <1>4, <1>5 DEF Gapless

NoGap == Gapless(arrived, handled, queue)

LEMMA GapStep == TypeInv /\ NoGap /\ [Next]_vars => NoGap'
<1> SUFFICES ASSUME TypeInv, Gapless(arrived, handled, queue), [Next]_vars
             PROVE  Gapless(arrived', handled', queue')
  BY DEF NoGap
<1>1. /\ queue \in Seq(Message)
      /\ arrived \in Seq(1 .. MaxEvents) /\ Len(arrived) \in Nat
      /\ handled \in Seq(1 .. MaxEvents) /\ Len(handled) \in Nat
  BY DEF TypeInv, TypeOK
<1>2. CASE Still \/ Pass
  BY <1>2 DEF Still, Pass
<1>3. CASE Note
  BY <1>1, <1>3, GaplessNote DEF Note
<1>4. CASE Skip
  BY <1>1, <1>4, GaplessSkip DEF Skip
<1>5. CASE Abandon
  BY <1>1, <1>5, GaplessNothing DEF Abandon
<1>6. CASE Hand
  BY <1>1, <1>6, GaplessHand DEF Hand
<1>7. CASE Arrive
  BY <1>1, <1>7, GaplessArrive DEF Arrive
<1> QED
  BY <1>2, <1>3, <1>4, <1>5, <1>6, <1>7, StepOnEvents

(* On one connection no event is lost, repeated or overtaken: whatever     *)
(* timeouts and pauses come between, what arrived is what was handed to    *)
(* the callback followed by what still waits.                              *)
THEOREM NoGapOnAnyConnection == Spec => []NoGapOnConnection
<1>1. Init => NoGap
  <2>1. << >> \in Seq(1 .. MaxEvents)
    OBVIOUS
  <2> QED
    BY <2>1, GaplessNothing DEF Init, NoGap
<1>2. NoGap => NoGapOnConnection
  BY GaplessIsNoGap DEF NoGap
<1> QED
  BY <1>1, <1>2, InitTypes, TypeStep, GapStep, PTL DEF Spec

-------------------------------------------------------------------------------
(* The refinement.  The events on their way are those of the queue.        *)

LEMMA EventsOfAppend ==
  ASSUME NEW q \in Seq(Message), NEW m \in Message
  PROVE  /\ m.kind # "event" => EventsIn(Append(q, m)) = EventsIn(q)
         /\ m.kind = "event" => EventsIn(Append(q, m)) = EventsIn(q) \cup {m.n}
<1>1. /\ Append(q, m) \in Seq(Message) /\ Len(q) \in Nat
      /\ DOMAIN q = 1 .. Len(q)
      /\ DOMAIN Append(q, m) = 1 .. Len(q) + 1
      /\ \A i \in 1 .. Len(q) : Append(q, m)[i] = q[i]
      /\ Append(q, m)[Len(q) + 1] = m
  BY AppendOf
<1> QED
  BY <1>1 DEF EventsIn

LEMMA EventsOfTail ==
  ASSUME NEW q \in Seq(Message), q # << >>
  PROVE  /\ Head(q).kind # "event" => EventsIn(Tail(q)) = EventsIn(q)
         /\ Head(q).kind = "event" => EventsIn(q) = EventsIn(Tail(q)) \cup {Head(q).n}
<1>1. /\ Len(q) \in Nat \ {0} /\ Head(q) = q[1]
      /\ DOMAIN q = 1 .. Len(q)
      /\ DOMAIN Tail(q) = 1 .. Len(q) - 1
      /\ \A i \in 1 .. Len(q) - 1 : i + 1 \in 1 .. Len(q) /\ Tail(q)[i] = q[i + 1]
  BY TailOf
<1>2. \A i \in 1 .. Len(q) : i # 1 => i - 1 \in 1 .. Len(q) - 1 /\ Tail(q)[i - 1] = q[i]
  BY <1>1
<1>3. EventsIn(Tail(q)) \subseteq EventsIn(q)
  BY <1>1 DEF EventsIn
<1>4. \A n \in EventsIn(q) :
        n \in EventsIn(Tail(q)) \/ (Head(q).kind = "event" /\ n = Head(q).n)
  <2> SUFFICES ASSUME NEW i \in 1 .. Len(q), q[i].kind = "event", i # 1
               PROVE  q[i].n \in EventsIn(Tail(q))
    BY <1>1 DEF EventsIn
  <2> QED
    BY <1>1, <1>2 DEF EventsIn
<1>5. Head(q).kind = "event" => Head(q).n \in EventsIn(q)
  BY <1>1 DEF EventsIn
<1> QED
  BY <1>3, <1>4, <1>5

LEMMA StreamInit == Init => Stream!Init
  BY DEF Init, Stream!Init, EventsIn

LEMMA StreamStep == OrderInv /\ [Next]_vars => [Stream!Next]_Stream!vars
<1> SUFFICES ASSUME OrderInv, [Next]_vars PROVE [Stream!Next]_Stream!vars
  OBVIOUS
<1>0. TypeInv /\ queue \in Seq(Message)
  BY DEF OrderInv, TypeInv, TypeOK
<1>1. CASE Still
  BY <1>1 DEF Still, Stream!vars
<1>2. CASE Note
  BY <1>0, <1>2, EventsOfAppend DEF Note, Stream!vars
<1>3. CASE Skip
  BY <1>0, <1>3, EventsOfTail DEF Skip, Stream!vars
<1>4. CASE Abandon
  <2>1. EventsIn(<< >>) = {}
    BY DEF EventsIn
  <2> QED
    BY <1>4, <2>1 DEF Abandon, Stream!Next, Stream!GiveUp
<1>5. CASE Hand
  <2> DEFINE n == Head(queue).n
  <2>1. EventsIn(queue) = EventsIn(queue') \cup {n}
    BY <1>0, <1>5, EventsOfTail DEF Hand
  <2>2. /\ Len(queue') = Len(queue) - 1 /\ Len(queue) \in Nat \ {0} /\ n = queue[1].n
        /\ IsEvent(1) /\ DOMAIN queue = 1 .. Len(queue) /\ DOMAIN queue' = 1 .. Len(queue')
        /\ \A i \in 1 .. Len(queue') : i + 1 \in 1 .. Len(queue) /\ queue'[i] = queue[i + 1]
    BY <1>0, <1>5, TailOf DEF Hand, IsEvent
  <2>3. \A k \in EventsIn(queue') : n < k
    BY <2>2 DEF EventsIn, OrderInv, QueueInOrder, IsEvent
  <2>4. n \in Nat /\ \A k \in EventsIn(queue') : k \in Nat
    BY <1>0, <2>2, Numbers DEF EventsIn, IsEvent
  <2>5. /\ n \in EventsIn(queue) /\ \A k \in EventsIn(queue) : n <= k
        /\ EventsIn(queue') = EventsIn(queue) \ {n}
    BY <2>1, <2>3, <2>4
  <2> QED
    BY <1>5, <2>5 DEF Hand, Stream!Next, Stream!Deliver
<1>6. CASE Arrive
  <2>1. /\ Event(emitted') \in Message
        /\ Event(emitted').kind = "event" /\ Event(emitted').n = emitted'
    BY <1>6, MessagesAreMessages DEF Arrive, Event
  <2>2. EventsIn(queue') = EventsIn(queue) \cup {emitted + 1}
    BY <1>0, <1>6, <2>1, EventsOfAppend DEF Arrive
  <2> QED
    BY <1>6, <2>2 DEF Arrive, Stream!Next, Stream!Publish
<1>7. CASE Pass
  BY <1>7 DEF Pass, Stream!Next, Stream!Miss
<1> QED
  BY <1>0, <1>1, <1>2, <1>3, <1>4, <1>5, <1>6, <1>7, StepOnEvents

(* The loop loses events in no other way than the abstract stream does:    *)
(* those emitted while it is not subscribed, and those that wait on a      *)
(* connection when it leaves it.                                           *)
THEOREM LoopImplementsStream == Spec => ImplementsEventStream
<1> QED
  BY StreamInit, StreamStep, InitOrder, OrderStep, PTL
     DEF Spec, ImplementsEventStream, Stream!Spec
===============================================================================
