----------------------------- MODULE EventStream -----------------------------
(***************************************************************************)
(* What the websocket loop (src/websocket.py, websocket_connect) promises  *)
(* to its callback, without connections, subscriptions, messages or        *)
(* timeouts: the events of the node, numbered as they are emitted, come    *)
(* one by one, the oldest of those on their way first.  Some are missed    *)
(* from the start, and all those on their way at some moment may be given  *)
(* up together; nothing else is lost.                                      *)
(***************************************************************************)
EXTENDS Naturals, Sequences

VARIABLES
  last,      \* the number of the last event
  pending,   \* events on their way
  delivered  \* events handed to the callback

vars == <<last, pending, delivered>>

Init ==
  /\ last = 0
  /\ pending = {}
  /\ delivered = << >>

Publish ==
  /\ last' = last + 1
  /\ pending' = pending \cup {last + 1}
  /\ UNCHANGED delivered

Miss ==
  /\ last' = last + 1
  /\ UNCHANGED <<pending, delivered>>

Deliver ==
  /\ \E n \in pending :
       /\ \A k \in pending : n <= k
       /\ delivered' = Append(delivered, n)
       /\ pending' = pending \ {n}
  /\ UNCHANGED last

GiveUp ==
  /\ pending' = {}
  /\ UNCHANGED <<last, delivered>>

Next == Publish \/ Miss \/ Deliver \/ GiveUp

Spec == Init /\ [][Next]_vars
===============================================================================
