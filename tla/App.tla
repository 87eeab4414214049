--------------------------------- MODULE App ---------------------------------
(***************************************************************************)
(* The application (src/main.py): the parent checks the RPC, starts the    *)
(* websocket monitor and the poller as two processes and joins them; on    *)
(* Ctrl-C it terminates them.  A child turns SIGINT into KeyboardInterrupt *)
(* and unwinds.                                                            *)
(*                                                                         *)
(* A signal is pending until its process handles it.  Ctrl-C signals every *)
(* process of the terminal's group, `kill -INT' the parent alone.  Of      *)
(* Python it is assumed that Process.start forks the child, which starts   *)
(* with no signal pending, and then registers it; that the interpreter     *)
(* joins the registered children before it exits, unless it is interrupted *)
(* again; and that SIGTERM kills.                                          *)
(***************************************************************************)
EXTENDS Naturals

CONSTANTS
  MaxCtrlC,  \* bound: how often Ctrl-C is pressed
  MaxInt     \* bound: how often the parent alone gets SIGINT

ASSUME SignalsAssumption == MaxCtrlC \in Nat /\ MaxInt \in Nat

Child == {"ws", "fetch"}

VARIABLES
  parent,     \* where the parent is
  child,      \* where each child is
  registered, \* the children multiprocessing knows of
  sigint,     \* processes with a SIGINT pending
  sigterm,    \* children with a SIGTERM pending
  ctrl_c,     \* number of Ctrl-C
  ints        \* number of other SIGINTs

signals == <<sigint, sigterm, ctrl_c, ints>>
vars == <<parent, child, registered, signals>>

(* start_app: between "start" and "register" a child has been forked;      *)
(* "terminate" and "rejoin" are its except branch, "at exit" is the        *)
(* interpreter's own join.                                                 *)
Starting == {"start ws", "register ws", "start fetch", "register fetch"}
Parent == Starting \cup
          { "checking", "join ws", "join fetch", "terminate ws", "terminate fetch", "rejoin ws", "rejoin fetch",
            "at exit", "ended" }

InTry == {"join ws", "join fetch"}
InExcept == {"terminate ws", "terminate fetch", "rejoin ws", "rejoin fetch"}

Alive(c) == child[c] \in {"booting", "running", "unwinding"}

Init ==
  /\ parent = "checking"
  /\ child = [c \in Child |-> "none"]
  /\ registered = {}
  /\ sigint = {}
  /\ sigterm = {}
  /\ ctrl_c = 0
  /\ ints = 0

-------------------------------------------------------------------------------
(* The parent.                                                             *)

ParentGoes(from, to) == parent = from /\ parent' = to

(* Without an answer of the node the program exits before it starts a child. *)
CheckRpc ==
  /\ ParentGoes("checking", "start ws") \/ ParentGoes("checking", "ended")
  /\ UNCHANGED <<child, registered, signals>>

(* Process.start, first os.fork and then _children.add.                    *)
ForkChild(c, from, to) ==
  /\ ParentGoes(from, to)
  /\ child' = [child EXCEPT ![c] = "booting"]
  /\ UNCHANGED <<registered, signals>>

RegisterChild(c, from, to) ==
  /\ ParentGoes(from, to)
  /\ registered' = registered \cup {c}
  /\ UNCHANGED <<child, signals>>

StartChild(c, from, between, to) ==
  ForkChild(c, from, between) \/ RegisterChild(c, between, to)

JoinChild(c, from, to) ==
  /\ ParentGoes(from, to)
  /\ child[c] = "ended"
  /\ UNCHANGED <<child, registered, signals>>

(* Mutant of TerminateChild: the signal goes to the whole group.           *)
TerminateChildGroup(c, from, to) ==
  /\ ParentGoes(from, to)
  /\ sigterm' = sigterm \cup {c, "parent"}
  /\ UNCHANGED <<child, registered, sigint, ctrl_c, ints>>

TerminateChild(c, from, to) ==
  /\ ParentGoes(from, to)
  /\ sigterm' = IF Alive(c) THEN sigterm \cup {c} ELSE sigterm
  /\ UNCHANGED <<child, registered, sigint, ctrl_c, ints>>

(* Mutant of start_app: the second child is not terminated.                *)
start_app_terminates_one ==
  \/ StartChild("ws", "start ws", "register ws", "start fetch")
  \/ StartChild("fetch", "start fetch", "register fetch", "join ws")
  \/ JoinChild("ws", "join ws", "join fetch")
  \/ JoinChild("fetch", "join fetch", "at exit")
  \/ TerminateChild("ws", "terminate ws", "rejoin ws")
  \/ JoinChild("ws", "rejoin ws", "rejoin fetch")
  \/ JoinChild("fetch", "rejoin fetch", "at exit")

start_app ==
  \/ StartChild("ws", "start ws", "register ws", "start fetch")
  \/ StartChild("fetch", "start fetch", "register fetch", "join ws")
  \/ JoinChild("ws", "join ws", "join fetch")
  \/ JoinChild("fetch", "join fetch", "at exit")
  \/ TerminateChild("ws", "terminate ws", "terminate fetch")
  \/ TerminateChild("fetch", "terminate fetch", "rejoin ws")
  \/ JoinChild("ws", "rejoin ws", "rejoin fetch")
  \/ JoinChild("fetch", "rejoin fetch", "at exit")

(* multiprocessing's exit function joins the children it knows of.         *)
AtExit ==
  /\ ParentGoes("at exit", "ended")
  /\ \A c \in registered : child[c] = "ended"
  /\ UNCHANGED <<child, registered, signals>>

(* Only the joins stand in the try: elsewhere the interrupt ends start_app. *)
InterruptParent ==
  /\ "parent" \in sigint
  /\ sigint' = sigint \ {"parent"}
  /\ \/ parent \in InTry /\ parent' = "terminate ws"
     \/ parent \in InExcept \cup Starting /\ parent' = "at exit"
     \/ parent \in {"checking", "at exit"} /\ parent' = "ended"
  /\ UNCHANGED <<child, registered, sigterm, ctrl_c, ints>>

-------------------------------------------------------------------------------
(* A child: run_in_process.                                                *)

ChildGoes(c, from, to) == child[c] = from /\ child' = [child EXCEPT ![c] = to]

(* From here on signal_handler is installed.                               *)
Boot(c) ==
  /\ ChildGoes(c, "booting", "running")
  /\ UNCHANGED <<parent, registered, signals>>

(* Without validators a child exits; nothing else ends it by itself.       *)
ExitChild(c) ==
  /\ ChildGoes(c, "running", "ended")
  /\ UNCHANGED <<parent, registered, signals>>

(* Mutant of InterruptChild: the handler logs and does not raise.          *)
InterruptChildLogged(c) ==
  /\ c \in sigint
  /\ child[c] = "running"
  /\ sigint' = sigint \ {c}
  /\ UNCHANGED <<parent, child, registered, sigterm, ctrl_c, ints>>

(* signal_handler; before it is installed SIGINT ends the process, and     *)
(* during the cleanup it cuts it short or is caught like the first one.    *)
InterruptChild(c) ==
  /\ c \in sigint
  /\ sigint' = sigint \ {c}
  /\ \/ ChildGoes(c, "booting", "ended")
     \/ ChildGoes(c, "running", "unwinding")
     \/ ChildGoes(c, "unwinding", "unwinding")
     \/ ChildGoes(c, "unwinding", "ended")
  /\ UNCHANGED <<parent, registered, sigterm, ctrl_c, ints>>

(* The tasks are cancelled, connections closed, the except branches run.   *)
Unwind(c) ==
  /\ ChildGoes(c, "unwinding", "ended")
  /\ UNCHANGED <<parent, registered, signals>>

DieTerminated(c) ==
  /\ c \in sigterm
  /\ Alive(c)
  /\ child' = [child EXCEPT ![c] = "ended"]
  /\ UNCHANGED <<parent, registered, signals>>

-------------------------------------------------------------------------------
(* The user.                                                               *)

CtrlC ==
  /\ parent # "ended"
  /\ ctrl_c < MaxCtrlC
  /\ ctrl_c' = ctrl_c + 1
  /\ sigint' = sigint \cup {"parent"} \cup { c \in Child : Alive(c) }
  /\ UNCHANGED <<parent, child, registered, sigterm, ints>>

IntParent ==
  /\ parent # "ended"
  /\ ints < MaxInt
  /\ ints' = ints + 1
  /\ sigint' = sigint \cup {"parent"}
  /\ UNCHANGED <<parent, child, registered, sigterm, ctrl_c>>

-------------------------------------------------------------------------------

ParentStep == start_app \/ AtExit \/ InterruptParent
ChildStep(c) == Boot(c) \/ InterruptChild(c) \/ Unwind(c) \/ DieTerminated(c)

Next ==
  \/ CheckRpc
  \/ ParentStep
  \/ \E c \in Child : ChildStep(c) \/ ExitChild(c)
  \/ CtrlC
  \/ IntParent

Spec == Init /\ [][Next]_vars

(* Processes run, signals are delivered, a cleanup ends: closing the       *)
(* websocket and the HTTP sessions is cut off by their timeouts.           *)
FairSpec == Spec /\ WF_vars(ParentStep) /\ \A c \in Child : WF_vars(ChildStep(c))

-------------------------------------------------------------------------------
(* Properties.                                                             *)

TypeOK ==
  /\ parent \in Parent
  /\ child \in [Child -> {"none", "booting", "running", "unwinding", "ended"}]
  /\ registered \subseteq Child
  /\ sigint \subseteq {"parent"} \cup Child
  /\ sigterm \subseteq Child
  /\ ctrl_c \in 0 .. MaxCtrlC
  /\ ints \in 0 .. MaxInt

(* A child that goes on: neither at its end nor with a signal pending.     *)
GoesOn == { c \in Child : Alive(c) /\ child[c] # "unwinding" /\ c \notin sigint \cup sigterm }

(* However often Ctrl-C is pressed, while the children are started, joined *)
(* or terminated: when the parent has gone, no child that was registered   *)
(* is left to go on.  One child at most is, the one whose Process.start    *)
(* was interrupted between its fork and its registration by a Ctrl-C from  *)
(* before the fork, of which the child does not know.                      *)
NoRegisteredChildForgotten ==
  parent = "ended" /\ ints = 0 =>
    /\ GoesOn \cap registered = {}
    /\ \A c, d \in GoesOn : c = d

(* Once the parent joins, Ctrl-C, however often it is repeated, ends the   *)
(* program, and so does one SIGINT of which the children do not know.  The *)
(* two together may not: a second signal of the parent alone can cut the   *)
(* except branch short, and a child forked while Ctrl-C was pending has    *)
(* not seen it.                                                            *)
Mixed == ctrl_c > 0 /\ ints > 0

InterruptEnds ==
  (parent \in InTry /\ "parent" \in sigint) ~>
    Mixed \/ (parent = "ended" /\ \A c \in Child : child[c] = "ended")

(* README.md: the script fetches the consensus state "non-stop": while the *)
(* program runs and nobody interrupts it, the poller does not end.         *)
FetchesNonStop == parent \in InTry /\ ctrl_c + ints = 0 => child["fetch"] # "ended"
===============================================================================
