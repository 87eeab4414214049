------------------------------ MODULE AppProofs ------------------------------
(* Theorems about App (src/main.py), for any number of signals.            *)
EXTENDS App, TLAPS

(* No registered child goes on without a signal.                           *)
Settled == GoesOn \cap registered = {}

(* What has been forked and registered at each line of Process.start.  The *)
(* second child is not forked before the first is registered.              *)
StartedInOrder ==
  /\ parent \in {"checking", "start ws"} => \A c \in Child : child[c] = "none"
  /\ child["fetch"] # "none" => "ws" \in registered
  /\ parent \in {"register ws", "start fetch"} => child["fetch"] = "none"
  /\ parent \in {"start fetch", "register fetch"} => "ws" \in registered

(* The joins and the except branch have all the children; the first join   *)
(* has let the parent pass only without its child.                         *)
AllJoined ==
  /\ parent \in InTry \cup InExcept => registered = Child
  /\ parent = "join fetch" => child["ws"] = "ended"

(* A second Ctrl-C that can cut the parent's end short has reached all the *)
(* children there are, and no more are started.                            *)
SecondInterruptSettles ==
  ints = 0 /\ "parent" \in sigint /\ parent \in InExcept \cup {"at exit"} => Settled

(* The parent has gone without a child it knew of going on.                *)
GoneSettled == parent = "ended" /\ ints = 0 => Settled

IInv ==
  /\ TypeOK
  /\ StartedInOrder
  /\ AllJoined
  /\ SecondInterruptSettles
  /\ GoneSettled

LEMMA InitIInv == Init => IInv
  BY SignalsAssumption DEF Init, IInv, TypeOK, StartedInOrder, AllJoined, SecondInterruptSettles,
         GoneSettled, Parent, Starting, Child, InTry, InExcept, Settled, GoesOn, Alive

-------------------------------------------------------------------------------
(* Every step keeps IInv.                                                  *)

LEMMA TypeStep == TypeOK /\ [Next]_vars => TypeOK'
<1> SUFFICES ASSUME TypeOK, [Next]_vars PROVE TypeOK'
  OBVIOUS
<1> USE DEF TypeOK, signals
<1>1. CASE CheckRpc
  BY <1>1 DEF CheckRpc, ParentGoes, Parent, Starting
<1>2. CASE start_app
  BY <1>2 DEF start_app, StartChild, ForkChild, RegisterChild, JoinChild, TerminateChild,
              ParentGoes, Parent, Starting, Child
<1>3. CASE AtExit
  BY <1>3 DEF AtExit, ParentGoes, Parent
<1>4. CASE InterruptParent
  BY <1>4 DEF InterruptParent, InTry, InExcept, Parent, Starting
<1>5. ASSUME NEW c \in Child, ChildStep(c) \/ ExitChild(c)
      PROVE  TypeOK'
  <2>1. CASE Boot(c) \/ Unwind(c) \/ ExitChild(c)
    BY <2>1 DEF Boot, Unwind, ExitChild, ChildGoes
  <2>2. CASE InterruptChild(c)
    BY <2>2 DEF InterruptChild, ChildGoes
  <2>3. CASE DieTerminated(c)
    BY <2>3 DEF DieTerminated
  <2> QED
    BY <1>5, <2>1, <2>2, <2>3 DEF ChildStep
<1>6. CASE CtrlC
  <2>1. sigint' \subseteq {"parent"} \cup Child
    BY <1>6 DEF CtrlC
  <2>2. ctrl_c' \in 0 .. MaxCtrlC
    BY <1>6, SignalsAssumption DEF CtrlC
  <2> QED
    BY <1>6, <2>1, <2>2 DEF CtrlC
<1>7. CASE IntParent
  BY <1>7, SignalsAssumption DEF IntParent
<1>8. CASE UNCHANGED vars
  BY <1>8 DEF vars
<1> QED
  BY <1>1, <1>2, <1>3, <1>4, <1>5, <1>6, <1>7, <1>8 DEF Next, ParentStep

LEMMA MoreThanNone == \A n \in 0 .. MaxInt : n + 1 # 0
  BY SignalsAssumption

(* A child's own step does not unsettle it, nor the other one.             *)
LEMMA ChildStepSettles ==
  ASSUME TypeOK, Settled, NEW c \in Child, ChildStep(c) \/ ExitChild(c)
  PROVE  Settled'
  BY DEF TypeOK, Settled, GoesOn, Alive, ChildStep, Boot, InterruptChild, Unwind, DieTerminated,
         ExitChild, ChildGoes, signals

LEMMA Step == IInv /\ [Next]_vars => IInv'
<1> SUFFICES ASSUME IInv, [Next]_vars PROVE IInv'
  OBVIOUS
<1>0. TypeOK'
  BY TypeStep DEF IInv
<1> USE <1>0 DEF IInv
<1> USE DEF TypeOK, StartedInOrder, AllJoined, SecondInterruptSettles, GoneSettled, Settled, GoesOn, Alive
<1>1. CASE CheckRpc
  BY <1>1 DEF CheckRpc, ParentGoes, signals, InTry, InExcept
<1>2. CASE start_app
  BY <1>2 DEF start_app, StartChild, ForkChild, RegisterChild, JoinChild, TerminateChild,
              ParentGoes, signals, InTry, InExcept, Child
<1>3. CASE AtExit
  BY <1>3 DEF AtExit, ParentGoes, signals, InTry, InExcept
<1>4. CASE InterruptParent
  BY <1>4 DEF InterruptParent, InTry, InExcept, Starting, Child
<1>5. ASSUME NEW c \in Child, ChildStep(c) \/ ExitChild(c)
      PROVE  IInv'
  <2>1. /\ UNCHANGED <<parent, registered, ints>>
        /\ "parent" \in sigint' => "parent" \in sigint
    BY <1>5 DEF ChildStep, Boot, InterruptChild, Unwind, DieTerminated, ExitChild, signals
  <2>2. /\ child[c] \notin {"none", "ended"}
        /\ child' = [child EXCEPT ![c] = child'[c]]
    BY <1>5 DEF ChildStep, Boot, InterruptChild, Unwind, DieTerminated, ExitChild, ChildGoes
  <2>3. Settled => Settled'
    BY <1>5, ChildStepSettles
  <2> QED
    BY <2>1, <2>2, <2>3 DEF Child
<1>6. CASE CtrlC
  BY <1>6 DEF CtrlC, Child
<1>7. CASE IntParent
  <2>1. ints' # 0
    BY <1>7, MoreThanNone DEF IntParent
  <2> QED
    BY <1>7, <2>1 DEF IntParent
<1>8. CASE UNCHANGED vars
  BY <1>8 DEF vars, signals
<1> QED
  BY <1>1, <1>2, <1>3, <1>4, <1>5, <1>6, <1>7, <1>8 DEF Next, ParentStep

-------------------------------------------------------------------------------

(* The variables of App have their types.                                  *)
THEOREM AppTypeCorrect == Spec => []TypeOK
<1>1. Init => TypeOK
  BY InitIInv DEF IInv
<1> QED
  BY <1>1, TypeStep, PTL DEF Spec

(* When the parent has gone, no child it had registered is left to go on,  *)
(* however often and whenever Ctrl-C was pressed; of the others, forked    *)
(* and not registered, there is one at most.                               *)
THEOREM RegisteredChildrenEnd == Spec => []NoRegisteredChildForgotten
<1>1. IInv => NoRegisteredChildForgotten
  <2> SUFFICES ASSUME IInv, parent = "ended", ints = 0
               PROVE  \A c, d \in GoesOn : c = d
    BY DEF IInv, GoneSettled, Settled, NoRegisteredChildForgotten
  <2>1. GoesOn \cap registered = {}
    BY DEF IInv, GoneSettled, Settled
  <2>2. "fetch" \in GoesOn => "ws" \notin GoesOn
    BY <2>1 DEF IInv, StartedInOrder, GoesOn, Alive, Child
  <2> QED
    BY <2>2 DEF GoesOn, Child
<1> QED
  BY <1>1, InitIInv, Step, PTL DEF Spec
===============================================================================
