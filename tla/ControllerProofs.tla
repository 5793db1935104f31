-------------------------- MODULE ControllerProofs --------------------------
(***************************************************************************)
(* Proofs about the controller, for every set of requests and of           *)
(* subprocesses: types, that a dav-owner is lost only when its slot is     *)
(* overwritten, that no subprocess is stopped twice or left half stopped,  *)
(* and that the mount supervisor of a session that is over does not start  *)
(* another round.                                                          *)
(***************************************************************************)
EXTENDS Controller, Naturals, TLAPS

Starting(r) == pc[r] \in {"addSlot", "setConnect"}
Handled(c) == Slotted(c) \/ c = connect \/ InHand(c)

\* What a request holds at each point of its handler.
HandlerInv ==
  \A r \in Request :
    /\ pc[r] = "addSlot" => sp[r] \in Owner
    /\ pc[r] = "setConnect" => sp[r] \in Client
    /\ pc[r] = "wait" => sp[r] \in todo[r]
    /\ pc[r] \notin {"addSlot", "setConnect", "wait"} => sp[r] = None
    /\ pc[r] \notin {"readMountPath", "unmount", "stop", "wait"} => todo[r] = {}

\* A subprocess nobody has launched is nowhere, one that is being started is in the
\* hands of its request alone, and none sits in two slots.
StartInv ==
  /\ \A c \in Child : proc[c] = "none" => ~Handled(c)
  /\ \A r \in Request : Starting(r) =>
       /\ ~Slotted(sp[r]) /\ sp[r] # connect
       /\ \A q \in Request : sp[r] \notin todo[q] /\ (q # r => sp[q] # sp[r])
  /\ \A a, b \in Room : slots[a] = slots[b] /\ slots[a] # None => a = b

\* Only a signal takes the command of a running subprocess away.
CommandInv == \A c \in Child : proc[c] = "running" /\ ~cmd[c] => signalled[c] # "none"

ControllerInv ==
  TypeOK /\ HandlerInv /\ StartInv /\ StoppedByOne /\ CommandInv

LEMMA InitController == Init => ControllerInv
  <1> SUFFICES ASSUME Init PROVE ControllerInv
    OBVIOUS
  <1> USE ChildAssumption DEF Init
  <1>1. TypeOK
    BY DEF TypeOK
  <1>2. HandlerInv /\ CommandInv
    BY DEF HandlerInv, CommandInv, Child
  <1>3. StartInv
    BY DEF StartInv, Handled, Slotted, InHand, Starting, Child
  <1>4. StoppedByOne
    BY DEF StoppedByOne, Child
  <1> QED BY <1>1, <1>2, <1>3, <1>4 DEF ControllerInv

LEMMA AddViewerStep ==
  ASSUME ControllerInv, NEW r \in Request, AddViewer(r)
  PROVE  ControllerInv'
  <1> USE ChildAssumption DEF ControllerInv, app, handlers, children, mounts, Go, Child, Slotted, AddViewer
  <1>1. TypeOK'
    BY DEF TypeOK
  <1>2. HandlerInv'
    BY DEF TypeOK, HandlerInv
  <1>3. StartInv'
    BY DEF TypeOK, HandlerInv, StartInv, Handled, InHand, Starting
  <1>4. StoppedByOne'
    BY DEF TypeOK, HandlerInv, StartInv, StoppedByOne, Handled, InHand, Starting
  <1>5. CommandInv'
    BY DEF TypeOK, CommandInv
  <1> QED BY <1>1, <1>2, <1>3, <1>4, <1>5

LEMMA StartConnectStep ==
  ASSUME ControllerInv, NEW r \in Request, StartConnect(r)
  PROVE  ControllerInv'
  <1> USE ChildAssumption DEF ControllerInv, app, handlers, children, mounts, Go, Child, Slotted, StartConnect
  <1>1. TypeOK'
    BY DEF TypeOK
  <1>2. HandlerInv'
    BY DEF TypeOK, HandlerInv
  <1>3. StartInv'
    BY DEF TypeOK, HandlerInv, StartInv, Handled, InHand, Starting
  <1>4. StoppedByOne'
    BY DEF TypeOK, HandlerInv, StartInv, StoppedByOne, Handled, InHand, Starting
  <1>5. CommandInv'
    BY DEF TypeOK, CommandInv
  <1> QED BY <1>1, <1>2, <1>3, <1>4, <1>5

LEMMA LaunchStep ==
  ASSUME ControllerInv, NEW r \in Request, Launch(r)
  PROVE  ControllerInv'
  <1> USE ChildAssumption DEF ControllerInv, app, handlers, children, mounts, Go, Child, Slotted, Launch
  <1>1. TypeOK'
    <2>1. CASE Go(r, "idle") /\ UNCHANGED <<sp, children>>
      BY <2>1 DEF TypeOK
    <2>2. ASSUME NEW c \in Child, proc[c] = "none", UNCHANGED <<app, todo, signalled, mounts>>,
                 proc' = [proc EXCEPT ![c] = "running"], cmd' = [cmd EXCEPT ![c] = TRUE],
                 sp' = [sp EXCEPT ![r] = c],
                 \/ pc' = [pc EXCEPT ![r] = "addSlot"]
                 \/ pc' = [pc EXCEPT ![r] = "setConnect"]
          PROVE  TypeOK'
      BY <2>2 DEF TypeOK
    <2> QED BY <2>1, <2>2
  <1>2. HandlerInv'
    BY DEF TypeOK, HandlerInv
  <1>3. StartInv'
    BY DEF TypeOK, HandlerInv, StartInv, Handled, InHand, Starting
  <1>4. StoppedByOne'
    BY DEF TypeOK, HandlerInv, StartInv, StoppedByOne, Handled, InHand, Starting
  <1>5. CommandInv'
    BY DEF TypeOK, CommandInv
  <1> QED BY <1>1, <1>2, <1>3, <1>4, <1>5

LEMMA AddSlotStep ==
  ASSUME ControllerInv, NEW r \in Request, AddSlot(r)
  PROVE  ControllerInv'
  <1> USE ChildAssumption DEF ControllerInv, app, handlers, children, mounts, Go, Child, Slotted, AddSlot
  <1>1. TypeOK'
    BY DEF TypeOK, HandlerInv
  <1>2. HandlerInv'
    BY DEF TypeOK, HandlerInv
  <1>3. StartInv'
    BY DEF TypeOK, HandlerInv, StartInv, Handled, InHand, Starting
  <1>4. StoppedByOne'
    BY DEF TypeOK, HandlerInv, StartInv, StoppedByOne, Handled, InHand, Starting
  <1>5. CommandInv'
    BY DEF TypeOK, CommandInv
  <1> QED BY <1>1, <1>2, <1>3, <1>4, <1>5

LEMMA SetConnectStep ==
  ASSUME ControllerInv, NEW r \in Request, SetConnect(r)
  PROVE  ControllerInv'
  <1> USE ChildAssumption DEF ControllerInv, app, handlers, children, mounts, Go, Child, Slotted, SetConnect
  <1>1. TypeOK'
    BY DEF TypeOK, HandlerInv
  <1>2. HandlerInv'
    BY DEF TypeOK, HandlerInv
  <1>3. StartInv'
    BY DEF TypeOK, HandlerInv, StartInv, Handled, InHand, Starting
  <1>4. StoppedByOne'
    BY DEF TypeOK, HandlerInv, StartInv, StoppedByOne, Handled, InHand, Starting
  <1>5. CommandInv'
    BY DEF TypeOK, CommandInv
  <1> QED BY <1>1, <1>2, <1>3, <1>4, <1>5

LEMMA RemoveViewerStep ==
  ASSUME ControllerInv, NEW r \in Request, RemoveViewer(r)
  PROVE  ControllerInv'
  <1> USE ChildAssumption DEF ControllerInv, app, handlers, children, mounts, Go, Child, Slotted, RemoveViewer
  <1>1. TypeOK'
    BY DEF TypeOK
  <1>2. HandlerInv'
    BY DEF TypeOK, HandlerInv
  <1>3. StartInv'
    BY DEF TypeOK, HandlerInv, StartInv, Handled, InHand, Starting
  <1>4. StoppedByOne'
    BY DEF TypeOK, HandlerInv, StartInv, StoppedByOne, Handled, InHand, Starting
  <1>5. CommandInv'
    BY DEF TypeOK, CommandInv
  <1> QED BY <1>1, <1>2, <1>3, <1>4, <1>5

LEMMA StopShareStep ==
  ASSUME ControllerInv, NEW r \in Request, StopShare(r)
  PROVE  ControllerInv'
  <1> USE ChildAssumption DEF ControllerInv, app, handlers, children, mounts, Go, Child, Slotted,
              StopNext, StopShare
  <1>1. TypeOK'
    BY DEF TypeOK
  <1>2. HandlerInv'
    BY DEF TypeOK, HandlerInv
  <1>3. StartInv'
    BY DEF TypeOK, HandlerInv, StartInv, Handled, InHand, Starting
  <1>4. StoppedByOne'
    BY DEF TypeOK, HandlerInv, StartInv, StoppedByOne, Handled, InHand, Starting
  <1>5. CommandInv'
    BY DEF TypeOK, CommandInv
  <1> QED BY <1>1, <1>2, <1>3, <1>4, <1>5

LEMMA StopConnectStep ==
  ASSUME ControllerInv, NEW r \in Request, StopConnect(r)
  PROVE  ControllerInv'
  <1> USE ChildAssumption DEF ControllerInv, app, handlers, children, mounts, Go, Child, Slotted, StopConnect
  <1>1. TypeOK'
    BY DEF TypeOK
  <1>2. HandlerInv'
    BY DEF TypeOK, HandlerInv
  <1>3. StartInv'
    BY DEF TypeOK, HandlerInv, StartInv, Handled, InHand, Starting
  <1>4. StoppedByOne'
    BY DEF TypeOK, HandlerInv, StartInv, StoppedByOne, Handled, InHand, Starting
  <1>5. CommandInv'
    BY DEF TypeOK, CommandInv
  <1> QED BY <1>1, <1>2, <1>3, <1>4, <1>5

LEMMA ReadMountPathStep ==
  ASSUME ControllerInv, NEW r \in Request, ReadMountPath(r)
  PROVE  ControllerInv'
  <1> USE ChildAssumption DEF ControllerInv, app, handlers, children, mounts, Go, Child, Slotted, ReadMountPath
  <1>1. TypeOK'
    BY DEF TypeOK
  <1>2. HandlerInv'
    BY DEF TypeOK, HandlerInv
  <1>3. StartInv'
    BY DEF TypeOK, HandlerInv, StartInv, Handled, InHand, Starting
  <1>4. StoppedByOne'
    BY DEF TypeOK, HandlerInv, StartInv, StoppedByOne, Handled, InHand, Starting
  <1>5. CommandInv'
    BY DEF TypeOK, CommandInv
  <1> QED BY <1>1, <1>2, <1>3, <1>4, <1>5

LEMMA UnmountStep ==
  ASSUME ControllerInv, NEW r \in Request, Unmount(r)
  PROVE  ControllerInv'
  <1> USE ChildAssumption DEF ControllerInv, app, handlers, children, mounts, Go, Child, Slotted, Unmount
  <1>1. TypeOK'
    BY DEF TypeOK
  <1>2. HandlerInv'
    BY DEF TypeOK, HandlerInv
  <1>3. StartInv'
    BY DEF TypeOK, HandlerInv, StartInv, Handled, InHand, Starting
  <1>4. StoppedByOne'
    BY DEF TypeOK, HandlerInv, StartInv, StoppedByOne, Handled, InHand, Starting
  <1>5. CommandInv'
    BY DEF TypeOK, CommandInv
  <1> QED BY <1>1, <1>2, <1>3, <1>4, <1>5

LEMMA TakeCmdStep ==
  ASSUME ControllerInv, NEW r \in Request, TakeCmd(r)
  PROVE  ControllerInv'
  <1> USE ChildAssumption DEF ControllerInv, app, handlers, children, mounts, Go, Child, Slotted,
              StopNext, TakeCmd
  <1>1. TypeOK'
    BY DEF TypeOK
  <1>2. HandlerInv'
    BY DEF TypeOK, HandlerInv
  <1>3. StartInv'
    BY DEF TypeOK, HandlerInv, StartInv, Handled, InHand, Starting
  <1>4. StoppedByOne'
    BY DEF TypeOK, HandlerInv, StartInv, StoppedByOne, Handled, InHand, Starting
  <1>5. CommandInv'
    BY DEF TypeOK, CommandInv
  <1> QED BY <1>1, <1>2, <1>3, <1>4, <1>5

LEMMA AwaitExitStep ==
  ASSUME ControllerInv, NEW r \in Request, AwaitExit(r)
  PROVE  ControllerInv'
  <1> USE ChildAssumption DEF ControllerInv, app, handlers, children, mounts, Go, Child, Slotted,
              StopNext, AwaitExit
  <1>1. TypeOK'
    BY DEF TypeOK
  <1>2. HandlerInv'
    BY DEF TypeOK, HandlerInv
  <1>3. StartInv'
    BY DEF TypeOK, HandlerInv, StartInv, Handled, InHand, Starting
  <1>4. StoppedByOne'
    BY DEF TypeOK, HandlerInv, StartInv, StoppedByOne, Handled, InHand, Starting
  <1>5. CommandInv'
    BY DEF TypeOK, CommandInv
  <1> QED BY <1>1, <1>2, <1>3, <1>4, <1>5

LEMMA ExitStep ==
  ASSUME ControllerInv, NEW c \in Child, Exit(c)
  PROVE  ControllerInv'
  <1> USE ChildAssumption DEF ControllerInv, app, handlers, children, mounts, Go, Child, Slotted, Exit
  <1>1. TypeOK'
    BY DEF TypeOK
  <1>2. HandlerInv'
    BY DEF TypeOK, HandlerInv
  <1>3. StartInv'
    BY DEF TypeOK, HandlerInv, StartInv, Handled, InHand, Starting
  <1>4. StoppedByOne'
    BY DEF TypeOK, HandlerInv, StartInv, StoppedByOne, Handled, InHand, Starting
  <1>5. CommandInv'
    BY DEF TypeOK, CommandInv
  <1> QED BY <1>1, <1>2, <1>3, <1>4, <1>5

LEMMA ReapStep ==
  ASSUME ControllerInv, NEW c \in Child, Reap(c)
  PROVE  ControllerInv'
  <1> USE ChildAssumption DEF ControllerInv, app, handlers, children, mounts, Go, Child, Slotted, Reap
  <1>1. TypeOK'
    BY DEF TypeOK
  <1>2. HandlerInv'
    BY DEF TypeOK, HandlerInv
  <1>3. StartInv'
    BY DEF TypeOK, HandlerInv, StartInv, Handled, InHand, Starting
  <1>4. StoppedByOne'
    BY DEF TypeOK, HandlerInv, StartInv, StoppedByOne, Handled, InHand, Starting
  <1>5. CommandInv'
    BY DEF TypeOK, CommandInv
  <1> QED BY <1>1, <1>2, <1>3, <1>4, <1>5

LEMMA SuperviseStep ==
  ASSUME ControllerInv, NEW c \in Client, Supervise(c) \/ SupGivesUp(c)
  PROVE  ControllerInv'
  <1> USE DEF ControllerInv, app, handlers, children, Supervise, SupLoop, SupGivesUp, SupWait,
              SupMount, SupRecord, SupSettle, Sup
  <1>1. TypeOK'
    <2>1. sup' \in [Client -> {"none", "loop", "wait", "mount", "record", "settle", "done"}]
      BY DEF TypeOK
    <2>2. mounted' \in [Client -> BOOLEAN] /\ recorded' \in [Client -> BOOLEAN]
      BY DEF TypeOK
    <2> QED BY <2>1, <2>2 DEF TypeOK
  <1>2. UNCHANGED <<app, handlers, children>>
    OBVIOUS
  <1> QED BY <1>1, <1>2 DEF HandlerInv, StartInv, Handled, Slotted, InHand, Starting,
                            StoppedByOne, CommandInv

LEMMA NextController == ControllerInv /\ [Next]_vars => ControllerInv'
  <1> SUFFICES ASSUME ControllerInv, [Next]_vars PROVE ControllerInv'
    OBVIOUS
  <1>1. CASE StartShare
    BY <1>1 DEF StartShare, ControllerInv, TypeOK, HandlerInv, StartInv, Handled, InHand,
                Slotted, Starting, StoppedByOne, CommandInv, handlers, children, mounts
  <1>2. ASSUME NEW r \in Request,
               \/ AddViewer(r) \/ StartConnect(r)
               \/ RemoveViewer(r) \/ StopShare(r) \/ StopConnect(r) \/ Unmount(r)
        PROVE  ControllerInv'
    BY <1>2, AddViewerStep, StartConnectStep, RemoveViewerStep, StopShareStep, StopConnectStep,
       UnmountStep
  <1>3. ASSUME NEW r \in Request, Handle(r) PROVE ControllerInv'
    BY <1>3, LaunchStep, AddSlotStep, SetConnectStep, ReadMountPathStep, TakeCmdStep,
       AwaitExitStep DEF Handle
  <1>4. ASSUME NEW c \in Child, Exit(c) \/ Reap(c) PROVE ControllerInv'
    BY <1>4, ExitStep, ReapStep
  <1>5. ASSUME NEW c \in Client, Supervise(c) \/ SupGivesUp(c) PROVE ControllerInv'
    BY <1>5, SuperviseStep
  <1>6. CASE UNCHANGED vars
    BY <1>6 DEF vars, app, handlers, children, mounts, ControllerInv, TypeOK, HandlerInv, StartInv,
                Handled, Slotted, InHand, Starting, StoppedByOne, CommandInv
  <1> QED BY <1>1, <1>2, <1>3, <1>4, <1>5, <1>6 DEF Next

LEMMA ControllerInvariant == Spec => []ControllerInv
  BY InitController, NextController, PTL DEF Spec

(* The state of the controller is well typed, whatever requests cross: a removal  *)
(* of an unknown room and a stop without a session have nothing to stop.          *)
THEOREM TypeCorrect == Spec => []TypeOK
  BY ControllerInvariant, PTL DEF ControllerInv

(* Two requests never stop the same subprocess: the one that takes it out of the    *)
(* state stops it.                                                                  *)
THEOREM StopCorrect == Spec => []StoppedByOne
  BY ControllerInvariant, PTL DEF ControllerInv

-----------------------------------------------------------------------------
(* No dav-owner is lost, unless another one takes its slot.                *)

Overwritten(c) == \E room \in Room : slots[room] = c /\ slots'[room] \in Owner \ {c}

LEMMA OwnersStep ==
  ASSUME ControllerInv, [Next]_vars, NEW c \in Owner, Live(c)', Live(c) => Tracked(c)
  PROVE  Tracked(c)' \/ Overwritten(c)
  <1> USE DEF app, handlers, children, mounts, Go
  <1>t. TypeOK /\ HandlerInv /\ CommandInv
    BY DEF ControllerInv
  <1>c. c \in Child /\ c # None
    BY ChildAssumption DEF Child
  <1>1. ASSUME NEW r \in Request, Launch(r) PROVE Tracked(c)'
    <2>1. UNCHANGED <<slots, todo>> /\ sp[r] = None
      BY <1>1, <1>t DEF Launch, HandlerInv
    <2>2. CASE Live(c) /\ UNCHANGED sp
      BY <2>1, <2>2 DEF Tracked, Slotted, InHand
    <2>3. CASE Live(c) /\ \E d \in Child : sp' = [sp EXCEPT ![r] = d]
      <3>1. \A q \in Request : sp[q] = c => sp'[q] = c
        BY <1>t, <1>c, <2>1, <2>3 DEF TypeOK
      <3> QED BY <2>1, <2>3, <3>1 DEF Tracked, Slotted, InHand
    <2>4. CASE ~Live(c)
      <3>1. sp'[r] = c
        BY <1>1, <1>t, <1>c, <2>4 DEF Launch, Live, TypeOK
      <3> QED BY <3>1 DEF Tracked, InHand
    <2> QED BY <1>1, <2>2, <2>3, <2>4 DEF Launch, Child
  <1>2. ASSUME UNCHANGED <<proc, signalled>> PROVE Tracked(c)
    BY <1>2 DEF Live
  <1>3. ASSUME NEW r \in Request, AddSlot(r) PROVE Tracked(c)' \/ Overwritten(c)
    <2>1. PICK room \in Room : slots' = [slots EXCEPT ![room] = sp[r]]
      BY <1>3 DEF AddSlot
    <2>2. sp[r] \in Owner /\ slots'[room] = sp[r] /\ UNCHANGED todo /\ Tracked(c)
      BY <1>2, <1>3, <1>t, <2>1 DEF AddSlot, HandlerInv, TypeOK
    <2>3. CASE sp[r] = c
      BY <2>2, <2>3 DEF Tracked, Slotted
    <2>4. CASE sp[r] # c
      <3>1. CASE InHand(c)
        BY <1>3, <1>t, <2>2, <2>4, <3>1 DEF AddSlot, TypeOK, Tracked, InHand
      <3>2. CASE Slotted(c)
        <4>1. PICK q \in Room : slots[q] = c
          BY <3>2 DEF Slotted
        <4>2. CASE q = room
          BY <2>2, <2>4, <4>1, <4>2 DEF Overwritten
        <4>3. CASE q # room
          BY <1>t, <2>1, <4>1, <4>3 DEF TypeOK, Tracked, Slotted
        <4> QED BY <4>2, <4>3
      <3> QED BY <2>2, <3>1, <3>2 DEF Tracked
    <2> QED BY <2>3, <2>4
  <1>4. ASSUME NEW r \in Request, SetConnect(r) PROVE Tracked(c)'
    <2>1. sp[r] # c /\ UNCHANGED <<slots, todo>> /\ Tracked(c)
      BY <1>2, <1>4, <1>t, ChildAssumption DEF SetConnect, HandlerInv
    <2>2. \A q \in Request : sp[q] = c => sp'[q] = c
      BY <1>4, <1>t, <2>1 DEF SetConnect, TypeOK
    <2> QED BY <2>1, <2>2 DEF Tracked, Slotted, InHand
  <1>5. ASSUME NEW r \in Request, RemoveViewer(r) \/ StopShare(r) \/ StopConnect(r)
        PROVE  Tracked(c)'
    <2>1. UNCHANGED sp /\ todo[r] = {} /\ Tracked(c)
      BY <1>2, <1>5, <1>t DEF RemoveViewer, StopShare, StopConnect, HandlerInv
    <2>2. CASE \E q \in Request : c = sp[q] \/ (q # r /\ c \in todo[q])
      BY <1>5, <1>t, <2>1, <2>2 DEF RemoveViewer, StopShare, StopConnect, TypeOK, Tracked, InHand
    <2>3. CASE Slotted(c)
      <3>1. CASE RemoveViewer(r)
        BY <1>t, <2>3, <3>1 DEF RemoveViewer, TypeOK, Tracked, Slotted, InHand
      <3>2. CASE StopShare(r)
        BY <1>t, <2>3, <3>2 DEF StopShare, TypeOK, Tracked, InHand
      <3>3. CASE StopConnect(r)
        BY <2>3, <3>3 DEF StopConnect, Tracked, Slotted
      <3> QED BY <1>5, <3>1, <3>2, <3>3
    <2> QED BY <2>1, <2>2, <2>3 DEF Tracked, InHand
  <1>6. ASSUME NEW r \in Request, TakeCmd(r) PROVE Tracked(c)'
    <2>1. PICK d \in todo[r] :
            IF cmd[d] THEN /\ signalled' = [signalled EXCEPT ![d] = "term"]
                           /\ sp' = [sp EXCEPT ![r] = d]
                           /\ UNCHANGED todo
                      ELSE /\ todo' = [todo EXCEPT ![r] = @ \ {d}]
                           /\ UNCHANGED <<signalled, sp>>
      BY <1>6 DEF TakeCmd
    <2>2. sp[r] = None /\ UNCHANGED <<slots, proc>>
      BY <1>6, <1>t DEF TakeCmd, HandlerInv
    <2>3. CASE cmd[d]
      <3>1. Live(c)
        BY <1>t, <1>c, <2>1, <2>2, <2>3 DEF Live, TypeOK
      <3>2. \A q \in Request : sp[q] = c => sp'[q] = c
        BY <1>t, <1>c, <2>1, <2>2, <2>3 DEF TypeOK
      <3> QED BY <2>1, <2>2, <2>3, <3>1, <3>2 DEF Tracked, Slotted, InHand
    <2>4. CASE ~cmd[d]
      <3>1. Live(c) /\ cmd[c]
        BY <1>t, <1>c, <2>1, <2>2, <2>4 DEF Live, CommandInv, TypeOK
      <3>2. c # d
        BY <2>4, <3>1
      <3>3. \A q \in Request : c \in todo[q] => c \in todo'[q]
        BY <1>t, <2>1, <2>4, <3>2 DEF TypeOK
      <3> QED BY <2>1, <2>2, <2>4, <3>1, <3>3 DEF Tracked, Slotted, InHand
    <2> QED BY <2>3, <2>4
  <1>7. ASSUME NEW r \in Request, AwaitExit(r) PROVE Tracked(c)'
    <2>1. sp[r] \in Child /\ UNCHANGED <<slots, proc>>
      BY <1>7, <1>t DEF AwaitExit, HandlerInv, TypeOK
    <2>2. Live(c) /\ c # sp[r]
      BY <1>7, <1>t, <1>c, <2>1 DEF AwaitExit, Live, TypeOK
    <2>3. \A q \in Request : /\ sp[q] = c => sp'[q] = c
                             /\ c \in todo[q] => c \in todo'[q]
      BY <1>7, <1>t, <2>2 DEF AwaitExit, TypeOK
    <2> QED BY <2>1, <2>2, <2>3 DEF Tracked, Slotted, InHand
  <1>8. ASSUME NEW d \in Child, Exit(d) \/ Reap(d) PROVE Tracked(c)'
    <2>1. Live(c) /\ UNCHANGED <<slots, sp, todo>>
      BY <1>8, <1>t, <1>c DEF Exit, Reap, Live, TypeOK
    <2> QED BY <2>1 DEF Tracked, Slotted, InHand
  <1>9. ASSUME UNCHANGED <<slots, sp, todo, proc, signalled>> PROVE Tracked(c)'
    BY <1>2, <1>9 DEF Tracked, Slotted, InHand
  <1> QED BY <1>1, <1>3, <1>4, <1>5, <1>6, <1>7, <1>8, <1>9
          DEF Next, Handle, vars, StartShare, AddViewer, StartConnect, ReadMountPath, Unmount,
              Supervise, SupLoop, SupWait, SupMount, SupRecord, SupSettle, SupGivesUp

(* A running dav-owner that nobody has told to stop stays within the reach of a stop, *)
(* from its launch on, whatever requests cross: only another one that is put into its *)
(* room's slot takes it away.                                                         *)
THEOREM OwnersCorrect == Spec => OwnersTracked
  <1>1. ControllerInv /\ [Next]_vars =>
          [\A c \in Owner : Live(c)' /\ (Live(c) => Tracked(c)) =>
             Tracked(c)' \/ \E room \in Room :
                              slots[room] = c /\ slots'[room] \in Owner \ {c}]_vars
    BY OwnersStep DEF Overwritten
  <1> QED BY <1>1, InitController, NextController, PTL DEF Spec, OwnersTracked

-----------------------------------------------------------------------------
(* A stop is carried through, and so is the end of a mount supervisor.     *)

\* A child that got SIGTERM has ended, or has a request that waits for its exit.
Awaited(c) == \E r \in Request : pc[r] = "wait" /\ sp[r] = c
FollowInv == \A c \in Child : signalled[c] = "term" => proc[c] \in {"exited", "reaped"} \/ Awaited(c)

\* A client that is yet to be launched, or is being started, has no mount supervisor.
FreshInv ==
  \A c \in Client : sup[c] # "none" =>
    proc[c] # "none" /\ \A r \in Request : pc[r] = "setConnect" => sp[r] # c

\* The steps that a mount supervisor can still take when its session is over.
RoundsLeft(at) ==
  IF at = "wait" THEN 4 ELSE IF at = "mount" THEN 3
  ELSE IF at \in {"record", "settle"} THEN 2 ELSE IF at = "loop" THEN 1 ELSE 0

\* A session that is over does not come back, and each step of its mount supervisor
\* brings that one nearer to its end.
SupervisorNears ==
  \A c \in Client :
    sup[c] # "none" /\ connect # c
      => /\ connect' # c
         /\ sup'[c] = sup[c] \/ RoundsLeft(sup'[c]) < RoundsLeft(sup[c])

LEMMA NextFollow == ControllerInv /\ FollowInv /\ [Next]_vars => FollowInv'
  <1> SUFFICES ASSUME ControllerInv, FollowInv, [Next]_vars, NEW c \in Child,
                      signalled'[c] = "term", proc'[c] \notin {"exited", "reaped"}
               PROVE  Awaited(c)'
    BY DEF FollowInv
  <1> USE DEF app, handlers, children, mounts, Go, StopNext
  <1>t. TypeOK /\ HandlerInv /\ StartInv /\ StoppedByOne
    BY DEF ControllerInv
  <1>1. ASSUME UNCHANGED <<pc, sp, signalled>>, proc[c] \notin {"exited", "reaped"}
        PROVE  Awaited(c)'
    BY <1>1 DEF FollowInv, Awaited
  <1>2. ASSUME UNCHANGED <<proc, signalled>>, NEW r \in Request, pc[r] # "wait",
               \A q \in Request \ {r} : pc'[q] = pc[q] /\ sp'[q] = sp[q]
        PROVE  Awaited(c)'
    BY <1>2 DEF FollowInv, Awaited
  <1>3. CASE StartShare \/ UNCHANGED vars
    BY <1>1, <1>3 DEF StartShare, vars
  <1>4. ASSUME NEW r \in Request,
               \/ AddViewer(r) \/ StartConnect(r) \/ RemoveViewer(r) \/ StopShare(r)
               \/ StopConnect(r) \/ AddSlot(r) \/ SetConnect(r) \/ ReadMountPath(r)
               \/ Unmount(r)
        PROVE  Awaited(c)'
    <2>1. pc[r] # "wait" /\ UNCHANGED <<proc, signalled>>
      BY <1>4 DEF AddViewer, StartConnect, RemoveViewer, StopShare, StopConnect, AddSlot,
                  SetConnect, ReadMountPath, Unmount
    <2>2. \A q \in Request \ {r} : pc'[q] = pc[q] /\ sp'[q] = sp[q]
      BY <1>4, <1>t DEF AddViewer, StartConnect, RemoveViewer, StopShare, StopConnect, AddSlot,
                  SetConnect, ReadMountPath, Unmount, TypeOK
    <2> QED BY <1>2, <2>1, <2>2
  <1>5. ASSUME NEW r \in Request, Launch(r) PROVE Awaited(c)'
    <2>1. pc[r] # "wait" /\ UNCHANGED signalled
      BY <1>5 DEF Launch
    <2>2. \A q \in Request \ {r} : pc'[q] = pc[q] /\ sp'[q] = sp[q]
      BY <1>5, <1>t DEF Launch, TypeOK
    <2>3. proc[c] \notin {"exited", "reaped"}
      BY <1>5, <1>t DEF Launch, TypeOK
    <2> QED BY <2>1, <2>2, <2>3 DEF FollowInv, Awaited
  <1>6. ASSUME NEW r \in Request, TakeCmd(r) PROVE Awaited(c)'
    <2>1. PICK d \in todo[r] :
            IF cmd[d] THEN /\ signalled' = [signalled EXCEPT ![d] = "term"]
                           /\ sp' = [sp EXCEPT ![r] = d]
                           /\ pc' = [pc EXCEPT ![r] = "wait"]
                      ELSE UNCHANGED <<signalled, sp>>
      BY <1>6 DEF TakeCmd
    <2>2. pc[r] = "stop" /\ proc' = proc
      BY <1>6 DEF TakeCmd
    <2>3. CASE c = d /\ cmd[d]
      BY <1>t, <2>1, <2>3 DEF Awaited, TypeOK
    <2>4. CASE cmd[d] /\ c # d
      <3>1. signalled[c] = "term" /\ \A q \in Request \ {r} : pc'[q] = pc[q] /\ sp'[q] = sp[q]
        BY <1>t, <2>1, <2>4 DEF TypeOK
      <3> QED BY <2>2, <3>1 DEF FollowInv, Awaited
    <2>5. CASE ~cmd[d]
      <3>1. \A q \in Request \ {r} : pc'[q] = pc[q]
        BY <1>6, <1>t DEF TakeCmd, TypeOK
      <3> QED BY <1>2, <2>1, <2>2, <2>5, <3>1
    <2> QED BY <2>3, <2>4, <2>5
  <1>7. ASSUME NEW r \in Request, AwaitExit(r) PROVE Awaited(c)'
    <2>1. pc[r] = "wait" /\ sp[r] \in todo[r] /\ sp[r] \in Child /\ proc' = proc
      BY <1>7, <1>t DEF AwaitExit, HandlerInv, TypeOK
    <2>2. proc[sp[r]] # "none"
      BY <1>t, <2>1 DEF StartInv, Handled, InHand
    <2>3. sp[r] # c
      BY <1>7, <1>t, <2>1, <2>2 DEF AwaitExit, TypeOK
    <2>4. signalled[c] = "term" /\ \A q \in Request \ {r} : pc'[q] = pc[q] /\ sp'[q] = sp[q]
      BY <1>7, <1>t, <2>1, <2>3 DEF AwaitExit, TypeOK
    <2> QED BY <2>1, <2>3, <2>4 DEF FollowInv, Awaited
  <1>8. ASSUME NEW d \in Child, Exit(d) \/ Reap(d) PROVE Awaited(c)'
    <2>1. UNCHANGED <<pc, sp, signalled>>
      BY <1>8 DEF Exit, Reap
    <2>2. proc[c] \notin {"exited", "reaped"}
      BY <1>8, <1>t DEF Exit, Reap, TypeOK
    <2> QED BY <1>1, <2>1, <2>2
  <1>9. ASSUME NEW d \in Client, Supervise(d) \/ SupGivesUp(d) PROVE Awaited(c)'
    BY <1>1, <1>9 DEF Supervise, SupLoop, SupWait, SupMount, SupRecord, SupSettle, SupGivesUp
  <1> QED BY <1>3, <1>4, <1>5, <1>6, <1>7, <1>8, <1>9 DEF Next, Handle

LEMMA FinishStep ==
  ASSUME ControllerInv, FollowInv, [Next]_vars,
         NEW r \in Request, NEW c \in todo[r], c \notin todo'[r]
  PROVE  proc'[c] \in {"exited", "reaped"} \/ signalled'[c] = "kill"
  <1> USE DEF app, handlers, children, mounts, Go, StopNext
  <1>t. TypeOK /\ HandlerInv /\ StartInv /\ StoppedByOne /\ CommandInv
    BY DEF ControllerInv
  <1>c. c \in Child /\ proc[c] # "none"
    BY <1>t DEF TypeOK, StartInv, Handled, InHand
  <1>1. pc[r] \in {"readMountPath", "unmount", "stop", "wait"}
    BY <1>t DEF HandlerInv
  <1>2. ASSUME NEW q \in Request, q # r, todo' = todo \/ \E s : todo' = [todo EXCEPT ![q] = s]
        PROVE  FALSE
    BY <1>2, <1>t DEF TypeOK
  <1>3. ASSUME NEW q \in Request, RemoveViewer(q) \/ StopShare(q) \/ StopConnect(q) PROVE FALSE
    BY <1>1, <1>2, <1>3 DEF RemoveViewer, StopShare, StopConnect
  <1>4. CASE \E q \in Request : TakeCmd(q)
    <2>1. TakeCmd(r)
      BY <1>2, <1>4 DEF TakeCmd
    <2>2. ~cmd[c] /\ pc[r] = "stop" /\ UNCHANGED <<proc, signalled>>
      BY <2>1, <1>t DEF TakeCmd, TypeOK
    <2>3. ~Awaited(c)
      BY <1>t, <2>2 DEF Awaited, HandlerInv, StoppedByOne
    <2>4. proc[c] = "running" => signalled[c] = "kill"
      BY <1>t, <1>c, <2>2, <2>3 DEF CommandInv, FollowInv, TypeOK
    <2> QED BY <1>t, <1>c, <2>2, <2>4 DEF TypeOK
  <1>5. CASE \E q \in Request : AwaitExit(q)
    <2>1. PICK q \in Request : AwaitExit(q)
      BY <1>5
    <2>2. q = r
      BY <1>2, <2>1 DEF AwaitExit
    <2>3. c = sp[r]
      BY <1>t, <2>1, <2>2 DEF AwaitExit, TypeOK
    <2> QED BY <1>t, <1>c, <2>1, <2>2, <2>3 DEF AwaitExit, TypeOK
  <1>6. ASSUME UNCHANGED todo PROVE FALSE
    BY <1>6
  <1> QED BY <1>3, <1>4, <1>5, <1>6
          DEF Next, Handle, vars, StartShare, AddViewer, StartConnect, Launch, AddSlot, SetConnect,
              ReadMountPath, Unmount, Exit, Reap, Supervise, SupLoop, SupWait, SupMount, SupRecord,
              SupSettle, SupGivesUp

(* "stop sends SIGTERM, waits a few seconds, then kills": a request that is done with *)
(* a subprocess leaves none running that was not killed, whoever else reaped it, took *)
(* its command or stopped others meanwhile.                                           *)
THEOREM FinishCorrect == Spec => StopFinishes
  <1>1. Init => FollowInv
    BY DEF Init, FollowInv
  <1>2. ControllerInv /\ FollowInv /\ [Next]_vars =>
          [\A r \in Request : \A c \in todo[r] \ todo'[r] :
             Ended(c)' \/ signalled'[c] = "kill"]_vars
    BY FinishStep DEF Ended
  <1> QED BY <1>1, <1>2, InitController, NextController, NextFollow, PTL DEF Spec, StopFinishes

LEMMA NextFresh == ControllerInv /\ FreshInv /\ [Next]_vars => FreshInv'
  <1> SUFFICES ASSUME ControllerInv, FreshInv, [Next]_vars, NEW c \in Client, sup'[c] # "none"
               PROVE  /\ proc'[c] # "none"
                      /\ \A r \in Request : pc'[r] = "setConnect" => sp'[r] # c
    BY DEF FreshInv
  <1> USE DEF app, handlers, children, mounts, Go, StopNext, Child
  <1>t. TypeOK /\ HandlerInv /\ StartInv
    BY DEF ControllerInv
  <1>1. ASSUME NEW r \in Request, SetConnect(r)
        PROVE  /\ proc'[c] # "none"
               /\ \A q \in Request : pc'[q] = "setConnect" => sp'[q] # c
    <2>1. sp[r] \in Client /\ pc[r] = "setConnect" /\ proc[sp[r]] # "none"
      BY <1>1, <1>t DEF SetConnect, HandlerInv, StartInv, Handled, InHand
    <2>2. c # sp[r] => sup[c] # "none"
      BY <1>1, <1>t, <2>1 DEF SetConnect, TypeOK
    <2>3. \A q \in Request \ {r} : pc'[q] = pc[q] /\ sp'[q] = sp[q]
      BY <1>1, <1>t DEF SetConnect, TypeOK
    <2>4. \A q \in Request \ {r} : sp[q] # sp[r]
      BY <1>t, <2>1 DEF StartInv, Starting
    <2>5. pc'[r] = "idle" /\ proc' = proc
      BY <1>1, <1>t DEF SetConnect, TypeOK
    <2> QED BY <2>1, <2>2, <2>3, <2>4, <2>5 DEF FreshInv
  <1>2. ASSUME NEW r \in Request, Launch(r)
        PROVE  /\ proc'[c] # "none"
               /\ \A q \in Request : pc'[q] = "setConnect" => sp'[q] # c
    BY <1>2, <1>t DEF Launch, FreshInv, TypeOK
  <1>3. ASSUME NEW r \in Request,
               \/ AddViewer(r) \/ StartConnect(r) \/ RemoveViewer(r) \/ StopShare(r)
               \/ StopConnect(r) \/ AddSlot(r) \/ ReadMountPath(r) \/ Unmount(r)
               \/ TakeCmd(r) \/ AwaitExit(r)
        PROVE  /\ proc'[c] # "none"
               /\ \A q \in Request : pc'[q] = "setConnect" => sp'[q] # c
    <2>1. pc'[r] # "setConnect" /\ UNCHANGED <<proc, sup>>
      BY <1>3, <1>t DEF AddViewer, StartConnect, RemoveViewer, StopShare, StopConnect, AddSlot,
                        ReadMountPath, Unmount, TakeCmd, AwaitExit, TypeOK
    <2>2. \A q \in Request \ {r} : pc'[q] = pc[q] /\ sp'[q] = sp[q]
      BY <1>3, <1>t DEF AddViewer, StartConnect, RemoveViewer, StopShare, StopConnect, AddSlot,
                        ReadMountPath, Unmount, TakeCmd, AwaitExit, TypeOK
    <2> QED BY <2>1, <2>2 DEF FreshInv
  <1>4. ASSUME NEW d \in Client, Supervise(d) \/ SupGivesUp(d)
        PROVE  /\ proc'[c] # "none"
               /\ \A q \in Request : pc'[q] = "setConnect" => sp'[q] # c
    <2>1. sup[c] # "none" /\ UNCHANGED <<pc, sp, proc>>
      BY <1>4, <1>t DEF Supervise, SupLoop, SupWait, SupMount, SupRecord, SupSettle, SupGivesUp, Sup,
                        TypeOK
    <2> QED BY <2>1 DEF FreshInv
  <1>5. ASSUME NEW d \in Child, Exit(d) \/ Reap(d)
        PROVE  /\ proc'[c] # "none"
               /\ \A q \in Request : pc'[q] = "setConnect" => sp'[q] # c
    BY <1>5, <1>t DEF Exit, Reap, FreshInv, TypeOK
  <1>6. CASE StartShare \/ UNCHANGED vars
    BY <1>6 DEF StartShare, vars, FreshInv
  <1> QED BY <1>1, <1>2, <1>3, <1>4, <1>5, <1>6 DEF Next, Handle

LEMMA NearsStep == ControllerInv /\ FreshInv /\ [Next]_vars => SupervisorNears
  <1> SUFFICES ASSUME ControllerInv, FreshInv, [Next]_vars,
                      NEW c \in Client, sup[c] # "none", connect # c
               PROVE  /\ connect' # c
                      /\ sup'[c] = sup[c] \/ RoundsLeft(sup'[c]) < RoundsLeft(sup[c])
    BY DEF SupervisorNears
  <1> USE DEF app, handlers, children, mounts, Go, StopNext
  <1>t. TypeOK /\ HandlerInv /\ StartInv
    BY DEF ControllerInv
  <1>1. ASSUME NEW r \in Request, SetConnect(r)
        PROVE  connect' # c /\ sup'[c] = sup[c]
    <2>1. sp[r] \in Client /\ sup[sp[r]] = "none"
      BY <1>1, <1>t DEF SetConnect, HandlerInv, FreshInv
    <2> QED BY <1>1, <1>t, <2>1 DEF SetConnect, TypeOK
  <1>2. ASSUME NEW r \in Request, StopConnect(r)
        PROVE  connect' # c /\ sup'[c] = sup[c]
    BY <1>2, ChildAssumption DEF StopConnect, Child
  <1>3. ASSUME NEW d \in Client, Supervise(d) \/ SupGivesUp(d)
        PROVE  /\ connect' # c
               /\ sup'[c] = sup[c] \/ RoundsLeft(sup'[c]) < RoundsLeft(sup[c])
    <2>1. UNCHANGED connect
      BY <1>3 DEF Supervise, SupLoop, SupWait, SupMount, SupRecord, SupSettle, SupGivesUp
    <2>2. CASE d # c
      BY <1>3, <1>t, <2>1, <2>2 DEF Supervise, SupLoop, SupWait, SupMount, SupRecord, SupSettle,
                                    SupGivesUp, Sup, TypeOK
    <2>3. CASE SupLoop(c) \/ SupGivesUp(c)
      BY <1>t, <2>1, <2>3 DEF SupLoop, SupGivesUp, Sup, RoundsLeft, TypeOK
    <2>4. CASE SupWait(c) \/ SupMount(c) \/ SupRecord(c) \/ SupSettle(c)
      <3>1. \/ sup[c] = "wait" /\ sup'[c] \in {"done", "mount", "loop"}
            \/ sup[c] = "mount" /\ sup'[c] \in {"record", "settle"}
            \/ sup[c] \in {"record", "settle"} /\ sup'[c] \in {"done", "loop"}
        BY <1>t, <2>4 DEF SupWait, SupMount, SupRecord, SupSettle, Sup, TypeOK
      <3> QED BY <2>1, <3>1 DEF RoundsLeft
    <2> QED BY <1>3, <2>2, <2>3, <2>4 DEF Supervise
  <1>4. ASSUME UNCHANGED <<connect, sup>>
        PROVE  connect' # c /\ sup'[c] = sup[c]
    BY <1>4
  <1> QED BY <1>1, <1>2, <1>3, <1>4
          DEF Next, Handle, vars, StartShare, AddViewer, StartConnect, RemoveViewer, StopShare,
              Launch, AddSlot, ReadMountPath, Unmount, TakeCmd, AwaitExit, Exit, Reap

(* The mount supervisor of a session that was stopped, or overwritten by a second     *)
(* startConnect, finishes the round it is in and looks once more, at most.            *)
THEOREM NearsCorrect == Spec => [][SupervisorNears]_vars
  <1>1. Init => FreshInv
    BY DEF Init, FreshInv
  <1>2. ControllerInv /\ FreshInv /\ [Next]_vars => [SupervisorNears]_vars
    BY NearsStep
  <1> QED BY <1>1, <1>2, InitController, NextController, NextFresh, PTL DEF Spec

=============================================================================
