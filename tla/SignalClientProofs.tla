------------------------- MODULE SignalClientProofs -------------------------
(***************************************************************************)
(* Proofs about the signaling client, for any number of senders and of     *)
(* lost connections: types, the bound on redials, and that no connection   *)
(* is left behind, by a reconnect or by Close.                             *)
(***************************************************************************)
EXTENDS SignalClient, TLAPS

LEMMA ProcessFacts ==
  /\ Main \in Writer /\ Sender \subseteq Writer /\ Writer \subseteq Process /\ Receiver \in Process
  /\ Receiver \notin Writer /\ Main \notin Sender /\ None \notin Process /\ Main # Receiver
  BY ProcessAssumption DEF Writer, Process

USE LossesAssumption, ProcessFacts DEF None

\* writeMu is held at exactly these steps.
Critical == {"write", "retry", "drop", "check", "redial", "join"}
LockInv == \A p \in Process : pc[p] \in Critical <=> mu = p

\* Which goroutine can be where.
RoleInv ==
  /\ pc[Receiver] \in {"idle", "read", "reading", "recvlock", "done", "drop", "check", "redial", "join"}
  /\ \A p \in Writer : pc[p] \notin {"read", "reading", "recvlock", "done"}
  /\ \A p \in Sender : pc[p] \in {"idle", "lock"} \cup Critical
  /\ pc[Main] = "dial" => dialled = 0
  /\ pc[Main] \notin {"paired", "closelock", "closed"} => \A p \in Process \ {Main} : pc[p] = "idle"
  /\ pc[Main] \in {"closelock", "closed"} <=> closed

\* What c.conn, the connection being joined and the one being read can be.
ConnInv ==
  /\ \A n \in Conn : link[n] = "none" <=> n > dialled
  /\ conn <= dialled /\ reading <= dialled
  /\ \A p \in Process :
       /\ IF pc[p] = "join" THEN /\ fresh[p] \in 1..dialled /\ fresh[p] # reading
                                 /\ link[fresh[p]] \in {"up", "lost"}
                            ELSE fresh[p] = None
       /\ pc[p] \in {"check", "redial", "join"} => conn = None
       /\ pc[p] = "drop" /\ p \in Writer => conn # None /\ link[conn] \in {"lost", "closed"}
  /\ conn # None /\ link[conn] = "closed" => closed
  /\ pc[Receiver] = "reading" => reading # None

\* The redials that are sure to come: one for a connection that is gone, and one
\* more if the receiver has yet to find out about the one that it reads.
Lost == \/ conn # None /\ link[conn] = "lost"
        \/ \E p \in Process : pc[p] = "join" /\ link[fresh[p]] = "lost"
Broken == \/ \E p \in Process : pc[p] = "redial"
          \/ ~closed /\ (Lost \/ \E p \in Process : pc[p] \in {"drop", "check"})
Behind == /\ ~closed
          /\ \/ pc[Receiver] = "recvlock"
             \/ IF pc[Receiver] = "reading" THEN link[reading] # "up" ELSE Lost
Owed == (IF Broken THEN 1 ELSE 0) + (IF Behind THEN 1 ELSE 0)

BudgetInv == dialled + Owed <= 2 * losses + 1

ClientInv == /\ TypeOK /\ LockInv /\ RoleInv /\ ConnInv /\ BudgetInv
             /\ NoLeak /\ ClosedForGood

LEMMA InitClient == Init => ClientInv
  <1> SUFFICES ASSUME Init PROVE ClientInv
    OBVIOUS
  <1> USE DEF Init
  <1>1. TypeOK
    <2>1. None \in {None} \cup Conn /\ 0 \in 0..MaxLosses
      OBVIOUS
    <2>2. pc \in [Process -> {"dial", "idle"}]
      OBVIOUS
    <2> QED BY <2>1, <2>2 DEF TypeOK
  <1>2. LockInv /\ RoleInv /\ ConnInv
    BY DEF LockInv, RoleInv, ConnInv, Critical, Conn
  <1>3. ~Broken /\ ~Behind
    BY DEF Broken, Behind, Lost
  <1>4. BudgetInv
    BY <1>3 DEF BudgetInv, Owed
  <1>5. NoLeak /\ ClosedForGood
    BY DEF NoLeak, ClosedForGood
  <1> QED BY <1>1, <1>2, <1>4, <1>5 DEF ClientInv

\* A step that neither dials nor loses a connection keeps the budget, if it leaves
\* no more to be done than there was.
LEMMA BudgetKept ==
  ASSUME TypeOK, BudgetInv, UNCHANGED <<dialled, losses>>,
         \/ Broken' => Broken
         \/ Behind /\ ~Behind',
         Behind' => Behind
  PROVE  BudgetInv'
  BY DEF BudgetInv, Owed, TypeOK, Conn

\* A loss pays for two redials.
LEMMA LossPays ==
  ASSUME NEW d \in Nat, NEW l \in Nat, NEW o \in 0..2, NEW n \in 0..2, d + o <= 2 * l + 1
  PROVE  d + n <= 2 * (l + 1) + 1
  <1>1. d <= 2 * l + 1
    OBVIOUS
  <1> QED BY <1>1

LEMMA LoseStep ==
  ASSUME ClientInv, Lose
  PROVE  ClientInv'
  <1> USE DEF ClientInv
  <1>1. TypeOK'
    BY DEF TypeOK, Lose
  <1>2. LockInv'
    BY DEF LockInv, Critical, TypeOK, Lose
  <1>3. RoleInv'
    BY DEF RoleInv, LockInv, Critical, TypeOK, Lose
  <1>4. ConnInv'
    BY DEF ConnInv, LockInv, RoleInv, Critical, TypeOK, Conn, Lose
  <1>5. BudgetInv'
    <2>1. Owed \in 0..2 /\ Owed' \in 0..2 /\ losses' = losses + 1 /\ dialled' = dialled
      BY DEF Owed, Lose
    <2>2. dialled \in Nat /\ losses \in Nat /\ dialled + Owed <= 2 * losses + 1
      BY DEF BudgetInv, TypeOK, Conn
    <2> QED BY <2>1, <2>2, LossPays DEF BudgetInv
  <1>6. NoLeak' /\ ClosedForGood'
    BY DEF NoLeak, ClosedForGood, ConnInv, LockInv, RoleInv, Critical, TypeOK, Lose
  <1> QED BY <1>1, <1>2, <1>3, <1>4, <1>5, <1>6

LEMMA DialFirstStep ==
  ASSUME ClientInv, DialFirst
  PROVE  ClientInv'
  <1> USE DEF ClientInv
  <1> DEFINE Dials == Dial /\ conn' = dialled' /\ pc' = [pc EXCEPT ![Main] = "lock"]
             Fails == pc' = [pc EXCEPT ![Main] = "exited"] /\ UNCHANGED <<conn, dialled, link>>
  <1>d. /\ pc[Main] = "dial" /\ dialled = 0 /\ ~closed /\ 1 \in Conn
        /\ \A p \in Process : p # Main => pc[p] = "idle" /\ pc'[p] = "idle"
        /\ UNCHANGED <<first, mu, closed, fresh, reading, losses, panicked>>
        /\ Dials \/ Fails
    BY DEF RoleInv, DialFirst, TypeOK, Conn
  <1>1. TypeOK'
    <2>1. CASE Dials
      BY <1>d, <2>1 DEF TypeOK, Dial
    <2>2. CASE Fails
      BY <1>d, <2>2 DEF TypeOK
    <2> QED BY <1>d, <2>1, <2>2
  <1>2. LockInv'
    BY DEF LockInv, Critical, TypeOK, DialFirst, Dial
  <1>3. RoleInv'
    BY DEF RoleInv, LockInv, Critical, TypeOK, DialFirst, Dial
  <1>4. ConnInv'
    BY DEF ConnInv, LockInv, RoleInv, Critical, TypeOK, Conn, DialFirst, Dial
  <1>5. BudgetInv'
    <2>1. CASE Dials
      <3>1. pc'[Main] = "lock" /\ conn' = 1 /\ link'[1] = "up" /\ dialled' = 1
        BY <1>d, <2>1 DEF Dial, TypeOK
      <3>2. Owed' = 0
        BY <1>d, <3>1 DEF Owed, Broken, Behind, Lost
      <3> QED BY <1>d, <3>1, <3>2 DEF BudgetInv, TypeOK
    <2>2. CASE Fails
      <3>1. (Broken' => Broken) /\ (Behind' => Behind)
        BY <1>d, <2>2 DEF Broken, Behind, Lost, TypeOK
      <3> QED BY <1>d, <2>2, <3>1, BudgetKept
    <2> QED BY <1>d, <2>1, <2>2
  <1>6. NoLeak' /\ ClosedForGood'
    <2>1. \A n \in Conn : link[n] = "none"
      BY <1>d DEF ConnInv, Conn
    <2>2. \A n \in Conn : link'[n] = "none" \/ n = conn'
      BY <1>d, <2>1 DEF Dial, TypeOK
    <2>3. pc'[Main] # "closed"
      BY <1>d DEF TypeOK
    <2> QED BY <2>2, <2>3 DEF NoLeak, ClosedForGood
  <1> QED BY <1>1, <1>2, <1>3, <1>4, <1>5, <1>6

LEMMA ReadyStep ==
  ASSUME ClientInv, Ready
  PROVE  ClientInv'
  <1> USE DEF ClientInv
  <1>1. TypeOK'
    BY DEF TypeOK, Ready, net
  <1>2. LockInv'
    <2>1. pc[Receiver] = "idle" /\ pc[Main] = "ready" /\ mu' = mu
      BY DEF RoleInv, Ready
    <2>2. /\ \A p \in Process : p # Main /\ p # Receiver => pc'[p] = pc[p]
          /\ pc'[Main] \in {"paired", "exited"} /\ pc'[Receiver] \in {"idle", "read"}
      BY <2>1 DEF Ready, TypeOK
    <2> QED BY <2>1, <2>2 DEF LockInv, Critical
  <1>3. RoleInv'
    BY DEF RoleInv, LockInv, Critical, TypeOK, Ready, net
  <1>4. ConnInv'
    BY DEF ConnInv, LockInv, RoleInv, Critical, TypeOK, Conn, Ready, net
  <1>5. BudgetInv'
    <2>1. (Broken' => Broken) /\ (Behind' => Behind)
      BY DEF Broken, Behind, Lost, ConnInv, LockInv, RoleInv, Critical, NoLeak, TypeOK, Ready, net
    <2> QED BY <2>1, BudgetKept DEF Ready, net
  <1>6. NoLeak' /\ ClosedForGood'
    BY DEF NoLeak, ClosedForGood, ConnInv, LockInv, RoleInv, Critical, TypeOK, Ready, net
  <1> QED BY <1>1, <1>2, <1>3, <1>4, <1>5, <1>6

LEMMA BeginCloseStep ==
  ASSUME ClientInv, BeginClose
  PROVE  ClientInv'
  <1> USE DEF ClientInv
  <1>1. TypeOK'
    BY DEF TypeOK, BeginClose, net
  <1>2. LockInv'
    BY DEF LockInv, Critical, TypeOK, BeginClose, net
  <1>3. RoleInv'
    BY DEF RoleInv, LockInv, Critical, TypeOK, BeginClose, net
  <1>4. ConnInv'
    BY DEF ConnInv, LockInv, RoleInv, Critical, TypeOK, Conn, BeginClose, net
  <1>5. BudgetInv'
    <2>1. (Broken' => Broken) /\ (Behind' => Behind)
      BY DEF Broken, Behind, Lost, ConnInv, LockInv, RoleInv, Critical, NoLeak, TypeOK, BeginClose, net
    <2> QED BY <2>1, BudgetKept DEF BeginClose, net
  <1>6. NoLeak' /\ ClosedForGood'
    BY DEF NoLeak, ClosedForGood, ConnInv, LockInv, RoleInv, Critical, TypeOK, BeginClose, net
  <1> QED BY <1>1, <1>2, <1>3, <1>4, <1>5, <1>6

LEMMA EndCloseStep ==
  ASSUME ClientInv, EndClose
  PROVE  ClientInv'
  <1> USE DEF ClientInv
  <1>1. TypeOK'
    BY DEF TypeOK, EndClose
  <1>2. LockInv'
    BY DEF LockInv, Critical, TypeOK, EndClose
  <1>3. RoleInv'
    BY DEF RoleInv, LockInv, Critical, TypeOK, EndClose
  <1>4. ConnInv'
    BY DEF ConnInv, LockInv, RoleInv, Critical, TypeOK, Conn, EndClose
  <1>5. BudgetInv'
    <2>1. (Broken' => Broken) /\ (Behind' => Behind)
      BY DEF Broken, Behind, Lost, ConnInv, LockInv, RoleInv, Critical, NoLeak, TypeOK, EndClose
    <2> QED BY <2>1, BudgetKept DEF EndClose
  <1>6. NoLeak' /\ ClosedForGood'
    <2>1. \A p \in Process : pc[p] \notin Critical
      BY DEF LockInv, EndClose
    <2>2. \A p \in Process : pc'[p] \notin {"redial", "join"} /\ fresh[p] = None
      BY <2>1 DEF EndClose, TypeOK, Critical, ConnInv
    <2>3. \A n \in Conn : link'[n] \in {"up", "lost"} => link[n] \in {"up", "lost"} /\ n # conn
      BY DEF EndClose, TypeOK, Conn
    <2> QED BY <2>2, <2>3 DEF NoLeak, ClosedForGood, Conn
  <1> QED BY <1>1, <1>2, <1>3, <1>4, <1>5, <1>6

LEMMA SendStep ==
  ASSUME ClientInv, NEW p \in Sender, Send(p)
  PROVE  ClientInv'
  <1> USE DEF ClientInv
  <1>1. TypeOK'
    BY DEF TypeOK, Send, net
  <1>2. LockInv'
    BY DEF LockInv, Critical, TypeOK, Send, net
  <1>3. RoleInv'
    BY DEF RoleInv, LockInv, Critical, TypeOK, Send, net
  <1>4. ConnInv'
    BY DEF ConnInv, LockInv, RoleInv, Critical, TypeOK, Conn, Send, net
  <1>5. BudgetInv'
    <2>1. (Broken' => Broken) /\ (Behind' => Behind)
      BY DEF Broken, Behind, Lost, ConnInv, LockInv, RoleInv, Critical, NoLeak, TypeOK, Send, net
    <2> QED BY <2>1, BudgetKept DEF Send, net
  <1>6. NoLeak' /\ ClosedForGood'
    BY DEF NoLeak, ClosedForGood, ConnInv, LockInv, RoleInv, Critical, TypeOK, Send, net
  <1> QED BY <1>1, <1>2, <1>3, <1>4, <1>5, <1>6

LEMMA LockStep ==
  ASSUME ClientInv, NEW p \in Writer, Lock(p)
  PROVE  ClientInv'
  <1> USE DEF ClientInv
  <1>1. TypeOK'
    BY DEF TypeOK, Lock, net
  <1>2. LockInv'
    BY DEF LockInv, Critical, TypeOK, Lock, net
  <1>3. RoleInv'
    BY DEF RoleInv, LockInv, Critical, TypeOK, Lock, net
  <1>4. ConnInv'
    BY DEF ConnInv, LockInv, RoleInv, Critical, TypeOK, Conn, Lock, net
  <1>5. BudgetInv'
    <2>1. (Broken' => Broken) /\ (Behind' => Behind)
      BY DEF Broken, Behind, Lost, ConnInv, LockInv, RoleInv, Critical, NoLeak, TypeOK, Lock, net
    <2> QED BY <2>1, BudgetKept DEF Lock, net
  <1>6. NoLeak' /\ ClosedForGood'
    BY DEF NoLeak, ClosedForGood, ConnInv, LockInv, RoleInv, Critical, TypeOK, Lock, net
  <1> QED BY <1>1, <1>2, <1>3, <1>4, <1>5, <1>6

LEMMA WriteStep ==
  ASSUME ClientInv, NEW p \in Writer, Write(p)
  PROVE  ClientInv'
  <1> USE DEF ClientInv
  <1>1. TypeOK'
    BY DEF TypeOK, Write, Written, Returned, Kind
  <1>2. LockInv'
    BY DEF LockInv, Critical, TypeOK, Write, Written, Returned, Kind
  <1>3. RoleInv'
    BY DEF RoleInv, LockInv, Critical, TypeOK, Write, Written, Returned, Kind
  <1>4. ConnInv'
    BY DEF ConnInv, LockInv, RoleInv, Critical, TypeOK, Conn, Write, Written, Returned, Kind
  <1>5. BudgetInv'
    <2>1. (Broken' => Broken) /\ (Behind' => Behind)
      BY DEF Broken, Behind, Lost, ConnInv, LockInv, RoleInv, Critical, NoLeak, TypeOK, Write, Written, Returned, Kind
    <2> QED BY <2>1, BudgetKept DEF Write, Written, Returned, Kind
  <1>6. NoLeak' /\ ClosedForGood'
    BY DEF NoLeak, ClosedForGood, ConnInv, LockInv, RoleInv, Critical, TypeOK, Write, Written, Returned, Kind
  <1> QED BY <1>1, <1>2, <1>3, <1>4, <1>5, <1>6

LEMMA WriteNilStep ==
  ASSUME ClientInv, NEW p \in Writer, WriteNil(p)
  PROVE  ClientInv'
  <1> USE DEF ClientInv
  <1>1. TypeOK'
    BY DEF TypeOK, WriteNil, net
  <1>2. LockInv'
    BY DEF LockInv, Critical, TypeOK, WriteNil, net
  <1>3. RoleInv'
    BY DEF RoleInv, LockInv, Critical, TypeOK, WriteNil, net
  <1>4. ConnInv'
    BY DEF ConnInv, LockInv, RoleInv, Critical, TypeOK, Conn, WriteNil, net
  <1>5. BudgetInv'
    <2>1. (Broken' => Broken) /\ (Behind' => Behind)
      BY DEF Broken, Behind, Lost, ConnInv, LockInv, RoleInv, Critical, NoLeak, TypeOK, WriteNil, net
    <2> QED BY <2>1, BudgetKept DEF WriteNil, net
  <1>6. NoLeak' /\ ClosedForGood'
    BY DEF NoLeak, ClosedForGood, ConnInv, LockInv, RoleInv, Critical, TypeOK, WriteNil, net
  <1> QED BY <1>1, <1>2, <1>3, <1>4, <1>5, <1>6

LEMMA BeginReadStep ==
  ASSUME ClientInv, BeginRead
  PROVE  ClientInv'
  <1> USE DEF ClientInv
  <1>1. TypeOK'
    BY DEF TypeOK, BeginRead, net
  <1>2. LockInv'
    BY DEF LockInv, Critical, TypeOK, BeginRead, net
  <1>3. RoleInv'
    BY DEF RoleInv, LockInv, Critical, TypeOK, BeginRead, net
  <1>4. ConnInv'
    BY DEF ConnInv, LockInv, RoleInv, Critical, TypeOK, Conn, BeginRead, net
  <1>5. BudgetInv'
    <2>1. (Broken' => Broken) /\ (Behind' => Behind)
      BY DEF Broken, Behind, Lost, ConnInv, LockInv, RoleInv, Critical, NoLeak, TypeOK, BeginRead, net
    <2> QED BY <2>1, BudgetKept DEF BeginRead, net
  <1>6. NoLeak' /\ ClosedForGood'
    BY DEF NoLeak, ClosedForGood, ConnInv, LockInv, RoleInv, Critical, TypeOK, BeginRead, net
  <1> QED BY <1>1, <1>2, <1>3, <1>4, <1>5, <1>6

LEMMA ReadNilStep ==
  ASSUME ClientInv, ReadNil
  PROVE  ClientInv'
  <1> USE DEF ClientInv
  <1>1. TypeOK'
    BY DEF TypeOK, ReadNil, net
  <1>2. LockInv'
    BY DEF LockInv, Critical, TypeOK, ReadNil, net
  <1>3. RoleInv'
    BY DEF RoleInv, LockInv, Critical, TypeOK, ReadNil, net
  <1>4. ConnInv'
    BY DEF ConnInv, LockInv, RoleInv, Critical, TypeOK, Conn, ReadNil, net
  <1>5. BudgetInv'
    <2>1. (Broken' => Broken) /\ (Behind' => Behind)
      BY DEF Broken, Behind, Lost, ConnInv, LockInv, RoleInv, Critical, NoLeak, TypeOK, ReadNil, net
    <2> QED BY <2>1, BudgetKept DEF ReadNil, net
  <1>6. NoLeak' /\ ClosedForGood'
    BY DEF NoLeak, ClosedForGood, ConnInv, LockInv, RoleInv, Critical, TypeOK, ReadNil, net
  <1> QED BY <1>1, <1>2, <1>3, <1>4, <1>5, <1>6

LEMMA ReadEnvelopeStep ==
  ASSUME ClientInv, ReadEnvelope
  PROVE  ClientInv'
  <1> USE DEF ClientInv
  <1>1. TypeOK'
    BY DEF TypeOK, ReadEnvelope, EndRead, net
  <1>2. LockInv'
    BY DEF LockInv, Critical, TypeOK, ReadEnvelope, EndRead, net
  <1>3. RoleInv'
    BY DEF RoleInv, LockInv, Critical, TypeOK, ReadEnvelope, EndRead, net
  <1>4. ConnInv'
    BY DEF ConnInv, LockInv, RoleInv, Critical, TypeOK, Conn, ReadEnvelope, EndRead, net
  <1>5. BudgetInv'
    <2>1. (Broken' => Broken) /\ (Behind' => Behind)
      BY DEF Broken, Behind, Lost, ConnInv, LockInv, RoleInv, Critical, NoLeak, TypeOK, ReadEnvelope, EndRead, net
    <2> QED BY <2>1, BudgetKept DEF ReadEnvelope, EndRead, net
  <1>6. NoLeak' /\ ClosedForGood'
    BY DEF NoLeak, ClosedForGood, ConnInv, LockInv, RoleInv, Critical, TypeOK, ReadEnvelope, EndRead, net
  <1> QED BY <1>1, <1>2, <1>3, <1>4, <1>5, <1>6

LEMMA ReadFailsStep ==
  ASSUME ClientInv, ReadFails
  PROVE  ClientInv'
  <1> USE DEF ClientInv
  <1>1. TypeOK'
    BY DEF TypeOK, ReadFails, EndRead, net
  <1>2. LockInv'
    BY DEF LockInv, Critical, TypeOK, ReadFails, EndRead, net
  <1>3. RoleInv'
    BY DEF RoleInv, LockInv, Critical, TypeOK, ReadFails, EndRead, net
  <1>4. ConnInv'
    BY DEF ConnInv, LockInv, RoleInv, Critical, TypeOK, Conn, ReadFails, EndRead, net
  <1>5. BudgetInv'
    <2>1. (Broken' => Broken) /\ (Behind' => Behind)
      BY DEF Broken, Behind, Lost, ConnInv, LockInv, RoleInv, Critical, NoLeak, TypeOK, ReadFails, EndRead, net
    <2> QED BY <2>1, BudgetKept DEF ReadFails, EndRead, net
  <1>6. NoLeak' /\ ClosedForGood'
    BY DEF NoLeak, ClosedForGood, ConnInv, LockInv, RoleInv, Critical, TypeOK, ReadFails, EndRead, net
  <1> QED BY <1>1, <1>2, <1>3, <1>4, <1>5, <1>6

LEMMA ReadDroppedStep ==
  ASSUME ClientInv, ReadDropped
  PROVE  ClientInv'
  <1> USE DEF ClientInv
  <1>1. TypeOK'
    BY DEF TypeOK, ReadDropped, EndRead, net
  <1>2. LockInv'
    BY DEF LockInv, Critical, TypeOK, ReadDropped, EndRead, net
  <1>3. RoleInv'
    BY DEF RoleInv, LockInv, Critical, TypeOK, ReadDropped, EndRead, net
  <1>4. ConnInv'
    BY DEF ConnInv, LockInv, RoleInv, Critical, TypeOK, Conn, ReadDropped, EndRead, net
  <1>5. BudgetInv'
    <2>1. (Broken' => Broken) /\ (Behind' => Behind)
      BY DEF Broken, Behind, Lost, ConnInv, LockInv, RoleInv, Critical, NoLeak, TypeOK, ReadDropped, EndRead, net
    <2> QED BY <2>1, BudgetKept DEF ReadDropped, EndRead, net
  <1>6. NoLeak' /\ ClosedForGood'
    BY DEF NoLeak, ClosedForGood, ConnInv, LockInv, RoleInv, Critical, TypeOK, ReadDropped, EndRead, net
  <1> QED BY <1>1, <1>2, <1>3, <1>4, <1>5, <1>6

LEMMA RecvLockStep ==
  ASSUME ClientInv, RecvLock
  PROVE  ClientInv'
  <1> USE DEF ClientInv
  <1>1. TypeOK'
    BY DEF TypeOK, RecvLock, net
  <1>2. LockInv'
    BY DEF LockInv, Critical, TypeOK, RecvLock, net
  <1>3. RoleInv'
    BY DEF RoleInv, LockInv, Critical, TypeOK, RecvLock, net
  <1>4. ConnInv'
    BY DEF ConnInv, LockInv, RoleInv, Critical, TypeOK, Conn, RecvLock, net
  <1>5. BudgetInv'
    <2>1. /\ \A p \in Process : pc[p] \notin Critical
          /\ pc[Receiver] = "recvlock" /\ pc'[Receiver] = "drop"
          /\ UNCHANGED <<conn, link, dialled, closed, fresh, reading, losses>>
          /\ \A p \in Process \ {Receiver} : pc'[p] = pc[p]
      BY DEF LockInv, RecvLock, TypeOK, net
    <2>2. Lost' <=> Lost
      BY <2>1 DEF Lost, Critical
    <2>3. /\ closed => ~Broken' /\ ~Behind'
          /\ ~closed => Behind /\ (Behind' <=> Lost) /\ (Broken <=> Lost)
      BY <2>1, <2>2 DEF Broken, Behind, Critical
    <2> QED BY <2>1, <2>3, BudgetKept
  <1>6. NoLeak' /\ ClosedForGood'
    BY DEF NoLeak, ClosedForGood, ConnInv, LockInv, RoleInv, Critical, TypeOK, RecvLock, net
  <1> QED BY <1>1, <1>2, <1>3, <1>4, <1>5, <1>6

LEMMA DropConnStep ==
  ASSUME ClientInv, NEW p \in Process, DropConn(p)
  PROVE  ClientInv'
  <1> USE DEF ClientInv
  <1>1. TypeOK'
    BY DEF TypeOK, DropConn
  <1>2. LockInv'
    BY DEF LockInv, Critical, TypeOK, DropConn
  <1>3. RoleInv'
    BY DEF RoleInv, LockInv, Critical, TypeOK, DropConn
  <1>4. ConnInv'
    BY DEF ConnInv, LockInv, RoleInv, Critical, TypeOK, Conn, DropConn
  <1>5. BudgetInv'
    <2>1. /\ pc[p] = "drop" /\ pc'[p] = "check" /\ conn' = None
          /\ UNCHANGED <<dialled, closed, fresh, reading, losses>>
          /\ \A q \in Process \ {p} : pc[q] \notin Critical /\ pc'[q] = pc[q]
      BY DEF LockInv, Critical, DropConn, TypeOK
    <2>2. Broken' => Broken
      BY <2>1 DEF Broken, Lost, Critical
    <2>3. Behind' => Behind
      <3>1. ~Lost'
        BY <2>1 DEF Lost, Critical
      <3>2. CASE p = Receiver
        BY <2>1, <3>1, <3>2 DEF Behind
      <3>3. CASE p # Receiver
        <4>1. conn # None /\ link[conn] # "up"
          BY <2>1, <3>3 DEF ConnInv, Process
        <4>2. reading = conn => link[reading] # "up"
          BY <4>1
        <4>3. reading # conn => link'[reading] = link[reading]
          BY DEF DropConn, TypeOK
        <4> QED BY <2>1, <3>1, <3>3, <4>2, <4>3 DEF Behind
      <3> QED BY <3>2, <3>3
    <2> QED BY <2>1, <2>2, <2>3, BudgetKept
  <1>6. NoLeak' /\ ClosedForGood'
    BY DEF NoLeak, ClosedForGood, ConnInv, LockInv, RoleInv, Critical, TypeOK, DropConn
  <1> QED BY <1>1, <1>2, <1>3, <1>4, <1>5, <1>6

LEMMA GiveUpStep ==
  ASSUME ClientInv, NEW p \in Process, GiveUp(p)
  PROVE  ClientInv'
  <1> USE DEF ClientInv
  <1>1. TypeOK'
    BY DEF TypeOK, GiveUp, Returned, net
  <1>2. LockInv'
    BY DEF LockInv, Critical, TypeOK, GiveUp, Returned, net
  <1>3. RoleInv'
    BY DEF RoleInv, LockInv, Critical, TypeOK, GiveUp, Returned, net
  <1>4. ConnInv'
    BY DEF ConnInv, LockInv, RoleInv, Critical, TypeOK, Conn, GiveUp, Returned, net
  <1>5. BudgetInv'
    <2>1. (Broken' => Broken) /\ (Behind' => Behind)
      BY DEF Broken, Behind, Lost, ConnInv, LockInv, RoleInv, Critical, NoLeak, TypeOK, GiveUp, Returned, net
    <2> QED BY <2>1, BudgetKept DEF GiveUp, Returned, net
  <1>6. NoLeak' /\ ClosedForGood'
    BY DEF NoLeak, ClosedForGood, ConnInv, LockInv, RoleInv, Critical, TypeOK, GiveUp, Returned, net
  <1> QED BY <1>1, <1>2, <1>3, <1>4, <1>5, <1>6

LEMMA GoOnStep ==
  ASSUME ClientInv, NEW p \in Process, GoOn(p)
  PROVE  ClientInv'
  <1> USE DEF ClientInv
  <1>1. TypeOK'
    BY DEF TypeOK, GoOn, net
  <1>2. LockInv'
    BY DEF LockInv, Critical, TypeOK, GoOn, net
  <1>3. RoleInv'
    BY DEF RoleInv, LockInv, Critical, TypeOK, GoOn, net
  <1>4. ConnInv'
    BY DEF ConnInv, LockInv, RoleInv, Critical, TypeOK, Conn, GoOn, net
  <1>5. BudgetInv'
    <2>1. (Broken' => Broken) /\ (Behind' => Behind)
      BY DEF Broken, Behind, Lost, ConnInv, LockInv, RoleInv, Critical, NoLeak, TypeOK, GoOn, net
    <2> QED BY <2>1, BudgetKept DEF GoOn, net
  <1>6. NoLeak' /\ ClosedForGood'
    BY DEF NoLeak, ClosedForGood, ConnInv, LockInv, RoleInv, Critical, TypeOK, GoOn, net
  <1> QED BY <1>1, <1>2, <1>3, <1>4, <1>5, <1>6

LEMMA RedialStep ==
  ASSUME ClientInv, NEW p \in Process, Redial(p)
  PROVE  ClientInv'
  <1> USE DEF ClientInv
  <1>d. /\ pc[p] = "redial" /\ pc'[p] = "join" /\ conn = None /\ conn' = None
        /\ dialled \in Nat /\ dialled' = dialled + 1 /\ losses \in Nat /\ losses <= MaxLosses
        /\ \A q \in Process \ {p} : pc[q] \notin Critical /\ pc'[q] = pc[q]
    BY DEF LockInv, Critical, Redial, Dial, TypeOK, ConnInv, Conn
  <1>r. Broken /\ dialled + 1 <= 2 * losses + 1 /\ dialled + 1 \in Conn
    <2>1. Broken
      BY <1>d DEF Broken
    <2> QED BY <1>d, <2>1 DEF BudgetInv, Owed, Conn
  <1>u. /\ fresh' = [fresh EXCEPT ![p] = dialled + 1] /\ link' = [link EXCEPT ![dialled + 1] = "up"]
        /\ UNCHANGED <<first, losses, mu, closed, reading, panicked>>
    BY DEF Redial, Dial
  <1>1. TypeOK'
    BY <1>d, <1>r, <1>u DEF TypeOK, Redial
  <1>2. LockInv'
    BY DEF LockInv, Critical, TypeOK, Redial, Dial
  <1>3. RoleInv'
    BY DEF RoleInv, LockInv, Critical, TypeOK, Redial, Dial
  <1>4. ConnInv'
    <2>1. link'[dialled + 1] = "up" /\ fresh'[p] = dialled + 1 /\ reading # dialled + 1
      BY <1>d, <1>r, <1>u DEF TypeOK, ConnInv, Conn
    <2>2. \A n \in Conn : link'[n] = "none" <=> n > dialled'
      BY <1>d, <1>r, <1>u DEF TypeOK, ConnInv, Conn
    <2>3. \A q \in Process \ {p} : fresh'[q] = None /\ pc'[q] \notin Critical
      BY <1>d, <1>u DEF TypeOK, ConnInv, Critical
    <2>4. conn' <= dialled' /\ reading' <= dialled'
      BY <1>d, <1>u DEF ConnInv, TypeOK, Conn
    <2> QED BY <1>d, <1>u, <2>1, <2>2, <2>3, <2>4 DEF ConnInv, Critical
  <1>5. BudgetInv'
    <2>1. link'[fresh'[p]] = "up"
      BY <1>r, <1>u DEF TypeOK
    <2>2. ~Lost' /\ ~Broken'
      BY <1>d, <2>1 DEF Lost, Broken, Critical
    <2>3. Behind' => Behind
      <3>1. pc'[Receiver] = "reading" => link'[reading'] = link[reading]
        BY <1>d, <1>r, <1>u DEF ConnInv, TypeOK, Conn
      <3> QED BY <1>d, <1>u, <2>2, <3>1 DEF Behind, Critical
    <2> QED BY <1>d, <1>u, <1>r, <2>2, <2>3 DEF BudgetInv, Owed
  <1>6. NoLeak' /\ ClosedForGood'
    BY DEF NoLeak, ClosedForGood, ConnInv, LockInv, RoleInv, Critical, TypeOK, Redial, Dial
  <1> QED BY <1>1, <1>2, <1>3, <1>4, <1>5, <1>6

LEMMA RedialFailsStep ==
  ASSUME ClientInv, NEW p \in Process, RedialFails(p)
  PROVE  ClientInv'
  <1> USE DEF ClientInv
  <1>1. TypeOK'
    BY DEF TypeOK, RedialFails, net
  <1>2. LockInv'
    BY DEF LockInv, Critical, TypeOK, RedialFails, net
  <1>3. RoleInv'
    BY DEF RoleInv, LockInv, Critical, TypeOK, RedialFails, net
  <1>4. ConnInv'
    BY DEF ConnInv, LockInv, RoleInv, Critical, TypeOK, Conn, RedialFails, net
  <1>5. BudgetInv'
    <2>1. (Broken' => Broken) /\ (Behind' => Behind)
      BY DEF Broken, Behind, Lost, ConnInv, LockInv, RoleInv, Critical, NoLeak, TypeOK, RedialFails, net
    <2> QED BY <2>1, BudgetKept DEF RedialFails, net
  <1>6. NoLeak' /\ ClosedForGood'
    BY DEF NoLeak, ClosedForGood, ConnInv, LockInv, RoleInv, Critical, TypeOK, RedialFails, net
  <1> QED BY <1>1, <1>2, <1>3, <1>4, <1>5, <1>6

LEMMA RejoinStep ==
  ASSUME ClientInv, NEW p \in Process, Rejoin(p)
  PROVE  ClientInv'
  <1> USE DEF ClientInv
  <1>1. TypeOK'
    BY DEF TypeOK, Rejoin, Install, Written
  <1>2. LockInv'
    BY DEF LockInv, Critical, TypeOK, Rejoin, Install, Written
  <1>3. RoleInv'
    BY DEF RoleInv, LockInv, Critical, TypeOK, Rejoin, Install, Written
  <1>4. ConnInv'
    BY DEF ConnInv, LockInv, RoleInv, Critical, TypeOK, Conn, Rejoin, Install, Written
  <1>5. BudgetInv'
    <2>1. (Broken' => Broken) /\ (Behind' => Behind)
      BY DEF Broken, Behind, Lost, ConnInv, LockInv, RoleInv, Critical, NoLeak, TypeOK, Rejoin, Install, Written
    <2> QED BY <2>1, BudgetKept DEF Rejoin, Install, Written
  <1>6. NoLeak' /\ ClosedForGood'
    BY DEF NoLeak, ClosedForGood, ConnInv, LockInv, RoleInv, Critical, TypeOK, Rejoin, Install, Written
  <1> QED BY <1>1, <1>2, <1>3, <1>4, <1>5, <1>6

LEMMA RejoinFailsStep ==
  ASSUME ClientInv, NEW p \in Process, RejoinFails(p)
  PROVE  ClientInv'
  <1> USE DEF ClientInv
  <1>1. TypeOK'
    BY DEF TypeOK, RejoinFails
  <1>2. LockInv'
    BY DEF LockInv, Critical, TypeOK, RejoinFails
  <1>3. RoleInv'
    BY DEF RoleInv, LockInv, Critical, TypeOK, RejoinFails
  <1>4. ConnInv'
    BY DEF ConnInv, LockInv, RoleInv, Critical, TypeOK, Conn, RejoinFails
  <1>5. BudgetInv'
    <2>1. (Broken' => Broken) /\ (Behind' => Behind)
      BY DEF Broken, Behind, Lost, ConnInv, LockInv, RoleInv, Critical, NoLeak, TypeOK, RejoinFails
    <2> QED BY <2>1, BudgetKept DEF RejoinFails
  <1>6. NoLeak' /\ ClosedForGood'
    BY DEF NoLeak, ClosedForGood, ConnInv, LockInv, RoleInv, Critical, TypeOK, RejoinFails
  <1> QED BY <1>1, <1>2, <1>3, <1>4, <1>5, <1>6

LEMMA NextClient == ClientInv /\ [Next]_vars => ClientInv'
  <1> SUFFICES ASSUME ClientInv, [Next]_vars PROVE ClientInv'
    OBVIOUS
  <1>1. CASE Lose \/ DialFirst \/ Ready \/ BeginClose \/ EndClose
    BY <1>1, LoseStep, DialFirstStep, ReadyStep, BeginCloseStep, EndCloseStep
  <1>2. ASSUME NEW p \in Sender, Send(p) PROVE ClientInv'
    BY <1>2, SendStep
  <1>3. ASSUME NEW p \in Writer, WriterStep(p) PROVE ClientInv'
    BY <1>3, LockStep, WriteStep, WriteNilStep DEF WriterStep
  <1>4. CASE RecvStep \/ ReadEnvelope \/ ReadFails \/ ReadDropped \/ RecvLock
    BY <1>4, BeginReadStep, ReadNilStep, ReadEnvelopeStep, ReadFailsStep, ReadDroppedStep,
       RecvLockStep DEF RecvStep
  <1>5. ASSUME NEW p \in Process, ReconnectStep(p) PROVE ClientInv'
    BY <1>5, DropConnStep, GiveUpStep, GoOnStep, RedialStep, RedialFailsStep, RejoinStep,
       RejoinFailsStep DEF ReconnectStep
  <1>6. CASE UNCHANGED vars
    BY <1>6 DEF vars, ClientInv, TypeOK, LockInv, RoleInv, ConnInv, BudgetInv, Owed, Broken,
       Behind, Lost, NoLeak, ClosedForGood
  <1> QED BY <1>1, <1>2, <1>3, <1>4, <1>5, <1>6 DEF Next

THEOREM ClientCorrect == Spec => []ClientInv
  <1>1. Init => ClientInv
    BY InitClient
  <1>2. ClientInv /\ [Next]_vars => ClientInv'
    BY NextClient
  <1> QED BY <1>1, <1>2, PTL DEF Spec

\* Types; in particular there are never more connections than Conn allows.
THEOREM TypeCorrect == Spec => []TypeOK
  <1>1. ClientInv => TypeOK
    BY DEF ClientInv
  <1> QED BY <1>1, ClientCorrect, PTL

\* However many goroutines fail on a connection at once (writeEnvelope, Recv), its
\* loss costs two redials at most.
THEOREM RedialsCorrect == Spec => []RedialsBounded
  <1>1. ClientInv => RedialsBounded
    <2> SUFFICES ASSUME ClientInv PROVE RedialsBounded
      OBVIOUS
    <2>1. Owed \in 0..2 /\ dialled \in Nat /\ losses \in Nat /\ dialled + Owed <= 2 * losses + 1
      BY DEF ClientInv, BudgetInv, Owed, TypeOK, Conn
    <2> QED BY <2>1 DEF RedialsBounded
  <1> QED BY <1>1, ClientCorrect, PTL

\* reconnectLocked and Close leave no connection open that c.conn does not name.
THEOREM NoLeakCorrect == Spec => []NoLeak
  <1>1. ClientInv => NoLeak
    BY DEF ClientInv
  <1> QED BY <1>1, ClientCorrect, PTL

\* After Close nothing is open, and no reconnect of another goroutine dials again.
THEOREM CloseCorrect == Spec => []ClosedForGood
  <1>1. ClientInv => ClosedForGood
    BY DEF ClientInv
  <1> QED BY <1>1, ClientCorrect, PTL

-----------------------------------------------------------------------------
(* The first frame of a connection.                                        *)

\* A connection that nothing has been written to is c.conn only until the main
\* goroutine has joined, and nobody else writes before that.
FirstInv ==
  /\ JoinFirst
  /\ conn # None /\ first[conn] = "none" => pc[Main] \in {"lock", "write", "drop"}

LEMMA FirstWritten ==
  ASSUME TypeOK, FirstInv, NEW n \in Conn, NEW kind, Written(n, kind),
         kind = "join" \/ first[n] = "join"
  PROVE  JoinFirst' /\ first'[n] = "join" /\ \A m \in Conn : first[m] # "none" => first'[m] # "none"
  BY DEF TypeOK, FirstInv, JoinFirst, Written

LEMMA FirstWrite ==
  ASSUME ClientInv, FirstInv, NEW p \in Writer, Write(p)
  PROVE  FirstInv'
  <1>1. /\ conn \in Conn /\ conn # None /\ conn' = conn /\ p \in Process
        /\ pc[p] \in {"write", "retry"} /\ \A q \in Process \ {p} : pc'[q] = pc[q]
    BY DEF ClientInv, TypeOK, Write
  <1>2. CASE UNCHANGED first /\ pc[p] = "write" /\ pc'[p] = "drop"
    BY <1>1, <1>2 DEF FirstInv, JoinFirst
  <1>3. CASE UNCHANGED first /\ pc[p] = "retry"
    BY <1>1, <1>3 DEF FirstInv, JoinFirst
  <1>4. CASE Written(conn, Kind(p))
    <2>1. Kind(p) = "join" \/ first[conn] = "join"
      <3>1. CASE p = Main
        BY <3>1 DEF Kind
      <3>2. CASE p # Main
        <4>1. pc[Main] \in {"paired", "closelock", "closed"}
          BY <1>1, <3>2 DEF ClientInv, RoleInv
        <4>2. first[conn] \notin {"none", "envelope"}
          BY <1>1, <4>1 DEF FirstInv, JoinFirst
        <4> QED BY <1>1, <4>2 DEF ClientInv, TypeOK
      <3> QED BY <3>1, <3>2
    <2> QED BY <1>1, <1>4, <2>1, FirstWritten DEF ClientInv, FirstInv
  <1> QED BY <1>1, <1>2, <1>3, <1>4 DEF Write, ClientInv, TypeOK

LEMMA FirstRejoin ==
  ASSUME ClientInv, FirstInv, NEW p \in Process, Rejoin(p)
  PROVE  FirstInv'
  <1>1. fresh[p] \in Conn /\ Written(fresh[p], "join") /\ conn' = fresh[p]
    BY DEF Rejoin, Install, ClientInv, ConnInv, TypeOK, Conn
  <1>2. JoinFirst' /\ first'[conn'] = "join"
    BY <1>1, FirstWritten DEF ClientInv
  <1> QED BY <1>2 DEF FirstInv

LEMMA NextFirst == ClientInv /\ FirstInv /\ [Next]_vars => FirstInv'
  <1> SUFFICES ASSUME ClientInv, FirstInv, [Next]_vars PROVE FirstInv'
    OBVIOUS
  <1>1. ASSUME NEW p \in Writer, WriterStep(p) PROVE FirstInv'
    <2>1. CASE Lock(p) \/ WriteNil(p)
      BY <2>1 DEF Lock, WriteNil, net, FirstInv, JoinFirst, ClientInv, TypeOK
    <2> QED BY <1>1, <2>1, FirstWrite DEF WriterStep
  <1>2. ASSUME NEW p \in Process, ReconnectStep(p) PROVE FirstInv'
    <2>1. CASE DropConn(p)
      BY <2>1 DEF DropConn, FirstInv, JoinFirst
    <2>2. CASE GiveUp(p) \/ GoOn(p) \/ Redial(p) \/ RedialFails(p) \/ RejoinFails(p)
      <3>1. conn = None /\ conn' = conn /\ first' = first
        BY <2>2 DEF GiveUp, GoOn, Redial, RedialFails, RejoinFails, Dial, net, ClientInv, ConnInv
      <3> QED BY <3>1 DEF FirstInv, JoinFirst
    <2> QED BY <1>2, <2>1, <2>2, FirstRejoin DEF ReconnectStep
  <1>3. CASE DialFirst
    BY <1>3 DEF DialFirst, FirstInv, JoinFirst, ClientInv, TypeOK, RoleInv, ConnInv
  <1>4. CASE Lose \/ Ready \/ BeginClose \/ EndClose
    BY <1>4 DEF Lose, Ready, BeginClose, EndClose, net, FirstInv, JoinFirst, ClientInv, TypeOK
  <1>5. ASSUME NEW p \in Sender, Send(p) PROVE FirstInv'
    BY <1>5 DEF Send, net, FirstInv, JoinFirst, ClientInv, TypeOK
  <1>6. CASE RecvStep \/ ReadEnvelope \/ ReadFails \/ ReadDropped \/ RecvLock
    BY <1>6 DEF RecvStep, BeginRead, ReadNil, ReadEnvelope, ReadFails, ReadDropped, EndRead, RecvLock,
                net, FirstInv, JoinFirst, ClientInv, TypeOK
  <1>7. CASE UNCHANGED vars
    BY <1>7 DEF vars, FirstInv, JoinFirst
  <1> QED BY <1>1, <1>2, <1>3, <1>4, <1>5, <1>6, <1>7 DEF Next

\* DialWithLogger and reconnectLocked: a connection begins with a join, although any
\* goroutine may be the first to write to the one that replaces it.
THEOREM JoinCorrect == Spec => []JoinFirst
  <1>1. Init => FirstInv
    BY DEF Init, FirstInv, JoinFirst
  <1>2. ClientInv /\ FirstInv /\ [Next]_vars => FirstInv'
    BY NextFirst
  <1>3. FirstInv => JoinFirst
    BY DEF FirstInv
  <1> QED BY <1>1, <1>2, <1>3, InitClient, NextClient, PTL DEF Spec

-----------------------------------------------------------------------------
(* writeMu is let go of.                                                   *)

\* Whoever holds writeMu is at a step that waits for nothing but the network: there
\* is a connection to write to a second time, a number left for the one it dials,
\* and the one it has dialled is still there to be joined or found lost.
HolderMoves ==
  mu # None =>
    \/ pc[mu] = "write" /\ mu \in Writer
    \/ pc[mu] = "retry" /\ mu \in Writer /\ conn # None /\ link[conn] \in {"up", "lost", "closed"}
    \/ pc[mu] \in {"drop", "check"}
    \/ pc[mu] = "redial" /\ dialled + 1 \in Conn
    \/ pc[mu] = "join" /\ link[fresh[mu]] \in {"up", "lost"}

\* The steps that a holder can still take once the client is closed.
StepsLeft(at) == IF at \in {"write", "redial"} THEN 3 ELSE IF at \in {"drop", "join"} THEN 2 ELSE 1

\* After Close has begun, each step of the holder brings the release of writeMu nearer.
ReleaseNears ==
  \A p \in Process :
    closed /\ mu = p /\ pc'[p] # pc[p]
      => mu' = None \/ (mu' = p /\ StepsLeft(pc'[p]) < StepsLeft(pc[p]))

RetryInv == \A p \in Process : pc[p] = "retry" => conn # None

LEMMA NextRetry == ClientInv /\ RetryInv /\ [Next]_vars => RetryInv'
  <1> SUFFICES ASSUME ClientInv, RetryInv, [Next]_vars, NEW p \in Process, pc'[p] = "retry"
               PROVE  conn' # None
    BY DEF RetryInv
  <1> USE DEF ClientInv
  <1>1. ASSUME UNCHANGED conn, pc[p] = "retry" PROVE conn' # None
    BY <1>1 DEF RetryInv
  <1>2. CASE UNCHANGED vars
    BY <1>1, <1>2 DEF vars
  <1>3. CASE Lose \/ Ready \/ BeginClose \/ EndClose
    BY <1>1, <1>3 DEF Lose, Ready, BeginClose, EndClose, TypeOK
  <1>4. CASE DialFirst
    <2>1. dialled = 0 /\ pc[p] = "retry"
      BY <1>4 DEF DialFirst, RoleInv, TypeOK
    <2>2. conn' = conn \/ conn' = dialled + 1
      BY <1>4 DEF DialFirst, Dial
    <2> QED BY <1>1, <2>1, <2>2
  <1>5. ASSUME NEW q \in Sender, Send(q) PROVE conn' # None
    BY <1>1, <1>5 DEF Send, TypeOK
  <1>6. ASSUME NEW q \in Writer, WriterStep(q) PROVE conn' # None
    BY <1>1, <1>6 DEF WriterStep, Lock, Write, WriteNil, TypeOK, Returned
  <1>7. CASE RecvStep \/ ReadEnvelope \/ ReadFails \/ ReadDropped \/ RecvLock
    BY <1>1, <1>7 DEF RecvStep, BeginRead, ReadNil, ReadEnvelope, ReadFails, ReadDropped, EndRead,
                      RecvLock, TypeOK
  <1>8. ASSUME NEW q \in Process, ReconnectStep(q) PROVE conn' # None
    <2>1. CASE DropConn(q)
      <3>1. (mu = q /\ pc'[q] = "check" /\ pc'[p] = pc[p]) \/ p = q
        BY <2>1 DEF DropConn, LockInv, Critical, TypeOK
      <3>2. pc'[q] = "check"
        BY <2>1 DEF DropConn, TypeOK
      <3>3. p # q /\ pc[p] = "retry" /\ mu = q
        BY <2>1, <3>1, <3>2 DEF DropConn, TypeOK, LockInv, Critical
      <3> QED BY <3>3 DEF LockInv, Critical
    <2>2. CASE GiveUp(q) \/ GoOn(q) \/ Redial(q) \/ RedialFails(q) \/ RejoinFails(q)
      BY <1>1, <2>2 DEF GiveUp, GoOn, Redial, Dial, RedialFails, RejoinFails, TypeOK, Returned
    <2>3. CASE Rejoin(q)
      BY <2>3 DEF Rejoin, Install, ConnInv, TypeOK, Conn
    <2> QED BY <1>8, <2>1, <2>2, <2>3 DEF ReconnectStep
  <1> QED BY <1>2, <1>3, <1>4, <1>5, <1>6, <1>7, <1>8 DEF Next

LEMMA HolderFacts == ClientInv /\ RetryInv => HolderMoves
  <1> SUFFICES ASSUME ClientInv, RetryInv, mu # None PROVE HolderMoves
    BY DEF HolderMoves
  <1> USE DEF ClientInv
  <1>1. mu \in Process /\ pc[mu] \in Critical
    BY DEF LockInv, TypeOK
  <1>2. pc[mu] \in {"write", "retry"} => mu \in Writer
    BY <1>1 DEF RoleInv, Process
  <1>3. CASE pc[mu] = "retry"
    <2>1. conn # None /\ conn \in Conn /\ conn <= dialled
      BY <1>1, <1>3 DEF RetryInv, ConnInv, TypeOK
    <2>2. link[conn] # "none"
      BY <2>1 DEF ConnInv, TypeOK, Conn
    <2> QED BY <1>2, <1>3, <2>1, <2>2 DEF HolderMoves, TypeOK
  <1>4. CASE pc[mu] = "redial"
    <2>1. Broken
      BY <1>1, <1>4 DEF Broken
    <2>2. dialled + 1 \in Conn
      BY <2>1 DEF BudgetInv, Owed, TypeOK, Conn
    <2> QED BY <1>4, <2>2 DEF HolderMoves
  <1>5. CASE pc[mu] = "join"
    BY <1>1, <1>5 DEF HolderMoves, ConnInv
  <1> QED BY <1>1, <1>2, <1>3, <1>4, <1>5 DEF HolderMoves, Critical

LEMMA ReleaseStep == ClientInv /\ [Next]_vars => ReleaseNears
  <1> SUFFICES ASSUME ClientInv, [Next]_vars PROVE ReleaseNears
    OBVIOUS
  <1> SUFFICES ASSUME NEW p \in Process, closed, mu = p, pc'[p] # pc[p]
               PROVE  mu' = None \/ (mu' = p /\ StepsLeft(pc'[p]) < StepsLeft(pc[p]))
    BY Zenon DEF ReleaseNears
  <1> USE DEF ClientInv
  <1>1. /\ pc[p] \in Critical /\ mu # None /\ \A q \in Process : q # p => pc[q] \notin Critical
        /\ pc[Main] \in {"closelock", "closed"} /\ p # Main
    BY DEF LockInv, RoleInv, Critical
  <1>2. ASSUME NEW q \in Process, q # p,  \A r \in Process \ {q} : pc'[r] = pc[r]
        PROVE  FALSE
    BY <1>2
  <1>3. CASE Lose \/ DialFirst \/ Ready \/ BeginClose \/ EndClose
    BY <1>1, <1>2, <1>3 DEF Lose, DialFirst, Ready, BeginClose, EndClose, TypeOK
  <1>4. ASSUME NEW q \in Sender, Send(q) PROVE FALSE
    BY <1>1, <1>2, <1>4 DEF Send, TypeOK, Critical
  <1>5. ASSUME NEW q \in Writer, WriterStep(q)
        PROVE  mu' = None \/ (mu' = p /\ StepsLeft(pc'[p]) < StepsLeft(pc[p]))
    <2>1. CASE Write(q)
      <3>1. q = p
        BY <1>1, <2>1 DEF Write, Critical
      <3>2. mu' = None \/ (mu' = mu /\ pc[p] = "write" /\ pc'[p] = "drop")
        BY <2>1, <3>1 DEF Write, TypeOK
      <3> QED BY <3>2 DEF StepsLeft
    <2> QED BY <1>1, <1>5, <2>1 DEF WriterStep, Lock, WriteNil
  <1>6. CASE RecvStep \/ ReadEnvelope \/ ReadFails \/ ReadDropped \/ RecvLock
    <2>1. pc[Receiver] \in {"read", "reading", "recvlock"} /\ \A r \in Process \ {Receiver} : pc'[r] = pc[r]
      BY <1>6 DEF RecvStep, BeginRead, ReadNil, ReadEnvelope, ReadFails, ReadDropped, EndRead,
                  RecvLock, TypeOK
    <2> QED BY <1>1, <1>2, <2>1 DEF Critical
  <1>7. ASSUME NEW q \in Process, ReconnectStep(q)
        PROVE  mu' = None \/ (mu' = p /\ StepsLeft(pc'[p]) < StepsLeft(pc[p]))
    <2>1. q = p
      BY <1>1, <1>7 DEF ReconnectStep, DropConn, GiveUp, GoOn, Redial, RedialFails, Rejoin, RejoinFails,
                        Critical
    <2>2. CASE DropConn(p) \/ GiveUp(p) \/ GoOn(p)
      <3>1. mu' = None \/ (mu' = mu /\ pc[p] = "drop" /\ pc'[p] = "check")
        BY <2>2 DEF DropConn, GiveUp, GoOn, TypeOK
      <3> QED BY <3>1 DEF StepsLeft
    <2>3. CASE Redial(p) \/ RedialFails(p) \/ RejoinFails(p)
      <3>1. /\ mu' = mu
            /\ (pc[p] = "redial" /\ pc'[p] \in {"join", "check"}) \/ (pc[p] = "join" /\ pc'[p] = "check")
        BY <2>3 DEF Redial, RedialFails, RejoinFails, TypeOK
      <3> QED BY <3>1 DEF StepsLeft
    <2>4. CASE Rejoin(p)
      BY <2>4 DEF Rejoin, Install, StepsLeft, TypeOK
    <2> QED BY <1>7, <2>1, <2>2, <2>3, <2>4 DEF ReconnectStep
  <1>8. CASE UNCHANGED vars
    BY <1>8 DEF vars
  <1> QED BY <1>3, <1>4, <1>5, <1>6, <1>7, <1>8 DEF Next

\* No goroutine can be stuck with writeMu, and leave Close and the senders waiting:
\* writeEnvelope and reconnectLocked never wait for what another goroutine holds.
THEOREM HolderCorrect == Spec => []HolderMoves
  <1>1. Init => RetryInv
    BY DEF Init, RetryInv
  <1> QED BY <1>1, InitClient, NextClient, NextRetry, HolderFacts, PTL DEF Spec

\* Once Close has closed c.closed, whoever holds writeMu lets go of it within three
\* steps of its own, without dialling round after round.
THEOREM ReleaseCorrect == Spec => [][ReleaseNears]_vars
  <1>1. ClientInv /\ [Next]_vars => [ReleaseNears]_vars
    BY ReleaseStep
  <1> QED BY <1>1, InitClient, NextClient, PTL DEF Spec

=============================================================================
