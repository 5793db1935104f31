-------------------------- MODULE SignalHubProofs --------------------------
(***************************************************************************)
(* Proofs about the signaling hub, for every set of connections and rooms  *)
(* and every number of envelopes.  Four layers, each inductive relative to *)
(* the ones before it: types and addressees, slots, routing, announcements;*)
(* and that the handler of a connection that is gone winds down.           *)
(***************************************************************************)
EXTENDS SignalHub, TLAPS

\* What handle(c) knows at each control point: the room and role it joined,
\* and whom its "ready" frames are for.
Addressed ==
  \A c \in Conn :
    /\ pc[c] \in {"idle", "join"} => role[c] = "none"
    /\ pc[c] \in Serving \cup {"panicked"} => room[c] \in Room /\ role[c] \in Role
    /\ pc[c] \in {"readyPeer", "readyPeerW"} => peer[c] \in Conn /\ target[c] = peer[c]
    /\ pc[c] \in {"readySelf", "readySelfW"} => peer[c] \in Conn /\ target[c] = c

TypeInv == TypeOK /\ Addressed

LEMMA InitType == Init => TypeInv
  BY NoneAssumption, MaxSendAssumption
  DEF Init, TypeInv, TypeOK, Addressed, Role, PC, WS, Serving, Ready2Write, Writing

LEMMA OutgoingType ==
  ASSUME TypeInv, NEW c \in Conn, pc[c] \in Writing
  PROVE  Outgoing(c) \in Frame
  BY MaxSendAssumption DEF TypeInv, TypeOK, Addressed, Outgoing, Frame, ReadyFrame, Envelope, Writing

LEMMA NextType == TypeInv /\ [Next]_vars => TypeInv'
  <1> SUFFICES ASSUME TypeInv, [Next]_vars PROVE TypeInv'
    OBVIOUS
  <1> USE NoneAssumption, MaxSendAssumption
      DEF TypeInv, TypeOK, Addressed, PC, WS, Serving, Ready2Write, Writing, Role
  <1>1. ASSUME NEW c \in Conn, Connect(c) PROVE TypeInv'
    BY <1>1 DEF Connect
  <1>2. ASSUME NEW c \in Conn, BadFirstFrame(c) PROVE TypeInv'
    <2>1. ErrorFrame(c) \in Frame
      BY DEF ErrorFrame, Frame
    <2> QED BY <1>2, <2>1 DEF BadFirstFrame
  <1>3. ASSUME NEW c \in Conn, NEW r \in Room, JoinRefused(c, r) PROVE TypeInv'
    <2>1. ErrorFrame(c) \in Frame
      BY DEF ErrorFrame, Frame
    <2> QED BY <1>3, <2>1 DEF JoinRefused
  <1>4. ASSUME NEW c \in Conn, NEW r \in Room, NEW k \in Role, Join(c, r, k) PROVE TypeInv'
    <2>1. slot[r][k] \in Conn \cup {None} /\ slot[r][Other(k)] \in Conn \cup {None}
      BY DEF Other
    <2>2. slot' \in [Room -> [Role -> Conn \cup {None}]]
      BY <1>4 DEF Join, Pair
    <2>3. TypeOK'
      BY <1>4, <2>1, <2>2 DEF Join, Pair
    <2>4. Addressed'
      BY <1>4, <2>1 DEF Join, Pair
    <2> QED BY <2>3, <2>4
  <1>5. ASSUME NEW c \in Conn, PumpRead(c) PROVE TypeInv'
    BY <1>5 DEF PumpRead
  <1>6. ASSUME NEW c \in Conn, Lose(c) PROVE TypeInv'
    BY <1>6 DEF Lose
  <1>7. ASSUME NEW c \in Conn, BeginWrite(c) PROVE TypeInv'
    BY <1>7 DEF BeginWrite
  <1>8. ASSUME NEW c \in Conn, WriteDelivered(c) PROVE TypeInv'
    <2>1. target[c] \in Conn /\ Outgoing(c) \in Frame
      BY <1>8, OutgoingType DEF WriteDelivered
    <2>2. inbox' \in [Conn -> Seq(Frame)]
      BY <1>8, <2>1 DEF WriteDelivered
    <2> QED BY <1>8, <2>2 DEF WriteDelivered, AfterWrite
  <1>9. ASSUME NEW c \in Conn, WriteVanished(c) \/ ReadyWriteFails(c) PROVE TypeInv'
    <2>1. /\ pc[c] \in Writing
          /\ AfterWrite(c)
          /\ UNCHANGED <<ws, rooms, slot, room, role, peer, nread, inbox>>
      BY <1>9 DEF WriteVanished, ReadyWriteFails
    <2> QED BY <2>1 DEF AfterWrite
  <1>10. ASSUME NEW c \in Conn, ForwardFails(c) PROVE TypeInv'
    BY <1>10 DEF ForwardFails
  <1>11. ASSUME NEW c \in Conn, WritePanics(c) PROVE TypeInv'
    BY <1>11 DEF WritePanics
  <1>12. ASSUME NEW c \in Conn, PumpReadFails(c) PROVE TypeInv'
    BY <1>12 DEF PumpReadFails
  <1>13. ASSUME NEW c \in Conn, LookupNone(c) PROVE TypeInv'
    BY <1>13 DEF LookupNone
  <1>14. ASSUME NEW c \in Conn, Lookup(c) PROVE TypeInv'
    <2>1. Counterpart(c) \in Conn
      BY <1>14 DEF Lookup, Counterpart, Other
    <2> QED BY <1>14, <2>1 DEF Lookup
  <1>15. ASSUME NEW c \in Conn, Drop(c) PROVE TypeInv'
    <2>1. slot' \in [Room -> [Role -> Conn \cup {None}]]
      BY <1>15 DEF Drop, Vacate
    <2> QED BY <1>15, <2>1 DEF Drop
  <1>16. CASE UNCHANGED vars
    BY <1>16 DEF vars
  <1> HIDE DEF TypeInv
  <1> QED
    BY <1>1, <1>2, <1>3, <1>4, <1>5, <1>6, <1>7, <1>8, <1>9, <1>10, <1>11, <1>12,
       <1>13, <1>14, <1>15, <1>16 DEF Next, Handler

\* Every state of the hub is well typed and every write has a WebSocket to go
\* to: pump's nil test and handle's peer test cover all the writes there are.
THEOREM TypeCorrect == Spec => []TypeOK
  <1>1. Spec => []TypeInv
    BY InitType, NextType, PTL DEF Spec
  <1>2. TypeInv => TypeOK
    BY DEF TypeInv
  <1> QED BY <1>1, <1>2, PTL

-----------------------------------------------------------------------------
(* Slots.                                                                  *)

SlotInv == LiveHoldsSlot /\ SlotIsServed

\* The steps that leave slots and join frames alone: handlers move between
\* control points of Serving, or panic, and no closed WebSocket reopens.
QuietStep ==
  /\ UNCHANGED <<rooms, slot, room, role, peer>>
  /\ \A d \in Conn :
       /\ pc[d] \in Serving \cup {"panicked"} <=> pc'[d] \in Serving \cup {"panicked"}
       /\ pc'[d] \in Serving /\ ws'[d] # "closed" => pc[d] \in Serving /\ ws[d] # "closed"
       /\ pc[d] = "refused" => pc'[d] = "refused"

LEMMA HandlerIsQuiet ==
  ASSUME TypeInv, NEW c \in Conn,
         Connect(c) \/ BadFirstFrame(c) \/ PumpRead(c) \/ Lose(c) \/ (Handler(c) /\ ~Drop(c))
  PROVE  QuietStep
  <1> USE NoneAssumption DEF TypeInv, TypeOK, Addressed, QuietStep, PC, WS, Serving, Ready2Write, Writing
  <1>1. CASE Connect(c)
    BY <1>1 DEF Connect
  <1>2. CASE BadFirstFrame(c)
    BY <1>2 DEF BadFirstFrame
  <1>3. CASE PumpRead(c)
    BY <1>3 DEF PumpRead
  <1>4. CASE Lose(c)
    BY <1>4 DEF Lose
  <1>5. CASE BeginWrite(c)
    BY <1>5 DEF BeginWrite
  <1>6. CASE WriteDelivered(c)
    BY <1>6 DEF WriteDelivered, AfterWrite
  <1>7. CASE WriteVanished(c)
    BY <1>7 DEF WriteVanished, AfterWrite
  <1>8. CASE ReadyWriteFails(c)
    BY <1>8 DEF ReadyWriteFails, AfterWrite
  <1>9. CASE ForwardFails(c)
    BY <1>9 DEF ForwardFails
  <1>10. CASE WritePanics(c)
    BY <1>10 DEF WritePanics
  <1>11. CASE PumpReadFails(c)
    BY <1>11 DEF PumpReadFails
  <1>12. CASE LookupNone(c)
    BY <1>12 DEF LookupNone
  <1>13. CASE Lookup(c)
    BY <1>13 DEF Lookup
  <1> QED
    BY <1>1, <1>2, <1>3, <1>4, <1>5, <1>6, <1>7, <1>8, <1>9, <1>10, <1>11, <1>12, <1>13
    DEF Handler

\* Next, with the steps that leave slots alone under one name.
LEMMA NextCases ==
  ASSUME TypeInv, [Next]_vars
  PROVE  \/ QuietStep
         \/ \E c \in Conn : Drop(c)
         \/ \E c \in Conn, r \in Room : JoinRefused(c, r)
         \/ \E c \in Conn, r \in Room, k \in Role : Join(c, r, k)
  <1>1. CASE UNCHANGED vars
    BY <1>1 DEF vars, QuietStep
  <1>2. CASE Next
    <2>1. PICK c \in Conn :
            \/ Connect(c) \/ BadFirstFrame(c) \/ PumpRead(c) \/ Lose(c) \/ Handler(c)
            \/ \E r \in Room : JoinRefused(c, r) \/ \E k \in Role : Join(c, r, k)
      BY <1>2 DEF Next
    <2> QED BY <2>1, HandlerIsQuiet
  <1> QED BY <1>1, <1>2

LEMMA InitSlot == Init => SlotInv
  BY NoneAssumption DEF Init, SlotInv, LiveHoldsSlot, SlotIsServed, Serving, Ready2Write, Writing, Role

LEMMA NextSlot == TypeInv /\ SlotInv /\ [Next]_vars => SlotInv'
  <1> SUFFICES ASSUME TypeInv, SlotInv, [Next]_vars PROVE SlotInv'
    OBVIOUS
  <1> USE NoneAssumption DEF TypeInv, TypeOK, Addressed, SlotInv, LiveHoldsSlot, SlotIsServed
  <1>1. CASE QuietStep
    BY <1>1 DEF QuietStep
  <1>2. ASSUME NEW c \in Conn, Drop(c) PROVE SlotInv'
    <2>1. pc[c] = "drop" /\ pc' = [pc EXCEPT ![c] = "done"] /\ UNCHANGED <<ws, room, role>>
      BY <1>2 DEF Drop
    <2>2. room[c] \in Room /\ role[c] \in Role /\ pc[c] \in Serving /\ pc'[c] \notin Serving
      BY <2>1 DEF Serving, Ready2Write, Writing
    <2>3. \A r \in Room, k \in Role :
            slot'[r][k] = IF slot[r][k] = c THEN None ELSE slot[r][k]
      BY <1>2, <2>2 DEF Drop, Vacate
    <2>4. \A r \in rooms : r \in rooms' \/ \A k \in Role : slot'[r][k] = None
      BY <1>2 DEF Drop
    <2>5. LiveHoldsSlot'
      BY <2>1, <2>2, <2>3, <2>4
    <2>6. SlotIsServed'
      BY <2>1, <2>2, <2>3, <2>4
    <2> QED BY <2>5, <2>6
  <1>3. ASSUME NEW c \in Conn, NEW r \in Room, JoinRefused(c, r) PROVE SlotInv'
    BY <1>3 DEF JoinRefused, Serving, Ready2Write, Writing
  <1>4. ASSUME NEW c \in Conn, NEW r \in Room, NEW k \in Role, Join(c, r, k) PROVE SlotInv'
    <2>1. /\ pc[c] = "join" /\ pc'[c] \in {"pump", "readyPeer"}
          /\ \A d \in Conn \ {c} : pc'[d] = pc[d] /\ room'[d] = room[d] /\ role'[d] = role[d]
          /\ room'[c] = r /\ role'[c] = k /\ rooms' = rooms \cup {r}
          /\ \A d \in Conn : ws'[d] = IF d = slot[r][k] THEN "closed" ELSE ws[d]
      BY <1>4 DEF Join, Pair
    <2>2. \A q \in Room, j \in Role : slot'[q][j] = IF q = r /\ j = k THEN c ELSE slot[q][j]
      BY <1>4 DEF Join, Pair
    <2>3. \A q \in Room, j \in Role : slot[q][j] # c
      <3>1. pc[c] \notin Serving \cup {"panicked"} /\ c # None
        BY <2>1 DEF Serving, Ready2Write, Writing
      <3> QED BY <3>1
    <2>4. pc'[c] \in Serving
      BY <2>1 DEF Serving, Ready2Write, Writing
    <2>5. ASSUME NEW d \in Conn, pc'[d] \in Serving, ws'[d] # "closed"
          PROVE  room'[d] \in rooms' /\ slot'[room'[d]][role'[d]] = d
      <3>1. CASE d = c
        BY <3>1, <2>1, <2>2
      <3>2. CASE d # c
        <4>1. pc[d] \in Serving /\ ws[d] # "closed" /\ d # slot[r][k]
          BY <3>2, <2>1, <2>5
        <4>2. room[d] \in rooms /\ room[d] \in Room /\ role[d] \in Role /\ slot[room[d]][role[d]] = d
          BY <4>1
        <4> QED BY <3>2, <4>1, <4>2, <2>1, <2>2
      <3> QED BY <3>1, <3>2
    <2>6. SlotIsServed'
      BY <2>1, <2>2, <2>3, <2>4
    <2>7. LiveHoldsSlot'
      BY <2>5
    <2> QED BY <2>6, <2>7
  <1> QED
    BY <1>1, <1>2, <1>3, <1>4, NextCases

LEMMA SlotsAlways == Spec => []SlotInv
  BY InitType, NextType, InitSlot, NextSlot, PTL DEF Spec

\* handle and drop: a live connection keeps its slot through any number of
\* takeovers: it is never evicted by the drop of the one it displaced.
THEOREM SlotsCorrect == Spec => []LiveHoldsSlot
  <1>1. SlotInv => LiveHoldsSlot
    BY DEF SlotInv
  <1> QED BY <1>1, SlotsAlways, PTL

\* handle and drop: no slot outlives the handler of the connection in it.
THEOREM ServedCorrect == Spec => []SlotIsServed
  <1>1. SlotInv => SlotIsServed
    BY DEF SlotInv
  <1> QED BY <1>1, SlotsAlways, PTL

LEMMA NextRooms == TypeInv /\ SlotInv /\ RoomsReclaimed /\ [Next]_vars => RoomsReclaimed'
  <1> SUFFICES ASSUME TypeInv, SlotInv, RoomsReclaimed, [Next]_vars PROVE RoomsReclaimed'
    OBVIOUS
  <1> USE NoneAssumption DEF TypeInv, TypeOK, RoomsReclaimed
  <1>1. CASE QuietStep
    BY <1>1 DEF QuietStep
  <1>2. ASSUME NEW c \in Conn, Drop(c) PROVE RoomsReclaimed'
    <2>1. pc[c] = "drop" /\ pc' = [pc EXCEPT ![c] = "done"] /\ UNCHANGED room
      BY <1>2 DEF Drop
    <2>2. room[c] \in Room /\ role[c] \in Role
      BY <2>1 DEF Addressed, Serving
    <2>3. \A r \in Room : r # room[c] => \A k \in Role : slot'[r][k] = slot[r][k]
      BY <1>2, <2>2 DEF Drop, Vacate
    <2>4. rooms' \subseteq rooms /\ (room[c] \in rooms' => ~ \A k \in Role : slot'[room[c]][k] = None)
      BY <1>2 DEF Drop
    <2> SUFFICES ASSUME NEW q \in rooms', \A k \in Role : slot'[q][k] = None
                 PROVE  \E d \in Conn : pc'[d] = "refused" /\ room'[d] = q
      OBVIOUS
    <2>5. q \in rooms /\ q # room[c] /\ \A k \in Role : slot[q][k] = None
      BY <2>3, <2>4
    <2>6. PICK d \in Conn : pc[d] = "refused" /\ room[d] = q
      BY <2>5
    <2> QED BY <2>1, <2>6
  <1>3. ASSUME NEW c \in Conn, NEW r \in Room, JoinRefused(c, r) PROVE RoomsReclaimed'
    BY <1>3 DEF JoinRefused
  <1>4. ASSUME NEW c \in Conn, NEW r \in Room, NEW k \in Role, Join(c, r, k) PROVE RoomsReclaimed'
    <2>1. /\ pc[c] = "join" /\ rooms' = rooms \cup {r}
          /\ \A d \in Conn \ {c} : pc'[d] = pc[d] /\ room'[d] = room[d]
      BY <1>4 DEF Join, Pair
    <2>2. \A q \in Room, j \in Role : slot'[q][j] = IF q = r /\ j = k THEN c ELSE slot[q][j]
      BY <1>4 DEF Join, Pair
    <2> SUFFICES ASSUME NEW q \in rooms', \A j \in Role : slot'[q][j] = None
                 PROVE  \E d \in Conn : pc'[d] = "refused" /\ room'[d] = q
      OBVIOUS
    <2>3. q # r /\ q \in rooms /\ \A j \in Role : slot[q][j] = None
      <3>1. slot'[r][k] = c /\ c # None
        BY <2>2
      <3>2. q # r
        BY <3>1
      <3>3. q \in rooms /\ q \in Room
        BY <3>2, <2>1
      <3> QED BY <3>2, <3>3, <2>2
    <2>4. PICK d \in Conn : pc[d] = "refused" /\ room[d] = q
      BY <2>3
    <2> QED BY <2>1, <2>4
  <1> QED
    BY <1>1, <1>2, <1>3, <1>4, NextCases

\* hub.rooms holds only rooms in use and rooms that a refused join created:
\* no sequence of joins, takeovers and losses leaks another one.
THEOREM RoomsCorrect == Spec => []RoomsReclaimed
  <1>1. Init => RoomsReclaimed
    BY DEF Init, RoomsReclaimed
  <1> QED BY <1>1, InitType, NextType, InitSlot, NextSlot, NextRooms, PTL DEF Spec

-----------------------------------------------------------------------------
(* Routing.                                                                *)

Opposite(c, d) ==
  /\ room[c] \in Room /\ room[d] = room[c]
  /\ role[c] \in Role /\ role[d] = Other(role[c])

RouteInv ==
  /\ \A c \in Conn :
       pc[c] \in {"readyPeer", "readyPeerW", "readySelf", "readySelfW"} => Opposite(c, peer[c])
  /\ \A c \in Conn : pc[c] \in {"forward", "forwardW"} => Opposite(c, target[c])
  /\ \A c \in Conn : \A i \in 1..Len(inbox[c]) :
       inbox[c][i].kind # "error" => Opposite(inbox[c][i].from, c)

LEMMA OppositeSym ==
  ASSUME NEW c, NEW d, Opposite(c, d) PROVE Opposite(d, c)
  BY DEF Opposite, Other, Role

\* A join frame is read once: who is opposite to whom never changes.
LEMMA OppositeStable ==
  ASSUME TypeInv, [Next]_vars, NEW c \in Conn, NEW d \in Conn, Opposite(c, d)
  PROVE  Opposite(c, d)'
  <1>1. ASSUME NEW e \in Conn, role[e] \in Role
        PROVE  room'[e] = room[e] /\ role'[e] = role[e]
    <2>1. pc[e] # "join"
      BY <1>1 DEF TypeInv, Addressed, Role
    <2>2. CASE QuietStep
      BY <2>2 DEF QuietStep
    <2>3. ASSUME NEW x \in Conn, Drop(x) PROVE room'[e] = room[e] /\ role'[e] = role[e]
      BY <2>3 DEF Drop
    <2>4. ASSUME NEW x \in Conn, NEW r \in Room, JoinRefused(x, r)
          PROVE  room'[e] = room[e] /\ role'[e] = role[e]
      BY <2>1, <2>4 DEF JoinRefused, TypeInv, TypeOK
    <2>5. ASSUME NEW x \in Conn, NEW r \in Room, NEW k \in Role, Join(x, r, k)
          PROVE  room'[e] = room[e] /\ role'[e] = role[e]
      BY <2>1, <2>5 DEF Join, TypeInv, TypeOK
    <2> QED BY <2>2, <2>3, <2>4, <2>5, NextCases
  <1>2. role[c] \in Role /\ role[d] \in Role
    BY DEF Opposite, Other, Role
  <1> QED BY <1>1, <1>2 DEF Opposite

\* The steps that append to an inbox, and the others.
LEMMA InboxStep ==
  ASSUME TypeInv, [Next]_vars
  PROVE  \/ inbox' = inbox
         \/ \E c \in Conn : inbox' = [inbox EXCEPT ![c] = Append(@, ErrorFrame(c))]
         \/ \E c \in Conn : WriteDelivered(c)
  BY DEF Next, Handler, vars, Connect, BadFirstFrame, JoinRefused, Join, BeginWrite, WriteVanished,
         ReadyWriteFails, ForwardFails, WritePanics, PumpRead, PumpReadFails, LookupNone, Lookup,
         Drop, Lose

\* What a step may do to the handler and the WebSocket of one connection: only
\* Join finds it a peer, only Lookup a target, and a WebSocket never recovers.
Greeting == {"readyPeer", "readyPeerW", "readySelf", "readySelfW"}
Forwarding == {"forward", "forwardW"}
Moved(d) ==
  /\ ws'[d] = "open" => ws[d] = "open" \/ pc[d] = "idle"
  /\ pc'[d] \in Greeting => \/ pc[d] \in Greeting /\ peer'[d] = peer[d]
                            \/ \E r \in Room, k \in Role : Join(d, r, k)
  /\ pc'[d] \in Forwarding => \/ pc[d] \in Forwarding /\ target'[d] = target[d]
                              \/ Lookup(d)

LEMMA Moves ==
  ASSUME TypeInv, [Next]_vars, NEW d \in Conn
  PROVE  Moved(d)
  <1> USE DEF TypeInv, TypeOK, Moved, Greeting, Forwarding
  <1>1. ASSUME NEW c \in Conn, Connect(c) PROVE Moved(d)
    BY <1>1 DEF Connect
  <1>2. ASSUME NEW c \in Conn, BadFirstFrame(c) PROVE Moved(d)
    BY <1>2 DEF BadFirstFrame
  <1>3. ASSUME NEW c \in Conn, PumpRead(c) PROVE Moved(d)
    BY <1>3 DEF PumpRead
  <1>4. ASSUME NEW c \in Conn, Lose(c) PROVE Moved(d)
    <2>1. ws'[d] = "open" => ws[d] = "open"
      BY <1>4 DEF Lose
    <2>2. UNCHANGED <<pc, peer, target>>
      BY <1>4 DEF Lose
    <2> QED BY <2>1, <2>2
  <1>5. ASSUME NEW c \in Conn, BeginWrite(c) PROVE Moved(d)
    <2>1. ws'[d] = "open" => ws[d] = "open"
      BY <1>5 DEF BeginWrite
    <2>2. UNCHANGED <<peer, target>>
      BY <1>5 DEF BeginWrite
    <2>3. CASE d = c
      <3>1. pc'[d] = CASE pc[d] = "readyPeer" -> "readyPeerW"
                       [] pc[d] = "readySelf" -> "readySelfW"
                       [] OTHER               -> "forwardW"
        BY <1>5, <2>3 DEF BeginWrite
      <3>2. pc[d] = "readyPeer" => pc'[d] = "readyPeerW"
        BY <3>1
      <3>3. pc[d] = "readySelf" => pc'[d] = "readySelfW"
        BY <3>1
      <3>4. pc[d] \notin {"readyPeer", "readySelf"} => pc[d] = "forward" /\ pc'[d] = "forwardW"
        BY <1>5, <2>3, <3>1 DEF BeginWrite, Ready2Write
      <3> QED BY <2>1, <2>2, <3>2, <3>3, <3>4
    <2>4. CASE d # c
      <3>1. pc'[d] = pc[d]
        BY <1>5, <2>4 DEF BeginWrite
      <3> QED BY <2>1, <2>2, <3>1
    <2> QED BY <2>3, <2>4
  <1>6. ASSUME NEW c \in Conn, WriteDelivered(c) PROVE Moved(d)
    BY <1>6 DEF WriteDelivered, AfterWrite
  <1>7. ASSUME NEW c \in Conn, WriteVanished(c) PROVE Moved(d)
    BY <1>7 DEF WriteVanished, AfterWrite
  <1>8. ASSUME NEW c \in Conn, ReadyWriteFails(c) PROVE Moved(d)
    BY <1>8 DEF ReadyWriteFails, AfterWrite
  <1>9. ASSUME NEW c \in Conn, ForwardFails(c) PROVE Moved(d)
    BY <1>9 DEF ForwardFails
  <1>10. ASSUME NEW c \in Conn, WritePanics(c) PROVE Moved(d)
    BY <1>10 DEF WritePanics
  <1>11. ASSUME NEW c \in Conn, PumpReadFails(c) PROVE Moved(d)
    BY <1>11 DEF PumpReadFails
  <1>12. ASSUME NEW c \in Conn, LookupNone(c) PROVE Moved(d)
    BY <1>12 DEF LookupNone
  <1>13. ASSUME NEW c \in Conn, Lookup(c) PROVE Moved(d)
    BY <1>13 DEF Lookup
  <1>14. ASSUME NEW c \in Conn, Drop(c) PROVE Moved(d)
    BY <1>14 DEF Drop
  <1>15. ASSUME NEW c \in Conn, NEW r \in Room, JoinRefused(c, r) PROVE Moved(d)
    <2>1. ws'[d] = "open" => ws[d] = "open"
      BY <1>15 DEF JoinRefused
    <2>2. pc'[d] = pc[d] \/ pc'[d] = "refused"
      BY <1>15 DEF JoinRefused
    <2>3. UNCHANGED <<peer, target>> \/ pc'[d] = "refused"
      BY <1>15 DEF JoinRefused
    <2> QED BY <2>1, <2>2, <2>3
  <1>16. ASSUME NEW c \in Conn, NEW r \in Room, NEW k \in Role, Join(c, r, k) PROVE Moved(d)
    <2>1. CASE d = c
      <3>1. ws'[d] = "open" => ws[d] = "open"
        BY <1>16, <2>1 DEF Join, Pair
      <3>2. pc'[d] \notin Forwarding
        BY <1>16, <2>1 DEF Join, Pair
      <3> QED BY <1>16, <2>1, <3>1, <3>2
    <2>2. CASE d # c
      BY <1>16, <2>2 DEF Join, Pair
    <2> QED BY <2>1, <2>2
  <1>17. CASE UNCHANGED vars
    BY <1>17 DEF vars
  <1> HIDE DEF TypeInv, Moved
  <1> QED
    BY <1>1, <1>2, <1>3, <1>4, <1>5, <1>6, <1>7, <1>8, <1>9, <1>10, <1>11, <1>12,
       <1>13, <1>14, <1>15, <1>16, <1>17 DEF Next, Handler

LEMMA NextRoute == TypeInv /\ SlotInv /\ RouteInv /\ [Next]_vars => RouteInv'
  <1> SUFFICES ASSUME TypeInv, SlotInv, RouteInv, [Next]_vars PROVE RouteInv'
    OBVIOUS
  <1>t. TypeInv'
    BY NextType
  <1>1. ASSUME NEW c \in Conn, pc'[c] \in {"readyPeer", "readyPeerW", "readySelf", "readySelfW"}
        PROVE  Opposite(c, peer[c])' /\ peer'[c] \in Conn
    <2>1. peer'[c] \in Conn
      BY <1>1, <1>t DEF TypeInv, Addressed
    <2>2. CASE pc[c] \in {"readyPeer", "readyPeerW", "readySelf", "readySelfW"}
      <3>1. peer'[c] = peer[c]
        BY <1>1, <2>2, Moves DEF Moved, Greeting, Join
      <3>2. peer[c] \in Conn /\ Opposite(c, peer[c])
        BY <2>2 DEF TypeInv, Addressed, RouteInv
      <3> QED BY <3>1, <3>2, OppositeStable, <2>1 DEF Opposite
    <2>3. CASE pc[c] \notin {"readyPeer", "readyPeerW", "readySelf", "readySelfW"}
      <3>1. PICK r \in Room, k \in Role : Join(c, r, k)
        BY <1>1, <2>3, Moves DEF Moved, Greeting
      <3>2. /\ peer'[c] = slot[r][Other(k)] /\ room'[c] = r /\ role'[c] = k /\ Other(k) \in Role
            /\ \A d \in Conn \ {c} : room'[d] = room[d] /\ role'[d] = role[d]
            /\ pc[c] = "join"
        BY <3>1 DEF Join, Pair, TypeInv, TypeOK, Other, Role
      <3>3. /\ pc[peer'[c]] \in Serving \cup {"panicked"}
            /\ room[peer'[c]] = r /\ role[peer'[c]] = Other(k)
        BY <3>2, <2>1, NoneAssumption DEF SlotInv, SlotIsServed
      <3>4. peer'[c] # c
        BY <3>2, <3>3 DEF Serving, Ready2Write, Writing
      <3> QED BY <3>2, <3>3, <3>4, <2>1 DEF Opposite
    <2> QED BY <2>2, <2>3
  <1>2. ASSUME NEW c \in Conn, pc'[c] \in {"forward", "forwardW"}
        PROVE  Opposite(c, target[c])'
    <2>1. target'[c] \in Conn
      BY <1>2, <1>t DEF TypeInv, TypeOK, Ready2Write, Writing
    <2>2. CASE pc[c] \in {"forward", "forwardW"}
      <3>1. target'[c] = target[c]
        BY <1>2, <2>2, Moves DEF Moved, Forwarding, Lookup
      <3>2. Opposite(c, target[c])
        BY <2>2 DEF RouteInv
      <3> QED BY <3>1, <3>2, OppositeStable, <2>1 DEF Opposite
    <2>3. CASE pc[c] \notin {"forward", "forwardW"}
      <3>1. Lookup(c)
        BY <1>2, <2>3, Moves DEF Moved, Forwarding
      <3>2. room[c] \in Room /\ role[c] \in Role /\ Other(role[c]) \in Role
        BY <3>1 DEF Lookup, TypeInv, Addressed, Serving, Other, Role
      <3>3. target'[c] = slot[room[c]][Other(role[c])]
        BY <3>1, <2>1, NoneAssumption DEF Lookup, Counterpart, TypeInv, TypeOK
      <3>4. Opposite(c, slot[room[c]][Other(role[c])])
        BY <3>2, <3>3, <2>1, NoneAssumption DEF SlotInv, SlotIsServed, Opposite
      <3> QED BY <3>1, <3>3, <3>4 DEF Opposite, Lookup
    <2> QED BY <2>2, <2>3
  <1>3. ASSUME NEW c \in Conn, NEW i \in 1..Len(inbox'[c]), inbox'[c][i].kind # "error"
        PROVE  Opposite(inbox[c][i].from, c)'
    <2>1. inbox[c] \in Seq(Frame) /\ inbox \in [Conn -> Seq(Frame)]
      BY DEF TypeInv, TypeOK
    <2>2. CASE i \in 1..Len(inbox[c]) /\ inbox'[c][i] = inbox[c][i]
      <3>1. Opposite(inbox[c][i].from, c) /\ inbox[c][i].from \in Conn
        <4>1. inbox[c][i] \in Frame /\ inbox[c][i].kind # "error"
          BY <1>3, <2>1, <2>2
        <4>2. inbox[c][i].from \in Conn
          BY <4>1 DEF Frame
        <4> QED BY <4>1, <4>2, <2>2 DEF RouteInv
      <3> QED BY <2>2, <3>1, OppositeStable DEF Opposite
    <2>3. CASE inbox' = inbox
      BY <1>3, <2>2, <2>3
    <2>4. ASSUME NEW d \in Conn, inbox' = [inbox EXCEPT ![d] = Append(@, ErrorFrame(d))]
          PROVE  Opposite(inbox[c][i].from, c)'
      <3>1. i \in 1..Len(inbox[c]) /\ inbox'[c][i] = inbox[c][i]
        BY <1>3, <2>1, <2>4 DEF ErrorFrame
      <3> QED BY <3>1, <2>2
    <2>5. ASSUME NEW d \in Conn, WriteDelivered(d) PROVE Opposite(inbox[c][i].from, c)'
      <3>1. /\ pc[d] \in Writing /\ target[d] \in Conn /\ UNCHANGED <<room, role>>
            /\ inbox' = [inbox EXCEPT ![target[d]] = Append(@, Outgoing(d))]
        BY <2>5 DEF WriteDelivered, TypeInv, TypeOK
      <3>2. \/ i \in 1..Len(inbox[c]) /\ inbox'[c][i] = inbox[c][i]
            \/ c = target[d] /\ inbox'[c][i] = Outgoing(d)
        BY <1>3, <2>1, <3>1
      <3>3. CASE c = target[d] /\ inbox'[c][i] = Outgoing(d)
        <4>1. CASE pc[d] = "readyPeerW"
          <5>1. Outgoing(d).from = d /\ target[d] = peer[d] /\ Opposite(d, peer[d])
            BY <4>1 DEF Outgoing, ReadyFrame, TypeInv, Addressed, RouteInv
          <5> QED BY <5>1, <3>1, <3>3 DEF Opposite
        <4>2. CASE pc[d] = "readySelfW"
          <5>1. Outgoing(d).from = peer[d] /\ target[d] = d /\ Opposite(d, peer[d])
            BY <4>2 DEF Outgoing, ReadyFrame, TypeInv, Addressed, RouteInv
          <5>2. Opposite(peer[d], d)
            BY <5>1, OppositeSym
          <5> QED BY <5>1, <5>2, <3>1, <3>3 DEF Opposite
        <4>3. CASE pc[d] = "forwardW"
          <5>1. Outgoing(d).from = d /\ Opposite(d, target[d])
            BY <4>3 DEF Outgoing, Envelope, RouteInv
          <5> QED BY <5>1, <3>1, <3>3 DEF Opposite
        <4> QED BY <3>1, <4>1, <4>2, <4>3 DEF Writing
      <3> QED BY <2>2, <3>2, <3>3
    <2> QED BY <2>3, <2>4, <2>5, InboxStep
  <1> QED BY <1>1, <1>2, <1>3 DEF RouteInv

\* No frame ever reaches a client from another room or from its own role,
\* although handlers keep the target they looked up while slots change hands.
THEOREM RoutingCorrect == Spec => []SameRoom
  <1>1. Init => RouteInv
    BY DEF Init, RouteInv
  <1>2. TypeInv /\ RouteInv => SameRoom
    BY DEF TypeInv, TypeOK, RouteInv, SameRoom, Opposite, Other, Role, Frame
  <1> QED BY <1>1, <1>2, InitType, NextType, InitSlot, NextSlot, NextRoute, PTL DEF Spec

-----------------------------------------------------------------------------
(* Announcements.                                                          *)

\* s joined second and found p: what s has announced so far has arrived, at
\* whichever of the two WebSockets still works.
Told(s, p) ==
  /\ peer[s] = p
  /\ pc[s] \notin {"readyPeer", "readyPeerW", "panicked"} /\ ws[p] = "open" => Got(p, ReadyFrame(s))
  /\ pc[s] \notin Announcing /\ ws[s] = "open" => Got(s, ReadyFrame(p))

\* In a full room one of the two found the other when it joined.
AnnounceInv ==
  \A r \in Room :
    LET o == slot[r]["owner"]
        v == slot[r]["viewer"] IN
    o # None /\ v # None => Told(o, v) \/ Told(v, o)

LEMMA GotStable ==
  ASSUME TypeInv, [Next]_vars, NEW c \in Conn, NEW f, Got(c, f)
  PROVE  Got(c, f)'
  <1>1. inbox \in [Conn -> Seq(Frame)]
    BY DEF TypeInv, TypeOK
  <1>2. PICK i \in 1..Len(inbox[c]) : inbox[c][i] = f
    BY DEF Got
  <1>3. ASSUME NEW d \in Conn, NEW g, inbox' = [inbox EXCEPT ![d] = Append(@, g)]
        PROVE  Got(c, f)'
    <2>1. i \in 1..Len(inbox'[c]) /\ inbox'[c][i] = f
      BY <1>1, <1>2, <1>3
    <2> QED BY <2>1 DEF Got
  <1>4. ASSUME NEW d \in Conn, WriteDelivered(d) PROVE Got(c, f)'
    <2>1. target[d] \in Conn /\ inbox' = [inbox EXCEPT ![target[d]] = Append(@, Outgoing(d))]
      BY <1>4 DEF WriteDelivered, TypeInv, TypeOK
    <2> QED BY <2>1, <1>3
  <1>5. CASE inbox' = inbox
    BY <1>5 DEF Got
  <1> QED BY <1>3, <1>4, <1>5, InboxStep

LEMMA GotAppended ==
  ASSUME TypeInv, NEW c \in Conn, NEW f, inbox' = [inbox EXCEPT ![c] = Append(@, f)]
  PROVE  Got(c, f)'
  <1>1. inbox[c] \in Seq(Frame) /\ inbox'[c] = Append(inbox[c], f)
    BY DEF TypeInv, TypeOK
  <1>2. Len(inbox[c]) + 1 \in 1..Len(inbox'[c]) /\ inbox'[c][Len(inbox[c]) + 1] = f
    BY <1>1
  <1> QED BY <1>2 DEF Got

\* A served connection's WebSocket never becomes usable again.
LEMMA OpenStable ==
  ASSUME TypeInv, [Next]_vars, NEW c \in Conn, pc[c] # "idle", ws'[c] = "open"
  PROVE  ws[c] = "open"
  BY Moves DEF Moved

\* The only ways from one control point of the announcement to the next.
LEMMA AnnounceStep ==
  ASSUME TypeInv, [Next]_vars, NEW s \in Conn, pc[s] \in Serving \cup {"panicked"}
  PROVE  /\ peer'[s] = peer[s]
         /\ pc[s] \in {"readyPeer", "readyPeerW"}
            /\ pc'[s] \notin {"readyPeer", "readyPeerW", "panicked"}
            => /\ pc[s] = "readyPeerW" /\ pc'[s] = "readySelf"
               /\ WriteDelivered(s) \/ (ws[target[s]] # "open" /\ ws' = ws)
         /\ pc[s] \in Announcing /\ pc'[s] \notin Announcing
            => /\ pc[s] = "readySelfW"
               /\ WriteDelivered(s) \/ (ws[target[s]] # "open" /\ ws' = ws)
         /\ pc[s] = "panicked" => pc'[s] = "panicked"
  <1> USE DEF TypeInv, TypeOK, Serving, Ready2Write, Writing, Announcing
  <1>1. CASE UNCHANGED vars
    BY <1>1 DEF vars
  <1>2. ASSUME NEW c \in Conn, c # s, Next,
               \/ Connect(c) \/ BadFirstFrame(c) \/ PumpRead(c) \/ Lose(c) \/ Handler(c)
               \/ \E r \in Room : JoinRefused(c, r) \/ \E k \in Role : Join(c, r, k)
        PROVE  pc'[s] = pc[s] /\ peer'[s] = peer[s]
    BY <1>2 DEF Handler, Connect, BadFirstFrame, JoinRefused, Join, Pair, BeginWrite,
         WriteDelivered, WriteVanished, ReadyWriteFails, ForwardFails, WritePanics, PumpRead,
         PumpReadFails, LookupNone, Lookup, Drop, Lose, AfterWrite
  <1>3. CASE BeginWrite(s)
    BY <1>3 DEF BeginWrite
  <1>4. CASE WriteDelivered(s)
    BY <1>4 DEF WriteDelivered, AfterWrite
  <1>5. CASE WriteVanished(s)
    BY <1>5 DEF WriteVanished, AfterWrite
  <1>6. CASE ReadyWriteFails(s)
    BY <1>6 DEF ReadyWriteFails, AfterWrite
  <1>7. CASE WritePanics(s)
    BY <1>7 DEF WritePanics
  <1>8. CASE \/ Connect(s) \/ BadFirstFrame(s) \/ PumpRead(s) \/ Lose(s) \/ ForwardFails(s)
             \/ PumpReadFails(s) \/ LookupNone(s) \/ Lookup(s) \/ Drop(s)
             \/ \E r \in Room : JoinRefused(s, r) \/ \E k \in Role : Join(s, r, k)
    BY <1>8 DEF Connect, BadFirstFrame, JoinRefused, Join, Pair, ForwardFails, PumpRead,
         PumpReadFails, LookupNone, Lookup, Drop, Lose
  <1> QED
    BY <1>1, <1>2, <1>3, <1>4, <1>5, <1>6, <1>7, <1>8 DEF Next, Handler

LEMMA ToldStable ==
  ASSUME TypeInv, [Next]_vars, NEW s \in Conn, NEW p \in Conn,
         pc[s] \in Serving \cup {"panicked"}, pc[p] \in Serving \cup {"panicked"}, Told(s, p)
  PROVE  Told(s, p)'
  <1>0. pc[s] # "idle" /\ pc[p] # "idle"
    BY DEF Serving, Ready2Write, Writing
  <1>1. peer'[s] = p
    BY AnnounceStep DEF Told
  <1>2. ASSUME WriteDelivered(s), pc[s] = "readyPeerW" PROVE Got(p, ReadyFrame(s))'
    <2>1. target[s] = p /\ Outgoing(s) = ReadyFrame(s)
      BY <1>2 DEF TypeInv, Addressed, Told, Outgoing
    <2>2. inbox' = [inbox EXCEPT ![p] = Append(@, ReadyFrame(s))]
      BY <1>2, <2>1 DEF WriteDelivered
    <2>3. Got(p, ReadyFrame(s))'
      BY <2>2, GotAppended DEF Got, ReadyFrame
    <2> QED BY <2>3
  <1>3. ASSUME WriteDelivered(s), pc[s] = "readySelfW" PROVE Got(s, ReadyFrame(p))'
    <2>1. target[s] = s /\ Outgoing(s) = ReadyFrame(p)
      BY <1>3 DEF TypeInv, Addressed, Told, Outgoing
    <2>2. inbox' = [inbox EXCEPT ![s] = Append(@, ReadyFrame(p))]
      BY <1>3, <2>1 DEF WriteDelivered
    <2> QED BY <2>2, GotAppended DEF Got, ReadyFrame
  <1>4. ASSUME pc'[s] \notin {"readyPeer", "readyPeerW", "panicked"}, ws'[p] = "open"
        PROVE  Got(p, ReadyFrame(s))'
    <2>1. ws[p] = "open"
      BY <1>0, <1>4, OpenStable
    <2>2. CASE pc[s] \notin {"readyPeer", "readyPeerW", "panicked"}
      BY <2>1, <2>2, GotStable DEF Told, Got, ReadyFrame
    <2>3. CASE pc[s] \in {"readyPeer", "readyPeerW", "panicked"}
      <3>1. pc[s] = "readyPeerW" /\ (WriteDelivered(s) \/ ws[target[s]] # "open")
        BY <1>4, <2>3, AnnounceStep
      <3>2. target[s] = p
        BY <3>1 DEF TypeInv, Addressed, Told
      <3> QED BY <1>2, <2>1, <3>1, <3>2
    <2> QED BY <2>2, <2>3
  <1>5. ASSUME pc'[s] \notin Announcing, ws'[s] = "open" PROVE Got(s, ReadyFrame(p))'
    <2>1. ws[s] = "open"
      BY <1>0, <1>5, OpenStable
    <2>2. CASE pc[s] \notin Announcing
      BY <2>1, <2>2, GotStable DEF Told, Got, ReadyFrame
    <2>3. CASE pc[s] \in Announcing
      <3>1. pc[s] = "readySelfW" /\ (WriteDelivered(s) \/ ws[target[s]] # "open")
        BY <1>5, <2>3, AnnounceStep
      <3>2. target[s] = s
        BY <3>1 DEF TypeInv, Addressed
      <3> QED BY <1>3, <2>1, <3>1, <3>2
    <2> QED BY <2>2, <2>3
  <1> QED BY <1>1, <1>4, <1>5 DEF Told, Got, ReadyFrame

LEMMA NextAnnounce == TypeInv /\ SlotInv /\ AnnounceInv /\ [Next]_vars => AnnounceInv'
  <1> SUFFICES ASSUME TypeInv, SlotInv, AnnounceInv, [Next]_vars,
                      NEW r \in Room, slot'[r]["owner"] # None, slot'[r]["viewer"] # None
               PROVE  \/ Told(slot[r]["owner"], slot[r]["viewer"])'
                      \/ Told(slot[r]["viewer"], slot[r]["owner"])'
    BY DEF AnnounceInv
  <1> DEFINE o == slot[r]["owner"]
             v == slot[r]["viewer"]
  <1>1. CASE slot'[r]["owner"] = o /\ slot'[r]["viewer"] = v
    <2>1. PICK a \in Conn, b \in Conn : a = o /\ b = v
      BY <1>1 DEF TypeInv, TypeOK, Role
    <2>2. pc[a] \in Serving \cup {"panicked"} /\ pc[b] \in Serving \cup {"panicked"}
      BY <2>1, NoneAssumption DEF SlotInv, SlotIsServed, Role
    <2>3. Told(a, b) \/ Told(b, a)
      BY <1>1, <2>1 DEF AnnounceInv
    <2>4. Told(a, b)' \/ Told(b, a)'
      BY <2>2, <2>3, ToldStable
    <2>5. a = slot'[r]["owner"] /\ b = slot'[r]["viewer"]
      BY <1>1, <2>1
    <2> QED BY <2>4, <2>5 DEF Told, Got, ReadyFrame
  <1>2. ASSUME NEW c \in Conn, NEW q \in Room, NEW k \in Role, Join(c, q, k)
        PROVE  \/ Told(slot[r]["owner"], slot[r]["viewer"])'
               \/ Told(slot[r]["viewer"], slot[r]["owner"])'
    <2>1. \A x \in Room, j \in Role : slot'[x][j] = IF x = q /\ j = k THEN c ELSE slot[x][j]
      BY <1>2 DEF Join, Pair, TypeInv, TypeOK
    <2>2. CASE q # r
      BY <1>1, <2>1, <2>2 DEF Role
    <2>3. CASE q = r
      <3>1. slot'[r][k] = c /\ slot'[r][Other(k)] = slot[r][Other(k)] /\ slot[r][Other(k)] # None
        BY <2>1, <2>3 DEF Role, Other
      <3>2. peer'[c] = slot[r][Other(k)] /\ pc'[c] = "readyPeer"
        BY <1>2, <2>3, <3>1 DEF Join, Pair, TypeInv, TypeOK
      <3>3. Told(slot[r][k], slot[r][Other(k)])'
        BY <3>1, <3>2 DEF Told, Announcing
      <3> QED BY <3>3 DEF Role, Other
    <2> QED BY <2>2, <2>3
  <1>3. ASSUME NEW c \in Conn, Drop(c)
        PROVE  slot'[r]["owner"] = o /\ slot'[r]["viewer"] = v
    <2>1. room[c] \in Room /\ role[c] \in Role
      BY <1>3 DEF Drop, TypeInv, Addressed, Serving
    <2>2. \A k \in Role : slot'[r][k] = slot[r][k] \/ slot'[r][k] = None
      BY <1>3, <2>1 DEF Drop, Vacate, TypeInv, TypeOK
    <2> QED BY <2>2 DEF Role
  <1>4. CASE QuietStep
    BY <1>1, <1>4 DEF QuietStep
  <1>5. ASSUME NEW c \in Conn, NEW q \in Room, JoinRefused(c, q)
        PROVE  slot'[r]["owner"] = o /\ slot'[r]["viewer"] = v
    BY <1>5 DEF JoinRefused
  <1> QED BY <1>1, <1>2, <1>3, <1>4, <1>5, NextCases

\* Whichever role joins second, and however often either slot is taken over
\* while the announcements are under way, two working connections that share
\* a room have each been told of the other once no announcement is pending.
THEOREM AnnouncementsCorrect == Spec => []PairAnnounced
  <1>1. Init => AnnounceInv
    BY DEF Init, AnnounceInv, Role
  <1>2. AnnounceInv => PairAnnounced
    BY DEF AnnounceInv, PairAnnounced, Told, Announcing
  <1> QED BY <1>1, <1>2, InitType, NextType, InitSlot, NextSlot, NextAnnounce, PTL DEF Spec

-----------------------------------------------------------------------------
(* Winding down.                                                           *)

Gone == {"lost", "closed"}

\* The steps a handler still has at most once its connection is gone: it
\* finishes what it is at, and each envelope that is still to be read costs
\* four of them (read, look up, begin the write, end it).
Position(at) ==
  IF at = "readyPeer" THEN 9 ELSE IF at = "readyPeerW" THEN 8
  ELSE IF at = "readySelf" THEN 7 ELSE IF at = "readySelfW" THEN 6
  ELSE IF at = "lookup" THEN 5
  ELSE IF at = "forward" THEN 4 ELSE IF at = "forwardW" THEN 3
  ELSE IF at = "pump" THEN 2 ELSE IF at = "drop" THEN 1 ELSE 0
StepsLeft(c) == 4 * (MaxSend - nread[c]) + Position(pc[c])

\* A connection that is gone stays so, and each step of its handler, reads of
\* buffered envelopes included, brings it nearer to the drop that frees the
\* slot, or panics.
WindsDown(c) ==
  pc[c] \in Serving /\ ws[c] \in Gone =>
    /\ ws'[c] \in Gone
    /\ UNCHANGED <<pc[c], nread[c]>> \/ StepsLeft(c)' < StepsLeft(c)

\* Only a connection whose handler has not begun has no WebSocket.
BegunInv == \A c \in Conn : ws[c] = "none" => pc[c] = "idle"

\* What a handler writes to exists: no write can block it for ever.
WritesReturn == \A c \in Conn : pc[c] \in Writing => target[c] \in Conn /\ ws[target[c]] # "none"

LEMMA WindsDownStep ==
  ASSUME TypeInv, [Next]_vars, NEW d \in Conn
  PROVE  WindsDown(d)
  <1> SUFFICES ASSUME pc[d] \in Serving, ws[d] \in Gone
               PROVE  /\ ws'[d] \in Gone
                      /\ UNCHANGED <<pc[d], nread[d]>> \/ StepsLeft(d)' < StepsLeft(d)
    BY DEF WindsDown
  <1>t. /\ nread \in [Conn -> 0..MaxSend] /\ MaxSend \in Nat
        /\ pc \in [Conn -> PC] /\ ws \in [Conn -> WS] /\ slot \in [Room -> [Role -> Conn \cup {None}]]
    BY MaxSendAssumption DEF TypeInv, TypeOK
  <1>1. ws'[d] \in Gone
    <2>1. ASSUME NEW c \in Conn,
                 \/ Connect(c) \/ BadFirstFrame(c) \/ PumpRead(c) \/ Lose(c)
                 \/ BeginWrite(c) \/ WriteDelivered(c) \/ WriteVanished(c) \/ ReadyWriteFails(c)
          PROVE  ws'[d] \in Gone
      BY <1>t, <2>1 DEF Connect, BadFirstFrame, PumpRead, Lose, BeginWrite, WriteDelivered,
                        WriteVanished, ReadyWriteFails, Gone, Serving, Ready2Write, Writing
    <2>2. ASSUME NEW c \in Conn,
                 \/ ForwardFails(c) \/ WritePanics(c) \/ PumpReadFails(c) \/ LookupNone(c)
                 \/ Lookup(c) \/ Drop(c) \/ \E r \in Room : JoinRefused(c, r)
          PROVE  ws'[d] \in Gone
      BY <1>t, <2>2 DEF ForwardFails, WritePanics, PumpReadFails, LookupNone, Lookup, Drop,
                        JoinRefused, Gone
    <2>3. ASSUME NEW c \in Conn, NEW r \in Room, NEW k \in Role, Join(c, r, k)
          PROVE  ws'[d] \in Gone
      BY <1>t, <2>3 DEF Join, Pair, Gone
    <2>4. CASE UNCHANGED vars
      BY <2>4 DEF vars
    <2> QED BY <2>1, <2>2, <2>3, <2>4 DEF Next, Handler
  <1>n. nread[d] \in Nat /\ MaxSend - nread[d] \in Nat
    BY <1>t
  <1>s. ASSUME nread'[d] = nread[d], Position(pc'[d]) < Position(pc[d]), Position(pc'[d]) \in Nat, Position(pc[d]) \in Nat
        PROVE  StepsLeft(d)' < StepsLeft(d)
    BY <1>n, <1>s DEF StepsLeft
  <1>2. UNCHANGED <<pc[d], nread[d]>> \/ StepsLeft(d)' < StepsLeft(d)
    <2>1. ASSUME NEW c \in Conn,
                 \/ Connect(c) \/ BadFirstFrame(c) \/ Lose(c)
                 \/ \E r \in Room : JoinRefused(c, r) \/ \E k \in Role : Join(c, r, k)
          PROVE  UNCHANGED <<pc[d], nread[d]>>
      BY <1>t, <2>1 DEF Connect, BadFirstFrame, Lose, JoinRefused, Join, Pair, Gone,
                        Serving, Ready2Write, Writing
    <2>2. ASSUME NEW c \in Conn, Handler(c), c # d
          PROVE  UNCHANGED <<pc[d], nread[d]>>
      BY <1>t, <2>2 DEF Handler, BeginWrite, WriteDelivered, WriteVanished, ReadyWriteFails,
                        ForwardFails, WritePanics, PumpReadFails, LookupNone, Lookup, Drop,
                        AfterWrite
    <2>3. CASE BeginWrite(d)
      <3>1. \/ pc[d] = "readyPeer" /\ pc'[d] = "readyPeerW"
            \/ pc[d] = "readySelf" /\ pc'[d] = "readySelfW"
            \/ pc[d] = "forward" /\ pc'[d] = "forwardW"
        <4>1. pc'[d] = CASE pc[d] = "readyPeer" -> "readyPeerW"
                         [] pc[d] = "readySelf" -> "readySelfW"
                         [] OTHER               -> "forwardW"
          BY <1>t, <2>3 DEF BeginWrite
        <4>2. pc[d] = "readyPeer" => pc'[d] = "readyPeerW"
          BY <4>1
        <4>3. pc[d] = "readySelf" => pc'[d] = "readySelfW"
          BY <4>1
        <4>4. pc[d] \notin {"readyPeer", "readySelf"} => pc'[d] = "forwardW"
          BY <4>1
        <4> QED BY <2>3, <4>2, <4>3, <4>4 DEF BeginWrite, Ready2Write
      <3>n. nread'[d] = nread[d]
        BY <2>3 DEF BeginWrite
      <3> QED BY <3>1, <3>n, <1>s DEF Position
    <2>4. CASE WriteDelivered(d) \/ WriteVanished(d) \/ ReadyWriteFails(d)
      <3>1. \/ pc[d] = "readyPeerW" /\ pc'[d] = "readySelf"
            \/ pc[d] \in {"readySelfW", "forwardW"} /\ pc'[d] = "pump"
        BY <1>t, <2>4 DEF WriteDelivered, WriteVanished, ReadyWriteFails, AfterWrite, Writing
      <3>n. nread'[d] = nread[d]
        BY <2>4 DEF WriteDelivered, WriteVanished, ReadyWriteFails
      <3> QED BY <3>1, <3>n, <1>s DEF Position
    <2>5. CASE ForwardFails(d) \/ WritePanics(d)
      <3>1. \/ pc[d] = "forwardW" /\ pc'[d] = "drop"
            \/ pc[d] \in {"readyPeerW", "readySelfW"} /\ pc'[d] = "panicked"
        BY <1>t, <2>5 DEF ForwardFails, WritePanics, Writing
      <3>n. nread'[d] = nread[d]
        BY <2>5 DEF ForwardFails, WritePanics
      <3> QED BY <3>1, <3>n, <1>s DEF Position
    <2>6. CASE PumpReadFails(d) \/ LookupNone(d) \/ Lookup(d) \/ Drop(d)
      <3>1. \/ pc[d] = "pump" /\ pc'[d] = "drop"
            \/ pc[d] = "lookup" /\ pc'[d] \in {"pump", "forward"}
            \/ pc[d] = "drop" /\ pc'[d] = "done"
        BY <1>t, <2>6 DEF PumpReadFails, LookupNone, Lookup, Drop
      <3>n. nread'[d] = nread[d]
        BY <2>6 DEF PumpReadFails, LookupNone, Lookup, Drop
      <3> QED BY <3>1, <3>n, <1>s DEF Position
    <2>8. ASSUME NEW c \in Conn, PumpRead(c), c # d
          PROVE  UNCHANGED <<pc[d], nread[d]>>
      BY <1>t, <2>8 DEF PumpRead
    <2>9. CASE PumpRead(d)
      <3>1. pc[d] = "pump" /\ pc'[d] = "lookup" /\ nread'[d] = nread[d] + 1
        BY <1>t, <2>9 DEF PumpRead
      <3>2. Position(pc[d]) = 2 /\ Position(pc'[d]) = 5
        BY <3>1 DEF Position
      <3> QED BY <1>n, <1>t, <3>1, <3>2 DEF StepsLeft
    <2>7. CASE UNCHANGED vars
      BY <2>7 DEF vars
    <2> QED BY <2>1, <2>2, <2>3, <2>4, <2>5, <2>6, <2>7, <2>8, <2>9 DEF Next, Handler
  <1> QED BY <1>1, <1>2

LEMMA NextBegun == TypeInv /\ BegunInv /\ [Next]_vars => BegunInv'
  <1> SUFFICES ASSUME TypeInv, BegunInv, [Next]_vars, NEW d \in Conn, ws'[d] = "none"
               PROVE  pc'[d] = "idle"
    BY DEF BegunInv
  <1>t. pc \in [Conn -> PC] /\ ws \in [Conn -> WS] /\ slot \in [Room -> [Role -> Conn \cup {None}]]
    BY DEF TypeInv, TypeOK
  <1>1. ws[d] = "none" => pc[d] = "idle"
    BY DEF BegunInv
  <1>2. ASSUME NEW c \in Conn,
               \/ Connect(c) \/ BadFirstFrame(c) \/ PumpRead(c) \/ Lose(c)
               \/ \E r \in Room : JoinRefused(c, r) \/ \E k \in Role : Join(c, r, k)
        PROVE  pc'[d] = "idle"
    BY <1>t, <1>1, <1>2 DEF Connect, BadFirstFrame, PumpRead, Lose, JoinRefused, Join, Pair
  <1>3. ASSUME NEW c \in Conn, Handler(c) PROVE pc'[d] = "idle"
    <2>1. ws[d] = "none"
      BY <1>t, <1>3 DEF Handler, BeginWrite, WriteDelivered, WriteVanished, ReadyWriteFails,
                        ForwardFails, WritePanics, PumpReadFails, LookupNone, Lookup, Drop
    <2>2. pc[c] # "idle"
      BY <1>3 DEF Handler, BeginWrite, WriteDelivered, WriteVanished, ReadyWriteFails, ForwardFails,
                  WritePanics, PumpReadFails, LookupNone, Lookup, Drop, Ready2Write, Writing
    <2>3. c # d => pc'[d] = pc[d]
      BY <1>t, <1>3 DEF Handler, BeginWrite, WriteDelivered, WriteVanished, ReadyWriteFails,
                        ForwardFails, WritePanics, PumpReadFails, LookupNone, Lookup, Drop,
                        AfterWrite
    <2> QED BY <1>1, <2>1, <2>2, <2>3
  <1>4. CASE UNCHANGED vars
    BY <1>1, <1>4 DEF vars
  <1> QED BY <1>2, <1>3, <1>4 DEF Next

LEMMA WritesFacts == TypeInv /\ RouteInv /\ BegunInv => WritesReturn
  <1> SUFFICES ASSUME TypeInv, RouteInv, BegunInv, NEW c \in Conn, pc[c] \in Writing
               PROVE  target[c] \in Conn /\ ws[target[c]] # "none"
    BY DEF WritesReturn
  <1>1. target[c] \in Conn
    BY DEF TypeInv, TypeOK
  <1>2. CASE target[c] = c
    BY <1>2 DEF BegunInv, Writing
  <1>3. CASE Opposite(c, target[c])
    <2>1. role[target[c]] \in Role /\ "none" \notin Role
      BY <1>3 DEF Opposite, Other, Role
    <2> QED BY <1>1, <2>1 DEF TypeInv, Addressed, BegunInv
  <1> QED BY <1>1, <1>2, <1>3 DEF TypeInv, Addressed, RouteInv, Writing

\* handle never waits for another goroutine, only for the network, and the WebSocket
\* that it writes to is there to be written to, or to fail.
THEOREM WritesCorrect == Spec => []WritesReturn
  <1>1. Init => BegunInv /\ RouteInv
    BY DEF Init, BegunInv, RouteInv
  <1> QED BY <1>1, InitType, NextType, InitSlot, NextSlot, NextRoute, NextBegun, WritesFacts, PTL DEF Spec

\* A handler whose connection was lost or taken over ends: the envelopes its
\* client sent before are still read and forwarded, at four steps each, and
\* nine further steps of its own at most are left, the last of them drop.
THEOREM WindsDownCorrect == Spec => [][\A c \in Conn : WindsDown(c)]_vars
  <1>1. TypeInv /\ [Next]_vars => [\A c \in Conn : WindsDown(c)]_vars
    BY WindsDownStep
  <1> QED BY <1>1, InitType, NextType, PTL DEF Spec

=============================================================================
