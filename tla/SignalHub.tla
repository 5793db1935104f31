----------------------------- MODULE SignalHub -----------------------------
(***************************************************************************)
(* The signaling hub of cmd/signal/main.go: a WebSocket broker that puts   *)
(* every connection into the owner or viewer slot of a room, tells both    *)
(* sides when a room is paired ("ready") and then forwards opaque          *)
(* envelopes between the two.                                              *)
(*                                                                         *)
(* One member of Conn is one accepted WebSocket together with the handle   *)
(* goroutine that serves it (and its *peerConn, which is what a slot       *)
(* points at).  A connection is never reused: a client that redials is     *)
(* another member of Conn.  pc[c] is where handle(c) is; the hub's mutex   *)
(* makes pair, counterpart and drop single steps, and nothing else is      *)
(* atomic: every WebSocket write is a begin step and an end step, because  *)
(* the handlers of both sides of a room write to the same WebSocket        *)
(* without a lock.                                                         *)
(*                                                                         *)
(* Abstracted: the text of frames (an envelope is its sender and a serial  *)
(* number, a public key is the connection that presented it), the log, and *)
(* the keepalive's clock (a missed pong is Lose).                          *)
(***************************************************************************)
EXTENDS Naturals, Sequences

CONSTANTS Conn,     \* the connections that are ever accepted
          Room,     \* the room names clients ask for
          None,     \* Go's nil
          Chatty,   \* bound: the connections whose clients send envelopes
          MaxSend   \* bound: envelopes such a client ever sends

ASSUME NoneAssumption == None \notin Conn \cup Room
ASSUME MaxSendAssumption == MaxSend \in Nat

Role == {"owner", "viewer"}
Other(k) == IF k = "owner" THEN "viewer" ELSE "owner"

VARIABLES
  pc,       \* pc[c]: the next statement of handle(c)
  ws,       \* ws[c]: the state of c's WebSocket as the hub's calls see it
  rooms,    \* the keys of hub.rooms
  slot,     \* slot[r][k]: rooms[r].owner / rooms[r].viewer
  room,     \* room[c], role[c]: the join frame of c
  role,
  peer,     \* peer[c]: the counterpart pair() returned to handle(c)
  target,   \* target[c]: the connection handle(c) is about to write to
  nread,    \* nread[c]: envelopes pump(c) has read from its client
  inbox     \* inbox[c]: the frames delivered to c's client, in order

vars == <<pc, ws, rooms, slot, room, role, peer, target, nread, inbox>>

-----------------------------------------------------------------------------
(* Control points of a handler.                                            *)

\* About to call WriteJSON, and inside that call.
Ready2Write == {"readyPeer", "readySelf", "forward"}
Writing     == {"readyPeerW", "readySelfW", "forwardW"}
\* Between pair() and the drop of pump's deferred call: the handlers that
\* are answerable for a slot.
Serving     == Ready2Write \cup Writing \cup {"pump", "lookup", "drop"}
\* "panicked": net/http recovered a panic of handle outside pump, so neither
\* Close nor drop ran.
PC == Serving \cup {"idle", "join", "refused", "panicked", "done"}

\* "torn": two goroutines were inside a write of this WebSocket at once, and
\* gorilla/websocket says nothing of what a write does from then on.
\* "lost": the network or the client is gone and the hub has not noticed.
\* "closed": the hub called Close.
WS == {"none", "open", "torn", "lost", "closed"}

Frame == [kind : {"ready", "sdp", "error"}, from : Conn, n : 0..MaxSend]
ReadyFrame(c)    == [kind |-> "ready", from |-> c, n |-> 0]
Envelope(c, n)   == [kind |-> "sdp",   from |-> c, n |-> n]
ErrorFrame(c)    == [kind |-> "error", from |-> c, n |-> 0]

Got(c, f) == \E i \in 1..Len(inbox[c]) : inbox[c][i] = f

-----------------------------------------------------------------------------
Init ==
  /\ pc     = [c \in Conn |-> "idle"]
  /\ ws     = [c \in Conn |-> "none"]
  /\ rooms  = {}
  /\ slot   = [r \in Room |-> [k \in Role |-> None]]
  /\ room   = [c \in Conn |-> None]
  /\ role   = [c \in Conn |-> "none"]
  /\ peer   = [c \in Conn |-> None]
  /\ target = [c \in Conn |-> None]
  /\ nread  = [c \in Conn |-> 0]
  /\ inbox  = [c \in Conn |-> <<>>]

\* handle: Upgrade succeeds; the goroutine waits for the first frame.
Connect(c) ==
  /\ pc[c] = "idle"
  /\ pc' = [pc EXCEPT ![c] = "join"]
  /\ ws' = [ws EXCEPT ![c] = "open"]
  /\ UNCHANGED <<rooms, slot, room, role, peer, target, nread, inbox>>

\* handle: the first frame is missing, is not a join, or names no room.
BadFirstFrame(c) ==
  /\ pc[c] = "join"
  /\ ws[c] \in {"open", "lost"}
  /\ inbox' = IF ws[c] = "open"
              THEN [inbox EXCEPT ![c] = Append(@, ErrorFrame(c))] ELSE inbox
  /\ pc' = [pc EXCEPT ![c] = "done"]
  /\ ws' = [ws EXCEPT ![c] = "closed"]
  /\ UNCHANGED <<rooms, slot, room, role, peer, target, nread>>

\* Faulty variant: only an owner that joins second announces the pairing.
PairAnnouncedByOwnerOnly(c, r, k) ==
  LET displaced == slot[r][k]
      other     == slot[r][Other(k)] IN
  /\ rooms'  = rooms \cup {r}
  /\ ws'     = IF displaced = None THEN ws
               ELSE [ws EXCEPT ![displaced] = "closed"]
  /\ slot'   = [slot EXCEPT ![r][k] = c]
  /\ peer'   = [peer EXCEPT ![c] = other]
  /\ target' = [target EXCEPT ![c] = other]
  /\ pc'     = [pc EXCEPT ![c] =
                  IF other = None \/ k = "viewer" THEN "pump" ELSE "readyPeer"]

\* pair: the incumbent of the slot, if any, is closed and overwritten; the
\* counterpart's connection is what handle will announce the pairing to.
Pair(c, r, k) ==
  LET displaced == slot[r][k]
      other     == slot[r][Other(k)] IN
  /\ rooms'  = rooms \cup {r}
  /\ ws'     = IF displaced = None THEN ws
               ELSE [ws EXCEPT ![displaced] = "closed"]
  /\ slot'   = [slot EXCEPT ![r][k] = c]
  /\ peer'   = [peer EXCEPT ![c] = other]
  /\ target' = [target EXCEPT ![c] = other]
  /\ pc'     = [pc EXCEPT ![c] = IF other = None THEN "pump" ELSE "readyPeer"]

\* handle: a join{room, role} frame with a valid role.  The frame may have
\* been buffered before the client went away.
Join(c, r, k) ==
  /\ pc[c] = "join"
  /\ ws[c] \in {"open", "lost"}
  /\ k \in Role
  /\ Pair(c, r, k)
  /\ room' = [room EXCEPT ![c] = r]
  /\ role' = [role EXCEPT ![c] = k]
  /\ UNCHANGED <<nread, inbox>>

\* handle and pair: a role that is neither owner nor viewer is refused, after
\* pair has already created the room.
JoinRefused(c, r) ==
  /\ pc[c] = "join"
  /\ ws[c] \in {"open", "lost"}
  /\ rooms' = rooms \cup {r}
  /\ room' = [room EXCEPT ![c] = r]
  /\ inbox' = IF ws[c] = "open"
              THEN [inbox EXCEPT ![c] = Append(@, ErrorFrame(c))] ELSE inbox
  /\ pc' = [pc EXCEPT ![c] = "refused"]
  /\ ws' = [ws EXCEPT ![c] = "closed"]
  /\ UNCHANGED <<slot, role, peer, target, nread>>

-----------------------------------------------------------------------------
(* WebSocket writes.                                                       *)

Writers(t) == {d \in Conn : pc[d] \in Writing /\ target[d] = t}

\* The frame handle(c) is writing, and the statement after the write.
Outgoing(c) ==
  CASE pc[c] = "readyPeerW" -> ReadyFrame(c)
    [] pc[c] = "readySelfW" -> ReadyFrame(peer[c])
    [] OTHER                -> Envelope(c, nread[c])

\* WriteJSON starts; if another goroutine is inside a write of the same
\* WebSocket, the connection's writer state is torn.
BeginWrite(c) ==
  /\ pc[c] \in Ready2Write
  /\ pc' = [pc EXCEPT ![c] =
              CASE pc[c] = "readyPeer" -> "readyPeerW"
                [] pc[c] = "readySelf" -> "readySelfW"
                [] OTHER               -> "forwardW"]
  /\ ws' = IF ws[target[c]] = "open" /\ Writers(target[c]) # {}
           THEN [ws EXCEPT ![target[c]] = "torn"] ELSE ws
  /\ UNCHANGED <<rooms, slot, room, role, peer, target, nread, inbox>>

\* handle ignores what writing "ready" returned: peer first, then itself,
\* then pump.
AfterWrite(c) ==
  /\ pc' = [pc EXCEPT ![c] =
              IF pc[c] = "readyPeerW" THEN "readySelf" ELSE "pump"]
  /\ target' = [target EXCEPT ![c] =
                  IF pc[c] = "readyPeerW" THEN c ELSE None]

\* WriteJSON returns nil and the frame reaches the client.
WriteDelivered(c) ==
  /\ pc[c] \in Writing
  /\ ws[target[c]] \in {"open", "torn"}
  /\ inbox' = [inbox EXCEPT ![target[c]] = Append(@, Outgoing(c))]
  /\ AfterWrite(c)
  /\ UNCHANGED <<ws, rooms, slot, room, role, peer, nread>>

\* WriteJSON returns nil and the frame is never seen: the kernel buffered it
\* for a dead peer, or a racing writer overwrote it.
WriteVanished(c) ==
  /\ pc[c] \in Writing
  /\ ws[target[c]] \in {"lost", "torn"}
  /\ AfterWrite(c)
  /\ UNCHANGED <<ws, rooms, slot, room, role, peer, nread, inbox>>

\* WriteJSON of "ready" returns an error, which handle discards.
ReadyWriteFails(c) ==
  /\ pc[c] \in {"readyPeerW", "readySelfW"}
  /\ ws[target[c]] \in {"lost", "torn", "closed"}
  /\ AfterWrite(c)
  /\ UNCHANGED <<ws, rooms, slot, room, role, peer, nread, inbox>>

\* pump: the error of a write to the COUNTERPART ends this handler and closes
\* its own WebSocket.
ForwardFails(c) ==
  /\ pc[c] = "forwardW"
  /\ ws[target[c]] \in {"lost", "torn", "closed"}
  /\ pc' = [pc EXCEPT ![c] = "drop"]
  /\ ws' = [ws EXCEPT ![c] = "closed"]
  /\ target' = [target EXCEPT ![c] = None]
  /\ UNCHANGED <<rooms, slot, room, role, peer, nread, inbox>>

\* gorilla/websocket panics in a writer that finds another one at work.  In
\* handle there is no deferred call; in pump there is.
WritePanics(c) ==
  /\ pc[c] \in Writing
  /\ ws[target[c]] = "torn"
  /\ Writers(target[c]) # {c}
  /\ pc' = [pc EXCEPT ![c] = IF @ = "forwardW" THEN "drop" ELSE "panicked"]
  /\ ws' = IF pc[c] = "forwardW" THEN [ws EXCEPT ![c] = "closed"] ELSE ws
  /\ target' = [target EXCEPT ![c] = None]
  /\ UNCHANGED <<rooms, slot, room, role, peer, nread, inbox>>

-----------------------------------------------------------------------------
(* pump.                                                                   *)

\* ReadJSON returns an envelope the client sent, whatever became of the
\* WebSocket since: frames that arrived before the client was lost, or before
\* a takeover called Close, are still in the reader's buffer.
PumpRead(c) ==
  /\ pc[c] = "pump"
  /\ c \in Chatty /\ nread[c] < MaxSend
  /\ nread' = [nread EXCEPT ![c] = @ + 1]
  /\ pc' = [pc EXCEPT ![c] = "lookup"]
  /\ UNCHANGED <<ws, rooms, slot, room, role, peer, target, inbox>>

\* Faulty variants: the deferred call closes and does not drop; there is no
\* read deadline, so a silent client is never noticed.
PumpReadFailsWithoutDrop(c) ==
  /\ pc[c] = "pump"
  /\ ws[c] \in {"closed", "lost"}
  /\ pc' = [pc EXCEPT ![c] = "done"]
  /\ ws' = [ws EXCEPT ![c] = "closed"]
  /\ UNCHANGED <<rooms, slot, room, role, peer, target, nread, inbox>>
PumpReadFailsWithoutDeadline(c) ==
  /\ pc[c] = "pump"
  /\ ws[c] = "closed"
  /\ pc' = [pc EXCEPT ![c] = "drop"]
  /\ UNCHANGED <<ws, rooms, slot, room, role, peer, target, nread, inbox>>

\* ReadJSON fails: the WebSocket was closed by a takeover, or the client is
\* gone, or the pong deadline passed; the deferred function closes it.
PumpReadFails(c) ==
  /\ pc[c] = "pump"
  /\ ws[c] \in {"closed", "lost"}
  /\ pc' = [pc EXCEPT ![c] = "drop"]
  /\ ws' = [ws EXCEPT ![c] = "closed"]
  /\ UNCHANGED <<rooms, slot, room, role, peer, target, nread, inbox>>

\* Faulty variant: the slots of counterpart's two branches are swapped.
CounterpartSwapped(c) ==
  IF room[c] \in rooms THEN slot[room[c]][role[c]] ELSE None

\* counterpart: the connection now in the other slot of the room.
Counterpart(c) ==
  IF room[c] \in rooms THEN slot[room[c]][Other(role[c])] ELSE None

\* pump: no counterpart, so the envelope is dropped silently.
LookupNone(c) ==
  /\ pc[c] = "lookup"
  /\ Counterpart(c) = None
  /\ pc' = [pc EXCEPT ![c] = "pump"]
  /\ UNCHANGED <<ws, rooms, slot, room, role, peer, target, nread, inbox>>

\* pump: the WebSocket to forward to is fixed here and written to later.
Lookup(c) ==
  /\ pc[c] = "lookup"
  /\ Counterpart(c) # None
  /\ target' = [target EXCEPT ![c] = Counterpart(c)]
  /\ pc' = [pc EXCEPT ![c] = "forward"]
  /\ UNCHANGED <<ws, rooms, slot, room, role, peer, nread, inbox>>

\* Faulty variant: drop clears the slot whoever holds it.
VacateAnyHolder(c) ==
  IF room[c] \in rooms
  THEN [slot EXCEPT ![room[c]][role[c]] = None] ELSE slot

\* drop: clears the slot only while it still points at this connection, and
\* deletes a room with two empty slots.
Vacate(c) ==
  LET r == room[c]
      k == role[c] IN
  IF r \in rooms /\ slot[r][k] = c THEN [slot EXCEPT ![r][k] = None] ELSE slot

\* Faulty variant: the map entry of an empty room is kept.
DropKeepsRoom(c) ==
  /\ pc[c] = "drop"
  /\ slot' = Vacate(c)
  /\ pc' = [pc EXCEPT ![c] = "done"]
  /\ UNCHANGED <<ws, rooms, room, role, peer, target, nread, inbox>>

Drop(c) ==
  /\ pc[c] = "drop"
  /\ slot' = Vacate(c)
  /\ rooms' = IF \A k \in Role : slot'[room[c]][k] = None
              THEN rooms \ {room[c]} ELSE rooms
  /\ pc' = [pc EXCEPT ![c] = "done"]
  /\ UNCHANGED <<ws, room, role, peer, target, nread, inbox>>

\* The client goes away, the network fails or pongs stop.
Lose(c) ==
  /\ ws[c] \in {"open", "torn"}
  /\ ws' = [ws EXCEPT ![c] = "lost"]
  /\ UNCHANGED <<pc, rooms, slot, room, role, peer, target, nread, inbox>>

-----------------------------------------------------------------------------
\* The steps handle(c) takes by itself once the join frame has arrived.
Handler(c) ==
  \/ BeginWrite(c) \/ WriteDelivered(c) \/ WriteVanished(c)
  \/ ReadyWriteFails(c) \/ ForwardFails(c) \/ WritePanics(c)
  \/ PumpReadFails(c) \/ LookupNone(c) \/ Lookup(c) \/ Drop(c)

Next ==
  \E c \in Conn :
    \/ Connect(c) \/ BadFirstFrame(c)
    \/ \E r \in Room : JoinRefused(c, r) \/ \E k \in Role : Join(c, r, k)
    \/ PumpRead(c)
    \/ Lose(c)
    \/ Handler(c)

Spec == Init /\ [][Next]_vars

\* The Go scheduler runs every goroutine that can move, and a write or a read
\* returns: the hub never waits for a client except in ReadJSON.
FairSpec == Spec /\ \A c \in Conn : WF_vars(Handler(c))

-----------------------------------------------------------------------------
(* Properties.                                                             *)

TypeOK ==
  /\ pc \in [Conn -> PC]
  /\ ws \in [Conn -> WS]
  /\ rooms \subseteq Room
  /\ slot \in [Room -> [Role -> Conn \cup {None}]]
  /\ room \in [Conn -> Room \cup {None}]
  /\ role \in [Conn -> Role \cup {"none"}]
  /\ peer \in [Conn -> Conn \cup {None}]
  /\ target \in [Conn -> Conn \cup {None}]
  /\ nread \in [Conn -> 0..MaxSend]
  /\ inbox \in [Conn -> Seq(Frame)]
  \* a write goes to a WebSocket, never to nil
  /\ \A c \in Conn : pc[c] \in Ready2Write \cup Writing => target[c] \in Conn

\* A connection that is being served and that no takeover has closed holds
\* the slot it joined: the late drop of a displaced connection never evicts
\* the live one that replaced it (drop's "we must not touch it").
LiveHoldsSlot ==
  \A c \in Conn :
    pc[c] \in Serving /\ ws[c] # "closed" =>
      room[c] \in rooms /\ slot[room[c]][role[c]] = c

\* No slot points at a connection whose handler is over, unless the handler
\* died of a panic; a slot's holder joined that room in that role.  Otherwise
\* the room's other side would be paired with nobody for ever.
SlotIsServed ==
  \A r \in Room, k \in Role :
    LET c == slot[r][k] IN
    c # None => /\ pc[c] \in Serving \cup {"panicked"}
                /\ room[c] = r /\ role[c] = k
                /\ r \in rooms

\* hub.rooms does not grow with use: a room without owner and viewer stays in
\* the map only if a join with an invalid role created it there.
RoomsReclaimed ==
  \A r \in rooms :
    (\A k \in Role : slot[r][k] = None) =>
      \E c \in Conn : pc[c] = "refused" /\ room[c] = r

\* When both slots of a room are taken, both connections work, and neither
\* handler still has a "ready" to write (or died writing it), each side has
\* been told of the other, whichever role came second and however takeovers
\* of either slot interleaved.
Announcing == {"readyPeer", "readyPeerW", "readySelf", "readySelfW", "panicked"}
PairAnnounced ==
  \A r \in Room :
    LET o == slot[r]["owner"]
        v == slot[r]["viewer"] IN
    /\ o # None /\ v # None
    /\ ws[o] = "open" /\ ws[v] = "open"
    /\ pc[o] \notin Announcing /\ pc[v] \notin Announcing
    => Got(o, ReadyFrame(v)) /\ Got(v, ReadyFrame(o))

\* Whatever a client receives comes from a connection that joined the same
\* room in the other role, takeovers and late forwards included.
SameRoom ==
  \A c \in Conn : \A i \in 1..Len(inbox[c]) :
    LET f == inbox[c][i] IN
    f.kind # "error" =>
      /\ room[f.from] = room[c]
      /\ {role[f.from], role[c]} = Role

\* A connection that is lost or was taken over does not keep its slot: when
\* what it had buffered has been read the read fails, and pump's deferred drop
\* runs.
HoldsSlot(c) == \E r \in Room, k \in Role : slot[r][k] = c
SlotFreed ==
  \A c \in Conn :
    (HoldsSlot(c) /\ ws[c] \in {"lost", "closed"})
      ~> (~HoldsSlot(c) \/ pc[c] = "panicked")

=============================================================================
