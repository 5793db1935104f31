---------------------------- MODULE SignalClient ----------------------------
(***************************************************************************)
(* The signaling client of internal/signaling/client.go: one WebSocket to  *)
(* the hub, shared by the main goroutine (dial, ready, close), one         *)
(* goroutine that receives and any number that send.  An error of a read   *)
(* or a write makes the goroutine that met it drop the connection, dial    *)
(* again and re-join; writeMu is held meanwhile, but a reader does not     *)
(* take it before it reads c.conn.                                         *)
(*                                                                         *)
(* Connections are numbered as they are dialled.  What is written to them  *)
(* matters only in so far as a join comes first; what is read from them,   *)
(* not at all.  Every close error, network error and EOF is recoverable;   *)
(* what is not (a frame that is no JSON) ends Recv and Ready.              *)
(***************************************************************************)
EXTENDS Integers

CONSTANTS Sender,     \* goroutines that call Send
          Main,       \* the one that dials and closes
          Receiver,   \* the one that calls Recv
          MaxLosses   \* bound: how often the hub or the network drops a connection

Writer == Sender \cup {Main}
Process == Writer \cup {Receiver}
None == 0

ASSUME LossesAssumption == MaxLosses \in Nat
ASSUME ProcessAssumption == Receiver \notin Writer /\ Main \notin Sender /\ None \notin Process

Conn == 1..(2 * MaxLosses + 1)   \* enough: see RedialsBounded

VARIABLES
  conn,     \* c.conn, None while nil
  link,     \* link[n]: "up"; "lost" by the other end; "closed" by the client
  dialled,  \* how many connections there have been
  first,    \* first[n]: the kind of the first frame written to connection n
  mu,       \* who holds writeMu, None if nobody
  closed,   \* c.closed is closed
  pc,       \* where each goroutine is
  fresh,    \* fresh[p]: the connection p has dialled and not installed yet
  reading,  \* the connection that Recv reads from
  losses,
  panicked

net == <<link, dialled, first, losses>>
vars == <<conn, link, dialled, first, mu, closed, pc, fresh, reading, losses, panicked>>

Init ==
  /\ conn = None /\ dialled = 0 /\ losses = 0
  /\ link = [n \in Conn |-> "none"] /\ first = [n \in Conn |-> "none"]
  /\ mu = None /\ closed = FALSE /\ panicked = FALSE
  /\ pc = [p \in Process |-> IF p = Main THEN "dial" ELSE "idle"]
  /\ fresh = [p \in Process |-> None] /\ reading = None

-----------------------------------------------------------------------------
(* The network.                                                            *)

Dial ==
  /\ dialled' = dialled + 1
  /\ link' = [link EXCEPT ![dialled + 1] = "up"]

Written(n, kind) == first' = [first EXCEPT ![n] = IF @ = "none" THEN kind ELSE @]
Kind(p) == IF p = Main THEN "join" ELSE "envelope"

\* The hub restarts, another client takes the slot over, the network fails.
Lose ==
  /\ losses < MaxLosses
  /\ \E n \in Conn : link[n] = "up" /\ link' = [link EXCEPT ![n] = "lost"]
  /\ losses' = losses + 1
  /\ UNCHANGED <<conn, dialled, first, mu, closed, pc, fresh, reading, panicked>>

-----------------------------------------------------------------------------
(* DialWithLogger, Ready and Close, and what the main goroutine does after *)
(* each: it starts the others once it is paired, and exits on an error.    *)

DialFirst ==
  /\ pc[Main] = "dial"
  /\ \/ /\ Dial /\ conn' = dialled'
        /\ pc' = [pc EXCEPT ![Main] = "lock"]
     \/ /\ pc' = [pc EXCEPT ![Main] = "exited"]
        /\ UNCHANGED <<conn, dialled, link>>
  /\ UNCHANGED <<first, mu, closed, fresh, reading, losses, panicked>>

\* Ready does not reconnect.
Ready ==
  /\ pc[Main] = "ready"
  /\ \/ pc' = [pc EXCEPT ![Main] = "exited"]
     \/ /\ link[conn] # "closed"
        /\ pc' = [pc EXCEPT ![Main] = "paired", ![Receiver] = "read"]
  /\ UNCHANGED <<conn, net, mu, closed, fresh, reading, panicked>>

BeginClose ==
  /\ pc[Main] = "paired"
  /\ closed' = TRUE
  /\ pc' = [pc EXCEPT ![Main] = "closelock"]
  /\ UNCHANGED <<conn, net, mu, fresh, reading, panicked>>

\* Faulty variant: Close does not wait for writeMu.
EndCloseUnlocked ==
  /\ pc[Main] = "closelock"
  /\ link' = IF conn = None THEN link ELSE [link EXCEPT ![conn] = "closed"]
  /\ pc' = [pc EXCEPT ![Main] = "closed"]
  /\ UNCHANGED <<conn, dialled, first, losses, mu, closed, fresh, reading, panicked>>

EndClose ==
  /\ pc[Main] = "closelock" /\ mu = None
  /\ link' = IF conn = None THEN link ELSE [link EXCEPT ![conn] = "closed"]
  /\ pc' = [pc EXCEPT ![Main] = "closed"]
  /\ UNCHANGED <<conn, dialled, first, losses, mu, closed, fresh, reading, panicked>>

-----------------------------------------------------------------------------
(* writeEnvelope, with writeMu held from Lock to Unlock.                   *)

Send(p) ==
  /\ pc[p] = "idle" /\ pc[Main] \in {"paired", "closelock", "closed"}
  /\ pc' = [pc EXCEPT ![p] = "lock"]
  /\ UNCHANGED <<conn, net, mu, closed, fresh, reading, panicked>>

\* Faulty variant: writeMu is not waited for.
LockNotTaken(p) ==
  /\ pc[p] = "lock"
  /\ mu' = p
  /\ pc' = [pc EXCEPT ![p] = "write"]
  /\ UNCHANGED <<conn, net, closed, fresh, reading, panicked>>

Lock(p) ==
  /\ pc[p] = "lock" /\ mu = None
  /\ mu' = p
  /\ pc' = [pc EXCEPT ![p] = "write"]
  /\ UNCHANGED <<conn, net, closed, fresh, reading, panicked>>

\* Where a writer goes when writeEnvelope returns.  Main gives up on an error;
\* the others log it.
Returned(p, ok) == IF p # Main THEN "idle" ELSE IF ok THEN "ready" ELSE "exited"

\* A write to a lost connection can still succeed; one to a nil connection
\* panics.  It is tried a second time after a reconnect, and then returns what
\* comes out of it.
Write(p) ==
  /\ pc[p] \in {"write", "retry"} /\ conn # None
  /\ \/ /\ link[conn] \in {"up", "lost"}
        /\ Written(conn, Kind(p))
        /\ pc' = [pc EXCEPT ![p] = Returned(p, TRUE)] /\ mu' = None
     \/ /\ link[conn] \in {"lost", "closed"} /\ pc[p] = "write"
        /\ pc' = [pc EXCEPT ![p] = "drop"]
        /\ UNCHANGED <<first, mu>>
     \/ /\ link[conn] \in {"lost", "closed"} /\ pc[p] = "retry"
        /\ pc' = [pc EXCEPT ![p] = Returned(p, FALSE)] /\ mu' = None
        /\ UNCHANGED first
  /\ UNCHANGED <<conn, link, dialled, losses, closed, fresh, reading, panicked>>

WriteNil(p) ==
  /\ pc[p] = "write" /\ conn = None
  /\ panicked' = TRUE
  /\ UNCHANGED <<conn, net, mu, closed, pc, fresh, reading>>

-----------------------------------------------------------------------------
(* Recv.                                                                   *)

\* Reading c.conn takes no lock.
BeginRead ==
  /\ pc[Receiver] = "read" /\ conn # None
  /\ reading' = conn
  /\ pc' = [pc EXCEPT ![Receiver] = "reading"]
  /\ UNCHANGED <<conn, net, mu, closed, fresh, panicked>>

ReadNil ==
  /\ pc[Receiver] = "read" /\ conn = None
  /\ panicked' = TRUE
  /\ UNCHANGED <<conn, net, mu, closed, pc, fresh, reading>>

EndRead(next) ==
  /\ pc[Receiver] = "reading"
  /\ pc' = [pc EXCEPT ![Receiver] = next]
  /\ reading' = None
  /\ UNCHANGED <<conn, net, mu, closed, fresh, panicked>>

\* Faulty variant: it reads again without a reconnect.
ReadDroppedAgain == EndRead("read") /\ link[reading] # "up"

\* An envelope, which the caller handles before it calls Recv again; an error
\* that ends the signal loop; an error that makes it reconnect.
ReadEnvelope == EndRead("read") /\ link[reading] # "closed"

ReadFails == EndRead("done") /\ link[reading] # "closed"

ReadDropped == EndRead("recvlock") /\ link[reading] # "up"

RecvLock ==
  /\ pc[Receiver] = "recvlock" /\ mu = None
  /\ mu' = Receiver
  /\ pc' = [pc EXCEPT ![Receiver] = "drop"]
  /\ UNCHANGED <<conn, net, closed, fresh, reading, panicked>>

-----------------------------------------------------------------------------
(* reconnectLocked: a process that holds writeMu is at one of these steps. *)

\* Faulty variant: the old connection is let go of without closing it.
DropWithoutClose(p) ==
  /\ pc[p] = "drop"
  /\ conn' = None
  /\ pc' = [pc EXCEPT ![p] = "check"]
  /\ UNCHANGED <<net, mu, closed, fresh, reading, panicked>>

DropConn(p) ==
  /\ pc[p] = "drop"
  /\ link' = IF conn = None THEN link ELSE [link EXCEPT ![conn] = "closed"]
  /\ conn' = None
  /\ pc' = [pc EXCEPT ![p] = "check"]
  /\ UNCHANGED <<dialled, first, losses, mu, closed, fresh, reading, panicked>>

\* Faulty variant: writeMu is not released.
GiveUpLocked(p) ==
  /\ pc[p] = "check" /\ closed
  /\ pc' = [pc EXCEPT ![p] = IF p = Receiver THEN "done" ELSE Returned(p, FALSE)]
  /\ UNCHANGED <<conn, net, mu, closed, fresh, reading, panicked>>

GiveUp(p) ==
  /\ pc[p] = "check" /\ closed
  /\ pc' = [pc EXCEPT ![p] = IF p = Receiver THEN "done" ELSE Returned(p, FALSE)]
  /\ mu' = None
  /\ UNCHANGED <<conn, net, closed, fresh, reading, panicked>>

GoOn(p) ==
  /\ pc[p] = "check" /\ ~closed
  /\ pc' = [pc EXCEPT ![p] = "redial"]
  /\ UNCHANGED <<conn, net, mu, closed, fresh, reading, panicked>>

Redial(p) ==
  /\ pc[p] = "redial"
  /\ Dial /\ fresh' = [fresh EXCEPT ![p] = dialled']
  /\ pc' = [pc EXCEPT ![p] = "join"]
  /\ UNCHANGED <<conn, first, losses, mu, closed, reading, panicked>>

\* Then the loop waits for the backoff, or for Close, and goes round again.
RedialFails(p) ==
  /\ pc[p] = "redial"
  /\ pc' = [pc EXCEPT ![p] = "check"]
  /\ UNCHANGED <<conn, net, mu, closed, fresh, reading, panicked>>

\* Where a process goes on when it has reconnected.
Install(p) ==
  /\ conn' = fresh[p]
  /\ fresh' = [fresh EXCEPT ![p] = None]
  /\ IF p = Receiver THEN pc' = [pc EXCEPT ![p] = "read"] /\ mu' = None
                     ELSE pc' = [pc EXCEPT ![p] = "retry"] /\ UNCHANGED mu
  /\ UNCHANGED <<dialled, losses, closed, reading, panicked>>

\* Faulty variant: the new connection is used without joining the room again.
RejoinNothing(p) ==
  /\ pc[p] = "join"
  /\ Install(p)
  /\ UNCHANGED <<first, link>>

Rejoin(p) ==
  /\ pc[p] = "join" /\ link[fresh[p]] \in {"up", "lost"}
  /\ Written(fresh[p], "join")
  /\ Install(p)
  /\ UNCHANGED link

RejoinFails(p) ==
  /\ pc[p] = "join" /\ link[fresh[p]] = "lost"
  /\ link' = [link EXCEPT ![fresh[p]] = "closed"]
  /\ fresh' = [fresh EXCEPT ![p] = None]
  /\ pc' = [pc EXCEPT ![p] = "check"]
  /\ UNCHANGED <<conn, dialled, first, losses, mu, closed, reading, panicked>>

-----------------------------------------------------------------------------
WriterStep(p) == Lock(p) \/ Write(p) \/ WriteNil(p)
RecvStep == BeginRead \/ ReadNil
ReconnectStep(p) == \/ DropConn(p) \/ GiveUp(p) \/ GoOn(p) \/ Redial(p) \/ RedialFails(p)
                    \/ Rejoin(p) \/ RejoinFails(p)

Next ==
  /\ ~panicked
  /\ \/ Lose
     \/ DialFirst \/ Ready \/ BeginClose \/ EndClose
     \/ \E p \in Sender : Send(p)
     \/ \E p \in Writer : WriterStep(p)
     \/ RecvStep \/ ReadEnvelope \/ ReadFails \/ ReadDropped \/ RecvLock
     \/ \E p \in Process : ReconnectStep(p)

Spec == Init /\ [][Next]_vars

\* Goroutines are scheduled; writeMu is not kept from a goroutine for ever (Go's
\* mutexes hand themselves over to a waiter that has starved for 1 ms); dialling
\* time and again succeeds in the end; and reading on from a lost connection fails in
\* the end.  Nothing makes the callers send, close, or a network connection fail.
Fairness ==
  /\ WF_vars(~panicked /\ RecvStep) /\ SF_vars(~panicked /\ ReadDropped)
  /\ SF_vars(~panicked /\ RecvLock)
  /\ WF_vars(~panicked /\ DialFirst) /\ WF_vars(~panicked /\ Ready)
  /\ SF_vars(~panicked /\ EndClose)
  /\ \A p \in Writer : SF_vars(~panicked /\ Lock(p)) /\ WF_vars(~panicked /\ WriterStep(p))
  /\ \A p \in Process : /\ WF_vars(~panicked /\ ReconnectStep(p))
                        /\ SF_vars(~panicked /\ Redial(p))

FairSpec == Spec /\ Fairness

-----------------------------------------------------------------------------
(* Properties.                                                             *)

TypeOK ==
  /\ conn \in {None} \cup Conn /\ reading \in {None} \cup Conn
  /\ dialled \in {None} \cup Conn /\ losses \in 0..MaxLosses
  /\ link \in [Conn -> {"none", "up", "lost", "closed"}]
  /\ first \in [Conn -> {"none", "join", "envelope"}]
  /\ mu \in {None} \cup Process /\ closed \in BOOLEAN /\ panicked \in BOOLEAN
  /\ pc \in [Process -> {"dial", "ready", "paired", "closelock", "closed", "exited",
                         "idle", "lock", "write", "retry",
                         "read", "reading", "recvlock", "done",
                         "drop", "check", "redial", "join"}]
  /\ fresh \in [Process -> {None} \cup Conn]

\* "The first thing we send on a fresh conn is the same join frame" (comment at
\* line 196): the hub refuses a connection that begins with anything else.
JoinFirst == \A n \in Conn : first[n] # "envelope"

\* A connection that the client has not closed is c.conn, or is being joined by
\* the goroutine that dialled it: reconnects of several goroutines, and Close,
\* leave none behind.
NoLeak ==
  \A n \in Conn : link[n] \in {"up", "lost"} => n = conn \/ \E p \in Process : fresh[p] = n

\* A lost connection costs two redials at most: one of the goroutine that writes to
\* it, and one of the receiver, which meets the old connection's end after that and
\* drops the new one.  However many goroutines fail at once, they do not go on
\* dropping each other's connections.
RedialsBounded == dialled <= 2 * losses + 1

\* "Close tears down the underlying WebSocket and cancels any pending reconnect
\* loop" (line 242): after it nothing is open and nothing is dialled.
ClosedForGood ==
  pc[Main] = "closed" => /\ \A n \in Conn : link[n] \notin {"up", "lost"}
                         /\ \A p \in Process : pc[p] \notin {"redial", "join"}

\* Auto-reconnect: as losses come to an end the client has a working connection
\* again and keeps it, unless it was closed, or is over.
Reconnects ==
  <>[](\/ conn # None /\ link[conn] = "up"
       \/ closed \/ panicked \/ pc[Main] = "exited" \/ pc[Receiver] = "done")

\* Close returns, whatever reconnect holds writeMu, and Recv with it.
CloseReturns ==
  closed ~> \/ panicked
            \/ pc[Main] = "closed" /\ pc[Receiver] = "done"

\* "writeMu also guards conn replacement so a redial in progress can't race with a
\* concurrent Send / Recv observing the old conn" (lines 58-59).
NoNilConn == ~panicked

=============================================================================
