---------------------------- MODULE OwnerSession ----------------------------
(***************************************************************************)
(* The owner's supervisor, cmd/dav-owner/main.go: ownerSession answers the *)
(* viewer's offers on one PeerConnection at a time, serves a yamux session *)
(* over its data channel, and passes the streams of the session through a  *)
(* bounded backlog to the WebDAV server.                                   *)
(*                                                                         *)
(* Goroutines: the supervisor loop, the signal loop, an OnOpen callback,   *)
(* an acceptor and a watchdog per epoch, one for each state callback, and  *)
(* the HTTP server.  PeerConnections and sessions are named by the epoch   *)
(* that made them, 0 is nil.  The relay-only policy steers no step below:  *)
(* it is left out, with the Connected branch of the state callback, and so *)
(* is ctx.Done, which ends the process.                                    *)
(***************************************************************************)
EXTENDS Naturals, Sequences

CONSTANTS MaxEpoch,   \* bound: how often the supervisor may build a PC
          Stream,     \* bound: the streams the viewer ever opens
          Backlog,    \* the capacity of incoming
          None

ASSUME BoundAssumption == MaxEpoch \in Nat /\ Backlog \in Nat /\ None \notin Stream

Epoch == 1..MaxEpoch

VARIABLES
  run,        \* where the supervisor loop is
  token,      \* rebuild (capacity 1) holds a request
  epoch, pc, mux,
  pcst,       \* pcst[e]: state of epoch e's PeerConnection (pion)
  cbs,        \* connection-state callbacks in flight: <<epoch, state, step>>
  onopen,     \* onopen[e]: progress of its data channel's OnOpen
  sess,       \* sess[e]: the yamux session that tunnel.Serve returned
  dog,        \* dog[e]: the watchdog of sess[e]
  held,       \* held[e]: the stream that the acceptor of sess[e] has in hand
  stream,     \* stream[s]: what became of a stream
  waiting,    \* waiting[e]: the streams of sess[e] that nobody has accepted yet
  incoming    \* the backlog

loop == <<run, token>>
session == <<epoch, pc, mux>>
pion == <<pcst, cbs>>
tunnels == <<onopen, sess, dog, held>>
streams == <<stream, waiting, incoming>>
vars == <<loop, session, pion, tunnels, streams>>

Init ==
  /\ run = "select" /\ token = TRUE            \* run's initial requestRebuild
  /\ epoch = 0 /\ pc = 0 /\ mux = 0
  /\ pcst = [e \in Epoch |-> "none"] /\ cbs = {}
  /\ onopen = [e \in Epoch |-> "none"] /\ sess = [e \in Epoch |-> "none"]
  /\ dog = [e \in Epoch |-> "off"] /\ held = [e \in Epoch |-> None]
  /\ stream = [s \in Stream |-> "none"] /\ waiting = [e \in Epoch |-> {}]
  /\ incoming = << >>

\* The streams that nobody has accepted yet when session e ends are cut off.
Cut(e) ==
  /\ stream' = [s \in Stream |-> IF e # 0 /\ s \in waiting[e] THEN "closed" ELSE stream[s]]
  /\ waiting' = [d \in Epoch |-> IF d = e THEN {} ELSE waiting[d]]

-----------------------------------------------------------------------------
(* The supervisor: run and buildPC.                                        *)

\* buildPC's first lines, under mu; pion reports the closed PC to its callback.
TearDown ==
  /\ run = "select" /\ token
  /\ token' = FALSE
  /\ mux' = 0
  /\ sess' = [e \in Epoch |-> IF e = mux THEN "dead" ELSE sess[e]]
  /\ Cut(mux)
  /\ cbs' = cbs \cup IF pc # 0 /\ pcst[pc] # "closed" THEN {<<pc, "closed", "check">>} ELSE {}
  /\ UNCHANGED <<onopen, dog, held, incoming>>

BuildPC ==
  /\ TearDown
  /\ epoch < MaxEpoch
  /\ epoch' = epoch + 1 /\ pc' = epoch + 1
  /\ pcst' = [e \in Epoch |-> IF e = epoch + 1 THEN "new" ELSE IF e = pc THEN "closed" ELSE pcst[e]]
  /\ run' = "wire"

\* NewWithPolicy fails.
BuildPCFails ==
  /\ TearDown
  /\ pc' = 0 /\ UNCHANGED epoch
  /\ pcst' = [e \in Epoch |-> IF e = pc THEN "closed" ELSE pcst[e]]
  /\ run' = "sleep"

\* Outside mu, when offers can already be applied to the new PC: the callbacks are
\* registered.  A data channel that has opened before is not reported any more.
Wire ==
  /\ run = "wire"
  /\ run' = "select"
  /\ onopen' = [onopen EXCEPT ![epoch] = IF @ = "lost" THEN "lost" ELSE "wired"]
  /\ UNCHANGED <<token, session, pion, sess, dog, held, streams>>

RetryAfterSleep ==
  /\ run = "sleep"
  /\ run' = "select" /\ token' = TRUE
  /\ UNCHANGED <<session, pion, tunnels, streams>>

-----------------------------------------------------------------------------
(* The data channel of epoch e: OnOpen, and the watchdog.                  *)

DataChannelOpens(e) ==
  /\ pcst[e] = "connected" /\ onopen[e] \in {"none", "wired"}
  /\ onopen' = [onopen EXCEPT ![e] = IF @ = "none" THEN "lost" ELSE "fired"]
  /\ UNCHANGED <<loop, session, pion, sess, dog, held, streams>>

\* The first stale-epoch guard.
OnOpenGuard(e) ==
  /\ onopen[e] = "fired"
  /\ onopen' = [onopen EXCEPT ![e] = IF epoch = e THEN "serve" ELSE "done"]
  /\ UNCHANGED <<loop, session, pion, sess, dog, held, streams>>

\* tunnel.Serve returns a session: Noise and yamux are up over a working PC.
ServeSucceeds(e) ==
  /\ onopen[e] = "serve" /\ pcst[e] = "connected"
  /\ onopen' = [onopen EXCEPT ![e] = "install"]
  /\ sess' = [sess EXCEPT ![e] = "alive"]
  /\ UNCHANGED <<loop, session, pion, dog, held, streams>>

\* Faulty variant: a failed handshake is only logged.
ServeFailsSilent(e) ==
  /\ onopen[e] = "serve"
  /\ onopen' = [onopen EXCEPT ![e] = "done"]
  /\ UNCHANGED <<loop, session, pion, sess, dog, held, streams>>

\* It fails (handshake timeout, wrong key, PC gone): rebuild, whatever epoch it is.
ServeFails(e) ==
  /\ onopen[e] = "serve"
  /\ onopen' = [onopen EXCEPT ![e] = "done"]
  /\ token' = TRUE
  /\ UNCHANGED <<run, session, pion, sess, dog, held, streams>>

\* Faulty variant: the session is installed without the second guard.
InstallUnguarded(e) ==
  /\ onopen[e] = "install"
  /\ mux' = e
  /\ onopen' = [onopen EXCEPT ![e] = "done"]
  /\ dog' = [dog EXCEPT ![e] = "on"]
  /\ UNCHANGED <<loop, epoch, pc, pion, sess, held, streams>>

\* The second guard, under mu: the session becomes s.mux, with an acceptor and a
\* watchdog; or it is closed.
Install(e) ==
  /\ onopen[e] = "install"
  /\ onopen' = [onopen EXCEPT ![e] = "done"]
  /\ IF epoch = e THEN /\ mux' = e
                       /\ dog' = [dog EXCEPT ![e] = "on"]
                       /\ UNCHANGED <<sess, stream, waiting>>
                  ELSE /\ sess' = [sess EXCEPT ![e] = "dead"]
                       /\ Cut(e)
                       /\ UNCHANGED <<mux, dog>>
  /\ UNCHANGED <<loop, epoch, pc, pion, held, incoming>>

SessionDies(e) ==
  /\ sess[e] = "alive"
  /\ sess' = [sess EXCEPT ![e] = "dead"]
  /\ Cut(e)
  /\ UNCHANGED <<loop, session, pion, onopen, dog, held, incoming>>

\* Faulty variant: the watchdog asks for a rebuild only if its epoch is past.
WatchdogSilent(e) ==
  /\ dog[e] = "on" /\ sess[e] = "dead"
  /\ dog' = [dog EXCEPT ![e] = "fired"]
  /\ token' = (token \/ epoch # e)
  /\ UNCHANGED <<run, session, pion, onopen, sess, held, streams>>

Watchdog(e) ==
  /\ dog[e] = "on" /\ sess[e] = "dead"
  /\ dog' = [dog EXCEPT ![e] = "fired"]
  /\ token' = TRUE
  /\ UNCHANGED <<run, session, pion, onopen, sess, held, streams>>

-----------------------------------------------------------------------------
(* Streams: from the session through the backlog to the server.            *)

StreamOpens(s) ==
  /\ stream[s] = "none"
  /\ \E e \in Epoch : sess[e] = "alive" /\ waiting' = [waiting EXCEPT ![e] = @ \cup {s}]
  /\ stream' = [stream EXCEPT ![s] = "pending"]
  /\ UNCHANGED <<loop, session, pion, tunnels, incoming>>

\* The acceptor: AcceptStream, ...
AcceptStream(e, s) ==
  /\ dog[e] # "off" /\ held[e] = None /\ s \in waiting[e]
  /\ waiting' = [waiting EXCEPT ![e] = @ \ {s}]
  /\ held' = [held EXCEPT ![e] = s]
  /\ stream' = [stream EXCEPT ![s] = "held"]
  /\ UNCHANGED <<loop, session, pion, onopen, sess, dog, incoming>>

\* Faulty variants: the stream is appended to a full backlog; it is dropped there
\* and left open.
PushUnbounded(e) ==
  /\ held[e] # None
  /\ held' = [held EXCEPT ![e] = None]
  /\ incoming' = Append(incoming, held[e])
  /\ stream' = [stream EXCEPT ![held[e]] = "queued"]
  /\ UNCHANGED <<loop, session, pion, onopen, sess, dog, waiting>>

PushOrForget(e) ==
  /\ held[e] # None
  /\ held' = [held EXCEPT ![e] = None]
  /\ IF Len(incoming) < Backlog
     THEN /\ incoming' = Append(incoming, held[e])
          /\ stream' = [stream EXCEPT ![held[e]] = "queued"]
     ELSE UNCHANGED <<incoming, stream>>
  /\ UNCHANGED <<loop, session, pion, onopen, sess, dog, waiting>>

\* ... and the non-blocking send: a stream that finds the backlog full is closed.
Push(e) ==
  /\ held[e] # None
  /\ held' = [held EXCEPT ![e] = None]
  /\ IF Len(incoming) < Backlog
     THEN /\ incoming' = Append(incoming, held[e])
          /\ stream' = [stream EXCEPT ![held[e]] = "queued"]
     ELSE /\ stream' = [stream EXCEPT ![held[e]] = "closed"]
          /\ UNCHANGED incoming
  /\ UNCHANGED <<loop, session, pion, onopen, sess, dog, waiting>>

\* http.Server.Serve takes the next one from streamListener.
Accept ==
  /\ incoming # << >>
  /\ incoming' = Tail(incoming)
  /\ stream' = [stream EXCEPT ![Head(incoming)] = "served"]
  /\ UNCHANGED <<loop, session, pion, tunnels, waiting>>

-----------------------------------------------------------------------------
(* pion's PeerConnection, and the OnConnectionStateChange callback.        *)

IceConnects(e) ==
  /\ pcst[e] = "answered"
  /\ pcst' = [pcst EXCEPT ![e] = "connected"]
  /\ UNCHANGED <<loop, session, cbs, tunnels, streams>>

\* Giving up takes pion seconds, long after the callbacks were registered.
IceFails(e) ==
  /\ pcst[e] \in {"answered", "connected"} /\ ~(run = "wire" /\ epoch = e)
  /\ pcst' = [pcst EXCEPT ![e] = "failed"]
  /\ cbs' = cbs \cup {<<e, "failed", "check">>}
  /\ UNCHANGED <<loop, session, tunnels, streams>>

Terminal == {"failed", "closed"}

\* Under mu: a stale callback returns.
CallbackCheck(e, st) ==
  /\ <<e, st, "check">> \in cbs
  /\ cbs' = (cbs \ {<<e, st, "check">>}) \cup (IF epoch = e THEN {<<e, st, "act">>} ELSE {})
  /\ UNCHANGED <<loop, session, pcst, tunnels, streams>>

CallbackTerminal(e, st) ==
  /\ <<e, st, "act">> \in cbs
  /\ cbs' = cbs \ {<<e, st, "act">>}
  /\ token' = TRUE
  /\ UNCHANGED <<run, session, pcst, tunnels, streams>>

-----------------------------------------------------------------------------
(* handleSignal, called by the one signalLoop goroutine.                   *)

SignalReady ==
  /\ token' = TRUE
  /\ UNCHANGED <<run, session, pion, tunnels, streams>>

\* currentPC, ApplyRemote and the answer, in one step: outside mu, but when the PC has
\* been replaced in between, it is closed and the offer changes nothing.  Each call can
\* fail, and a PC that has answered an offer does not start over with another.
SignalOffer ==
  /\ pc # 0 /\ pcst[pc] = "new"
  /\ pcst' = [pcst EXCEPT ![pc] = "answered"]
  /\ UNCHANGED <<loop, session, cbs, tunnels, streams>>

-----------------------------------------------------------------------------
OnOpen(e) == OnOpenGuard(e) \/ ServeSucceeds(e) \/ ServeFails(e) \/ Install(e)
Acceptor(e) == Push(e) \/ \E s \in Stream : AcceptStream(e, s)
StateChange(e, st) == CallbackCheck(e, st) \/ CallbackTerminal(e, st)

Next ==
  \/ BuildPC \/ BuildPCFails \/ Wire \/ RetryAfterSleep
  \/ \E e \in Epoch :
       \/ DataChannelOpens(e) \/ OnOpen(e) \/ SessionDies(e) \/ Watchdog(e) \/ Acceptor(e)
       \/ IceConnects(e) \/ IceFails(e)
       \/ \E st \in Terminal : StateChange(e, st)
  \/ \E s \in Stream : StreamOpens(s)
  \/ Accept
  \/ SignalReady \/ SignalOffer

Spec == Init /\ [][Next]_vars

\* Goroutines that can move do; NewWithPolicy does not fail for ever.
Fairness ==
  /\ WF_vars(Wire) /\ WF_vars(RetryAfterSleep) /\ SF_vars(BuildPC)
  /\ WF_vars(Accept)
  /\ \A e \in Epoch : /\ WF_vars(OnOpen(e)) /\ WF_vars(Watchdog(e)) /\ WF_vars(Acceptor(e))
                      /\ WF_vars(StateChange(e, "failed"))

FairSpec == Spec /\ Fairness

-----------------------------------------------------------------------------
(* Properties.                                                             *)

TypeOK ==
  /\ run \in {"select", "wire", "sleep"} /\ token \in BOOLEAN
  /\ epoch \in 0..MaxEpoch /\ pc \in {0, epoch} /\ mux \in 0..MaxEpoch
  /\ run = "wire" => pc # 0
  /\ pcst \in [Epoch -> {"none", "new", "answered", "connected", "failed", "closed"}]
  /\ cbs \subseteq Epoch \X Terminal \X {"check", "act"}
  /\ onopen \in [Epoch -> {"none", "lost", "wired", "fired", "serve", "install", "done"}]
  /\ sess \in [Epoch -> {"none", "alive", "dead"}]
  /\ dog \in [Epoch -> {"off", "on", "fired"}] /\ held \in [Epoch -> Stream \cup {None}]
  /\ stream \in [Stream -> {"none", "pending", "held", "queued", "served", "closed"}]
  /\ waiting \in [Epoch -> SUBSET Stream]
  /\ incoming \in Seq(Stream)

\* A rebuild that overtakes a handshake leaks neither a PC nor a session: s.mux is of
\* the current epoch or nil; an open PC is s.pc; a session that lives is s.mux, or
\* its OnOpen has yet to decide.
OneLivePair ==
  /\ mux \in {0, epoch}
  /\ \A e \in Epoch : pcst[e] \notin {"none", "closed"} => pc = e
  /\ \A e \in Epoch : sess[e] = "alive" => mux = e \/ onopen[e] = "install"

\* A stream the acceptor has taken from its session is in hand or in the backlog,
\* once, until it is served or closed: streams do not get lost or served twice, and
\* a server that lags does not make the backlog grow.
StreamsTracked ==
  /\ Len(incoming) <= Backlog
  /\ \A e \in Epoch : held[e] # None => stream[held[e]] = "held"
  /\ \A e \in Epoch : waiting[e] = {s \in waiting[e] : stream[s] = "pending"}
  /\ \A s \in Stream : stream[s] = "held" => \E e \in Epoch : held[e] = s
  /\ \A i \in 1..Len(incoming) : /\ stream[incoming[i]] = "queued"
                                 /\ \A j \in 1..Len(incoming) : incoming[i] = incoming[j] => i = j
  /\ \A s \in Stream : stream[s] = "queued" => \E i \in 1..Len(incoming) : incoming[i] = s

\* A stream the viewer opens does not wait for ever: it is served, or closed because
\* the backlog is full or its session ended or lost the race to a rebuild.
StreamAnswered == \A s \in Stream : stream[s] = "pending" ~> stream[s] \in {"served", "closed"}

\* No lost wake-up: when the current session has died, or the current PC has failed,
\* another epoch is built, although requests made while one is pending are dropped.
DeadTunnelRebuilt ==
  \A e \in 1..(MaxEpoch - 1) :
    (epoch = e /\ (pcst[e] = "failed" \/ (mux = e /\ sess[e] = "dead"))) ~> epoch > e

-----------------------------------------------------------------------------
(* The supervisor implements Supervisor.                                   *)

\* The current tunnel is lost when its PC was closed or has failed, its session is
\* dead, or its OnOpen ended without one.
Lost ==
  \/ pc = 0
  \/ pcst[pc] = "failed"
  \/ IF mux = 0 THEN onopen[pc] = "done" ELSE sess[mux] = "dead"

Tunnel == IF Lost THEN "lost" ELSE IF mux = 0 THEN "coming" ELSE "up"

\* A state callback that will find its epoch current; the watchdog of a dead session.
CallbackDue == \E st \in Terminal, step \in {"check", "act"} : <<epoch, st, step>> \in cbs
WatchdogDue == mux # 0 /\ sess[mux] = "dead" /\ dog[mux] = "on"

Asked == token \/ run = "sleep" \/ CallbackDue \/ WatchdogDue

Sup == INSTANCE Supervisor WITH epoch <- epoch, tunnel <- Tunnel, asked <- Asked

\* One tunnel at a time, up at most once an epoch; a loss that any of the callbacks
\* notices, or a rebuild that fails, leaves a request that only a new epoch consumes.
ImplementsSupervisor == Sup!Spec

=============================================================================
