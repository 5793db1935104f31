--------------------------- MODULE ViewerSession ---------------------------
(***************************************************************************)
(* The viewer's supervisor, cmd/dav-client/main.go: viewerSession keeps    *)
(* one PeerConnection and one yamux session (mux) alive, rebuilding both   *)
(* under a fresh epoch whenever a callback asks for it, while proxy        *)
(* goroutines wait on the ready channel for a usable mux.                  *)
(*                                                                         *)
(* Goroutines: the supervisor loop (run), one OnOpen callback and one      *)
(* watchdog per epoch, one goroutine per connection-state callback (pion   *)
(* starts each in a goroutine of its own), the signal loop, the proxies.   *)
(* A step is what a goroutine does between two points at which another one *)
(* can observe it: a critical section of s.mu, a channel operation, a      *)
(* call that blocks.                                                       *)
(*                                                                         *)
(* PeerConnections and sessions are named by the epoch that created them   *)
(* and channels by serial numbers; 0 is nil.  SDP is abstracted to the     *)
(* epoch of the offer it answers.  The failure counter and the relay-only  *)
(* latch, which steer no step below, are superposed by ViewerEscalation.   *)
(***************************************************************************)
EXTENDS Naturals

CONSTANTS MaxEpoch,   \* bound: how often the supervisor may build a PC
          Proxy       \* bound: local TCP connections proxied at a time

ASSUME MaxEpochAssumption == MaxEpoch \in Nat

Epoch == 1..MaxEpoch
Channel == 1..(MaxEpoch + 1)

VARIABLES
  run,        \* where the supervisor loop is
  token,      \* rebuildCh (capacity 1) holds a request
  epoch, pc, mux, ready,        \* the fields of viewerSession under mu
  closed,     \* the ready channels that have been closed
  readyOf,    \* readyOf[e]: the readyCh that epoch e's OnOpen captured
  pcst,       \* pcst[e]: state of epoch e's PeerConnection (pion)
  onopen,     \* onopen[e]: progress of epoch e's OnOpen callback
  sess,       \* sess[e]: the yamux session epoch e's OnOpen dialled
  dog,        \* dog[e]: the watchdog goroutine of sess[e]
  cbs,        \* connection-state callbacks in flight: <<epoch, state, step>>
  sig,        \* the PC the signal loop is applying an envelope to
  proxy, wait,\* proxy[p]: progress; wait[p]: the channel it snapshotted
  crashed     \* the process died of a panic

session == <<epoch, pc, mux, ready>>
proxies == <<proxy, wait>>
vars == <<run, token, session, closed, readyOf, pcst, onopen, sess, dog,
          cbs, sig, proxies, crashed>>

Alive == ~crashed

Terminal == {"failed", "closed"}

Init ==
  /\ run = "select" /\ token = TRUE           \* run's initial requestRebuild
  /\ epoch = 0 /\ pc = 0 /\ mux = 0 /\ ready = 1
  /\ closed = {}
  /\ readyOf = [e \in Epoch |-> 0]
  /\ pcst   = [e \in Epoch |-> "none"]
  /\ onopen = [e \in Epoch |-> "none"]
  /\ sess   = [e \in Epoch |-> "none"]
  /\ dog    = [e \in Epoch |-> "off"]
  /\ cbs = {}
  /\ sig = 0
  /\ proxy = [p \in Proxy |-> "idle"]
  /\ wait  = [p \in Proxy |-> 0]
  /\ crashed = FALSE

-----------------------------------------------------------------------------
(* The supervisor: run and rebuild.                                        *)

\* rebuild's first lines: close and forget the current mux and PC.  pion
\* reports a closed PC to its state callback.
CloseSession(e) == IF mux # 0 /\ e = mux THEN "dead" ELSE sess[e]
ClosePC(e) == IF pc # 0 /\ e = pc THEN "closed" ELSE pcst[e]
ClosedCallback ==
  IF pc # 0 /\ pcst[pc] # "closed" THEN {<<pc, "closed", "check">>} ELSE {}

\* Faulty variant: every rebuild makes a fresh ready channel.
NextReadyAlwaysFresh == ready + 1

\* rebuild, under mu, when NewWithPolicy succeeds: the epoch is bumped, and the
\* ready channel is replaced only if it was already closed.
NextReady == IF ready \in closed THEN ready + 1 ELSE ready

Rebuild ==
  /\ Alive /\ run = "select" /\ token
  /\ epoch < MaxEpoch
  /\ token' = FALSE
  /\ run' = "wire"
  /\ epoch' = epoch + 1
  /\ pc' = epoch + 1
  /\ mux' = 0
  /\ ready' = NextReady
  /\ readyOf' = [readyOf EXCEPT ![epoch + 1] = NextReady]
  /\ sess' = [e \in Epoch |-> CloseSession(e)]
  /\ pcst' = [e \in Epoch |-> IF e = epoch + 1 THEN "new" ELSE ClosePC(e)]
  /\ cbs' = cbs \cup ClosedCallback
  /\ UNCHANGED <<closed, onopen, dog, sig, proxies, crashed>>

\* rebuild when NewWithPolicy fails: the old PC and mux are gone, epoch and
\* ready stay, and the loop sleeps.
RebuildNewFails ==
  /\ Alive /\ run = "select" /\ token
  /\ token' = FALSE
  /\ run' = "sleep"
  /\ pc' = 0 /\ mux' = 0
  /\ sess' = [e \in Epoch |-> CloseSession(e)]
  /\ pcst' = [e \in Epoch |-> ClosePC(e)]
  /\ cbs' = cbs \cup ClosedCallback
  /\ UNCHANGED <<epoch, ready, closed, readyOf, onopen, dog, sig,
                 proxies, crashed>>

\* The rest of rebuild, outside mu: callbacks are registered, the tunnel data
\* channel is created and the offer is set ...
RebuildOffer ==
  /\ Alive /\ run = "wire"
  /\ run' = "send"
  /\ onopen' = [onopen EXCEPT ![epoch] = "wired"]
  /\ pcst' = [pcst EXCEPT ![epoch] = "offered"]
  /\ UNCHANGED <<token, session, closed, readyOf, sess, dog, cbs, sig,
                 proxies, crashed>>

\* ... (or CreateDataChannel, CreateOffer or SetLocalDescription fails) ...
RebuildOfferFails ==
  /\ Alive /\ run = "wire"
  /\ run' = "sleep"
  /\ UNCHANGED <<token, session, closed, readyOf, pcst, onopen, sess, dog, cbs, sig,
                 proxies, crashed>>

\* ... and sent, which waits for the signaling client to be connected: the answer, or
\* one to an earlier offer, can be applied before Send returns.
RebuildSend ==
  /\ Alive /\ run = "send"
  /\ run' = "select"
  /\ UNCHANGED <<token, session, closed, readyOf, pcst, onopen, sess, dog, cbs, sig,
                 proxies, crashed>>

\* Sending the offer fails; whether it left is open.
RebuildSendFails ==
  /\ Alive /\ run = "send"
  /\ run' = "sleep"
  /\ UNCHANGED <<token, session, closed, readyOf, pcst, onopen, sess, dog, cbs, sig,
                 proxies, crashed>>

\* Faulty variant: run goes back to waiting after a failed rebuild.
RetryForgotten ==
  /\ Alive /\ run = "sleep"
  /\ run' = "select"
  /\ UNCHANGED <<token, session, closed, readyOf, pcst, onopen, sess, dog, cbs,
                 sig, proxies, crashed>>

\* run: two seconds after a failed rebuild it asks itself for another one.
RetryAfterSleep ==
  /\ Alive /\ run = "sleep"
  /\ run' = "select"
  /\ token' = TRUE
  /\ UNCHANGED <<session, closed, readyOf, pcst, onopen, sess, dog, cbs,
                 sig, proxies, crashed>>

-----------------------------------------------------------------------------
(* The OnOpen callback of epoch e's data channel, and its watchdog.        *)

\* The data channel opens once ICE and DTLS are up.
DataChannelOpens(e) ==
  /\ Alive /\ onopen[e] = "wired" /\ pcst[e] = "connected"
  /\ onopen' = [onopen EXCEPT ![e] = "fired"]
  /\ UNCHANGED <<run, token, session, closed, readyOf, pcst, sess, dog,
                 cbs, sig, proxies, crashed>>

\* OnOpen: first stale-epoch guard.
OnOpenGuard(e) ==
  /\ Alive /\ onopen[e] = "fired"
  /\ onopen' = [onopen EXCEPT ![e] = IF epoch = e THEN "dialing" ELSE "done"]
  /\ UNCHANGED <<run, token, session, closed, readyOf, pcst, sess, dog,
                 cbs, sig, proxies, crashed>>

\* tunnel.Dial returns a session: Noise and yamux are up over a working PC.
DialSucceeds(e) ==
  /\ Alive /\ onopen[e] = "dialing" /\ pcst[e] = "connected"
  /\ sess' = [sess EXCEPT ![e] = "alive"]
  /\ onopen' = [onopen EXCEPT ![e] = "install"]
  /\ UNCHANGED <<run, token, session, closed, readyOf, pcst, dog, cbs, sig,
                 proxies, crashed>>

\* tunnel.Dial fails (handshake timeout, wrong key, PC gone): rebuild, whatever
\* epoch it is by now.
DialFails(e) ==
  /\ Alive /\ onopen[e] = "dialing"
  /\ token' = TRUE
  /\ onopen' = [onopen EXCEPT ![e] = "done"]
  /\ UNCHANGED <<run, session, closed, readyOf, pcst, sess, dog, cbs, sig,
                 proxies, crashed>>

\* Faulty variant: OnOpen installs its session without the second guard.
OnOpenInstallUnguarded(e) ==
  /\ Alive /\ onopen[e] = "install"
  /\ mux' = e
  /\ onopen' = [onopen EXCEPT ![e] = "closeReady"]
  /\ UNCHANGED <<run, token, epoch, pc, ready, closed, readyOf, pcst, sess, dog,
                 cbs, sig, proxies, crashed>>

\* OnOpen: second guard under mu; the session is installed, or closed if
\* another rebuild won the race.
OnOpenInstall(e) ==
  /\ Alive /\ onopen[e] = "install"
  /\ IF epoch = e
     THEN /\ mux' = e
          /\ onopen' = [onopen EXCEPT ![e] = "closeReady"]
          /\ UNCHANGED sess
     ELSE /\ sess' = [sess EXCEPT ![e] = "dead"]
          /\ onopen' = [onopen EXCEPT ![e] = "done"]
          /\ UNCHANGED mux
  /\ UNCHANGED <<run, token, epoch, pc, ready, closed, readyOf, pcst, dog,
                 cbs, sig, proxies, crashed>>

\* OnOpen, after mu is released: close(readyCh), which panics if the channel is
\* already closed, then start the watchdog.
OnOpenCloseReady(e) ==
  /\ Alive /\ onopen[e] = "closeReady"
  /\ onopen' = [onopen EXCEPT ![e] = "done"]
  /\ IF readyOf[e] \in closed
     THEN crashed' = TRUE /\ UNCHANGED <<closed, dog>>
     ELSE /\ closed' = closed \cup {readyOf[e]}
          /\ dog' = [dog EXCEPT ![e] = "on"]
          /\ UNCHANGED crashed
  /\ UNCHANGED <<run, token, session, readyOf, pcst, sess, cbs, sig,
                 proxies>>

\* The session dies by itself: peer closed it, secure connection EOF, PC gone.
SessionDies(e) ==
  /\ Alive /\ sess[e] = "alive"
  /\ sess' = [sess EXCEPT ![e] = "dead"]
  /\ UNCHANGED <<run, token, session, closed, readyOf, pcst, onopen, dog,
                 cbs, sig, proxies, crashed>>

\* Faulty variant: the watchdog ends without asking for a rebuild.
WatchdogSilent(e) ==
  /\ Alive /\ dog[e] = "on" /\ sess[e] = "dead"
  /\ dog' = [dog EXCEPT ![e] = "fired"]
  /\ UNCHANGED <<run, token, session, closed, readyOf, pcst, onopen, sess, cbs, sig,
                 proxies, crashed>>

\* The watchdog sees CloseChan and asks for a rebuild, whatever epoch it is.
Watchdog(e) ==
  /\ Alive /\ dog[e] = "on" /\ sess[e] = "dead"
  /\ dog' = [dog EXCEPT ![e] = "fired"]
  /\ token' = TRUE
  /\ UNCHANGED <<run, session, closed, readyOf, pcst, onopen, sess, cbs, sig,
                 proxies, crashed>>

-----------------------------------------------------------------------------
(* pion's PeerConnection and the OnConnectionStateChange callback.         *)

\* ICE and DTLS complete; only the answer to this PC's own offer gets there.
\* (A dip to Disconnected and back, which the callback ignores, is left out.)
IceConnects(e) ==
  /\ Alive /\ pcst[e] = "answered"
  /\ pcst' = [pcst EXCEPT ![e] = "connected"]
  /\ UNCHANGED <<run, token, session, closed, readyOf, onopen, sess, dog, cbs, sig,
                 proxies, crashed>>

IceFails(e) ==
  /\ Alive /\ pcst[e] \in {"answered", "poisoned", "connected"}
  /\ pcst' = [pcst EXCEPT ![e] = "failed"]
  /\ cbs' = cbs \cup {<<e, "failed", "check">>}
  /\ UNCHANGED <<run, token, session, closed, readyOf, onopen, sess, dog, sig,
                 proxies, crashed>>

\* The callback's epoch check, under mu: a stale callback returns.
CallbackCheck(e, st) ==
  /\ Alive /\ <<e, st, "check">> \in cbs
  /\ cbs' = (cbs \ {<<e, st, "check">>})
              \cup (IF epoch = e THEN {<<e, st, "act">>} ELSE {})
  /\ UNCHANGED <<run, token, session, closed, readyOf, pcst, onopen, sess, dog, sig,
                 proxies, crashed>>

\* Failed or Closed: ask for a rebuild.
CallbackTerminal(e, st) ==
  /\ Alive /\ <<e, st, "act">> \in cbs
  /\ cbs' = cbs \ {<<e, st, "act">>}
  /\ token' = TRUE
  /\ UNCHANGED <<run, session, closed, readyOf, pcst, onopen, sess, dog, sig,
                 proxies, crashed>>

-----------------------------------------------------------------------------
(* handleSignal, called by the one signalLoop goroutine.                   *)

\* A mid-session "ready": the owner rejoined.
SignalReady ==
  /\ Alive /\ sig = 0
  /\ token' = TRUE
  /\ UNCHANGED <<run, session, closed, readyOf, pcst, onopen, sess, dog, cbs,
                 sig, proxies, crashed>>

\* An sdp envelope: the current PC is snapshotted under mu (nil: ignored).
SignalTake ==
  /\ Alive /\ sig = 0 /\ pc # 0
  /\ sig' = pc
  /\ UNCHANGED <<run, token, session, closed, readyOf, pcst, onopen, sess, dog,
                 cbs, proxies, crashed>>

\* ApplyRemote on that PC: an answer to epoch a's offer is accepted by any PC
\* that waits for one, also if that is not its own answer; another PC returns
\* an error.  (An ice envelope changes nothing that the session can see.)
SignalApply(a) ==
  /\ Alive /\ sig # 0 /\ a <= epoch
  /\ pcst' = IF pcst[sig] # "offered" THEN pcst
             ELSE [pcst EXCEPT ![sig] = IF a = sig THEN "answered" ELSE "poisoned"]
  /\ sig' = 0
  /\ UNCHANGED <<run, token, session, closed, readyOf, onopen, sess, dog, cbs,
                 proxies, crashed>>

-----------------------------------------------------------------------------
(* proxy: one goroutine per accepted local connection.                     *)

\* snapshotMux: remember the ready channel.
ProxyStart(p) ==
  /\ Alive /\ proxy[p] \in {"idle", "noMux"}
  /\ proxy' = [proxy EXCEPT ![p] = "waiting"]
  /\ wait' = [wait EXCEPT ![p] = ready]
  /\ UNCHANGED <<run, token, session, closed, readyOf, pcst, onopen, sess, dog,
                 cbs, sig, crashed>>

ProxyWakes(p) ==
  /\ Alive /\ proxy[p] = "waiting" /\ wait[p] \in closed
  /\ proxy' = [proxy EXCEPT ![p] = "woken"]
  /\ UNCHANGED <<run, token, session, closed, readyOf, pcst, onopen, sess, dog,
                 cbs, sig, wait, crashed>>

\* tunnelReadyTimeout passes first: the local connection is closed.
ProxyTimesOut(p) ==
  /\ Alive /\ proxy[p] = "waiting"
  /\ proxy' = [proxy EXCEPT ![p] = "idle"]
  /\ wait' = [wait EXCEPT ![p] = 0]
  /\ UNCHANGED <<run, token, session, closed, readyOf, pcst, onopen, sess, dog,
                 cbs, sig, crashed>>

\* Second snapshotMux: a nil mux drops the connection at once; with a mux it is
\* served for as long as that session lives.
ProxyOpens(p) ==
  /\ Alive /\ proxy[p] = "woken"
  /\ proxy' = [proxy EXCEPT ![p] = IF mux = 0 THEN "noMux" ELSE "idle"]
  /\ wait' = [wait EXCEPT ![p] = 0]
  /\ UNCHANGED <<run, token, session, closed, readyOf, pcst, onopen, sess, dog,
                 cbs, sig, crashed>>

-----------------------------------------------------------------------------
OnOpen(e) == OnOpenGuard(e) \/ DialSucceeds(e) \/ DialFails(e)
             \/ OnOpenInstall(e) \/ OnOpenCloseReady(e)
StateChange(e, st) == CallbackCheck(e, st) \/ CallbackTerminal(e, st)

Next ==
  \/ Rebuild \/ RebuildNewFails \/ RebuildOffer \/ RebuildOfferFails
  \/ RebuildSend \/ RebuildSendFails \/ RetryAfterSleep
  \/ \E e \in Epoch :
       \/ OnOpen(e) \/ Watchdog(e) \/ DataChannelOpens(e) \/ SessionDies(e)
       \/ \E st \in Terminal : StateChange(e, st)
       \/ IceConnects(e) \/ IceFails(e) \/ SignalApply(e)
  \/ SignalReady \/ SignalTake
  \/ \E p \in Proxy : ProxyStart(p) \/ ProxyWakes(p) \/ ProxyTimesOut(p) \/ ProxyOpens(p)

Spec == Init /\ [][Next]_vars

\* Goroutines that can move do, the signaling client's Send returns (it sends, or
\* gives up reconnecting) and NewWithPolicy does not fail for ever.
FairSpec ==
  /\ Spec
  /\ WF_vars(RebuildOffer \/ RebuildOfferFails)
  /\ WF_vars(RebuildSend \/ RebuildSendFails)
  /\ WF_vars(RetryAfterSleep)
  /\ SF_vars(Rebuild)
  /\ \A e \in Epoch : WF_vars(OnOpen(e)) /\ WF_vars(Watchdog(e)) /\ WF_vars(StateChange(e, "failed"))

-----------------------------------------------------------------------------
(* Properties.                                                             *)

TypeOK ==
  /\ run \in {"select", "wire", "send", "sleep"}
  /\ token \in BOOLEAN /\ crashed \in BOOLEAN
  /\ epoch \in 0..MaxEpoch /\ pc \in {0, epoch} /\ mux \in 0..MaxEpoch
  /\ run \in {"wire", "send"} => epoch \in Epoch
  /\ ready \in Channel /\ closed \subseteq Channel
  /\ ready <= epoch + 1
  /\ readyOf \in [Epoch -> 0..(MaxEpoch + 1)]
  /\ pcst \in [Epoch -> {"none", "new", "offered", "answered", "poisoned", "connected",
                        "failed", "closed"}]
  /\ onopen \in [Epoch -> {"none", "wired", "fired", "dialing", "install", "closeReady", "done"}]
  /\ sess \in [Epoch -> {"none", "alive", "dead"}]
  /\ dog \in [Epoch -> {"off", "on", "fired"}]
  /\ cbs \subseteq Epoch \X Terminal \X {"check", "act"}
  /\ sig \in 0..MaxEpoch
  /\ proxy \in [Proxy -> {"idle", "waiting", "woken", "noMux"}]
  /\ wait \in [Proxy -> 0..(MaxEpoch + 1)]

\* "Only one (PC, mux) pair is live at a time": s.mux is of the current epoch
\* or nil; a PC that is not closed is s.pc; a yamux session that is alive is
\* s.mux, or its OnOpen has yet to decide whether to install or close it.  A
\* rebuild that overtakes a handshake therefore leaks neither.
OneLivePair ==
  /\ mux \in {0, epoch}
  /\ \A e \in Epoch : pcst[e] \notin {"none", "closed"} => pc = e
  /\ \A e \in Epoch : sess[e] = "alive" => mux = e \/ onopen[e] = "install"

\* Early callers do not get stuck on a stale channel (rebuild's comment): the
\* channel a proxy waits on is closed, or it is the one that the OnOpen of the
\* current epoch, and of every epoch whose rebuild reuses it, will close.
WaitersReachable ==
  /\ \A p \in Proxy : proxy[p] = "waiting" => wait[p] = ready \/ wait[p] \in closed
  /\ epoch # 0 => readyOf[epoch] = ready

\* No lost wake-up: when the current session has died, or the current PC has
\* failed, another epoch is built, although requests made while one is pending
\* are dropped and rebuilds may fail on the way.
DeadTunnelRebuilt ==
  \A e \in 1..(MaxEpoch - 1) :
    (epoch = e /\ (pcst[e] = "failed" \/ (mux = e /\ sess[e] = "dead")))
      ~> (epoch > e \/ ~Alive)

\* Claimed at cmd/dav-client/main.go:90: a ready channel is "closed once mux is
\* established this epoch"; closing it a second time is a panic.
NoDoubleClose == ~crashed

-----------------------------------------------------------------------------
(* The supervisor implements Supervisor.                                   *)

\* The current tunnel is lost when its PC was closed or has failed, its session is
\* dead, or its OnOpen ended without one.
Lost ==
  \/ pc = 0
  \/ pcst[pc] = "failed"
  \/ IF mux = 0 THEN onopen[pc] \in {"closeReady", "done"} ELSE sess[mux] = "dead"

Tunnel ==
  IF crashed THEN "crashed" ELSE IF Lost THEN "lost" ELSE IF mux = 0 THEN "coming" ELSE "up"

\* A state callback that will find its epoch current.
CallbackDue == \E st \in Terminal, step \in {"check", "act"} : <<epoch, st, step>> \in cbs

\* The watchdog of the installed session runs, or is about to be started, and that
\* session is dead.
WatchdogDue == mux # 0 /\ sess[mux] = "dead" /\ (dog[mux] = "on" \/ onopen[mux] = "closeReady")

Asked == ~crashed /\ (token \/ run = "sleep" \/ CallbackDue \/ WatchdogDue)

Sup == INSTANCE Supervisor WITH epoch <- epoch, tunnel <- Tunnel, asked <- Asked

\* One tunnel at a time, up at most once an epoch; a loss that any of the callbacks
\* notices, or a rebuild that fails, leaves a request that only a new epoch consumes.
ImplementsSupervisor == Sup!Spec

=============================================================================
