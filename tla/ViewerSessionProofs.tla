------------------------ MODULE ViewerSessionProofs ------------------------
(***************************************************************************)
(* Proofs about the viewer's supervisor, for every number of epochs and    *)
(* every set of proxies: types, the uniqueness of the live (PC, mux) pair, *)
(* the ready-channel discipline, the relay-only policy, and that a rebuild *)
(* asked for is never forgotten: the supervisor implements Supervisor.     *)
(***************************************************************************)
EXTENDS ViewerEscalation, FiniteSetTheorems, TLAPS

\* Channels are created in order and replaced only once closed, so an older one
\* than s.ready is closed; nobody holds a newer one.
ChannelInv ==
  /\ \A ch \in 1..(ready - 1) : ch \in closed
  /\ \A p \in Proxy : proxy[p] = "waiting" => wait[p] \in 1..ready
  /\ epoch # 0 => readyOf[epoch] = ready

\* Between the two halves of rebuild the new PC is s.pc and has no callbacks;
\* callbacks and captured channels belong to epochs that have begun.
WireInv ==
  /\ run = "wire" => pc = epoch /\ onopen[epoch] = "none"
  /\ \A e \in Epoch : IF e <= epoch THEN readyOf[e] \in Channel ELSE onopen[e] = "none"

SessionInv == TypeOK /\ ChannelInv /\ WireInv /\ OneLivePair

LEMMA InitSession == Init => SessionInv
  <1> SUFFICES ASSUME Init PROVE SessionInv
    OBVIOUS
  <1> USE MaxEpochAssumption DEF Init
  <1>1. 1 \in Channel /\ 0 \in 0..MaxEpoch /\ 0 \in 0..(MaxEpoch + 1)
    BY DEF Channel
  <1>2. TypeOK
    <2>1. /\ token \in BOOLEAN /\ crashed \in BOOLEAN
          /\ cbs \subseteq Epoch \X Terminal \X {"check", "act"}
      OBVIOUS
    <2> QED BY <1>1, <2>1 DEF TypeOK
  <1>3. ChannelInv /\ WireInv /\ OneLivePair
    BY DEF ChannelInv, WireInv, OneLivePair, Epoch
  <1> QED BY <1>2, <1>3 DEF SessionInv

LEMMA NextReadyRange ==
  ASSUME TypeOK, epoch < MaxEpoch
  PROVE  NextReady \in Channel /\ NextReady <= epoch + 2 /\ NextReady \in {ready, ready + 1}
         /\ (NextReady = ready + 1 => ready \in closed)
  BY MaxEpochAssumption DEF TypeOK, NextReady, Channel

LEMMA ClosedCallbackType ==
  ASSUME TypeOK
  PROVE  ClosedCallback \subseteq Epoch \X Terminal \X {"check", "act"}
  BY MaxEpochAssumption DEF TypeOK, ClosedCallback, Terminal, Epoch

LEMMA RebuildStep == SessionInv /\ Rebuild => SessionInv'
  <1> SUFFICES ASSUME SessionInv, Rebuild PROVE SessionInv'
    OBVIOUS
  <1> USE MaxEpochAssumption DEF SessionInv
  <1>1. /\ epoch \in Nat /\ epoch < MaxEpoch /\ epoch + 1 \in Epoch /\ epoch' = epoch + 1
        /\ NextReady \in Channel /\ NextReady <= epoch + 2
        /\ NextReady \in {ready, ready + 1} /\ (NextReady = ready + 1 => ready \in closed)
    BY NextReadyRange DEF Rebuild, TypeOK, Epoch
  <1>2. \A e \in Epoch : CloseSession(e) \in {"none", "alive", "dead"}
    BY DEF TypeOK, CloseSession
  <1>3. \A e \in Epoch : ClosePC(e) \in {"none", "new", "offered", "answered", "poisoned",
                                        "connected", "failed", "closed"}
    BY DEF TypeOK, ClosePC
  <1>4. TypeOK'
    <2>1. cbs' \subseteq Epoch \X Terminal \X {"check", "act"}
      BY ClosedCallbackType DEF Rebuild, TypeOK
    <2>2. readyOf' \in [Epoch -> 0..(MaxEpoch + 1)]
      BY <1>1 DEF Rebuild, TypeOK, Channel
    <2>3. pcst' \in [Epoch -> {"none", "new", "offered", "answered", "poisoned",
                               "connected", "failed", "closed"}]
      BY <1>3 DEF Rebuild
    <2>4. sess' \in [Epoch -> {"none", "alive", "dead"}]
      BY <1>2 DEF Rebuild
    <2>5. epoch' \in 0..MaxEpoch /\ epoch' \in Epoch /\ ready' \in Channel /\ ready' <= epoch' + 1
      BY <1>1 DEF Rebuild
    <2>6. token' \in BOOLEAN /\ crashed' \in BOOLEAN
      BY DEF Rebuild, TypeOK
    <2>7. /\ run' \in {"select", "wire", "sleep"} /\ pc' \in {0, epoch'} /\ mux' \in 0..MaxEpoch
          /\ UNCHANGED <<closed, onopen, dog, sig, proxy, wait>>
      BY DEF Rebuild, proxies
    <2> QED BY <2>1, <2>2, <2>3, <2>4, <2>5, <2>6, <2>7 DEF TypeOK
  <1>5. ChannelInv'
    <2>1. readyOf'[epoch'] = ready'
      BY <1>1 DEF Rebuild, TypeOK
    <2>2. \A ch \in 1..(ready' - 1) : ch \in closed'
      BY <1>1 DEF Rebuild, TypeOK, ChannelInv, Channel
    <2>3. \A p \in Proxy : proxy'[p] = "waiting" => wait'[p] \in 1..ready'
      BY <1>1 DEF Rebuild, TypeOK, ChannelInv, Channel, proxies
    <2> QED BY <2>1, <2>2, <2>3 DEF ChannelInv
  <1>6. WireInv'
    BY <1>1 DEF Rebuild, WireInv, TypeOK, Epoch
  <1>7. OneLivePair'
    <2>1. mux' = 0 /\ pc' = epoch + 1 /\ UNCHANGED onopen
      BY DEF Rebuild
    <2>2. \A e \in Epoch : sess'[e] = "alive" => sess[e] = "alive" /\ mux # e
      BY DEF Rebuild, CloseSession, Epoch
    <2>3. \A e \in Epoch : e # epoch + 1 => pcst'[e] \in {"none", "closed"}
      BY DEF Rebuild, ClosePC, OneLivePair, Epoch
    <2> QED BY <2>1, <2>2, <2>3 DEF OneLivePair
  <1> QED BY <1>4, <1>5, <1>6, <1>7

LEMMA RebuildFailsStep == SessionInv /\ RebuildNewFails => SessionInv'
  <1> SUFFICES ASSUME SessionInv, RebuildNewFails PROVE SessionInv'
    OBVIOUS
  <1> USE MaxEpochAssumption DEF SessionInv
  <1>1. \A e \in Epoch : CloseSession(e) \in {"none", "alive", "dead"}
    BY DEF TypeOK, CloseSession
  <1>2. \A e \in Epoch : ClosePC(e) \in {"none", "new", "offered", "answered", "poisoned",
                                        "connected", "failed", "closed"}
    BY DEF TypeOK, ClosePC
  <1>3. TypeOK'
    <2>1. cbs' \subseteq Epoch \X Terminal \X {"check", "act"}
      BY ClosedCallbackType DEF RebuildNewFails, TypeOK
    <2>2. pcst' \in [Epoch -> {"none", "new", "offered", "answered", "poisoned",
                               "connected", "failed", "closed"}]
      BY <1>2 DEF RebuildNewFails
    <2>3. sess' \in [Epoch -> {"none", "alive", "dead"}]
      BY <1>1 DEF RebuildNewFails
    <2>4. token' \in BOOLEAN /\ crashed' \in BOOLEAN
      BY DEF RebuildNewFails, TypeOK
    <2>5. /\ run' \in {"select", "sleep"} /\ pc' \in {0, epoch'} /\ mux' \in 0..MaxEpoch
          /\ UNCHANGED <<epoch, ready, closed, readyOf, onopen, dog, sig, proxy, wait>>
      BY DEF RebuildNewFails, proxies
    <2> QED BY <2>1, <2>2, <2>3, <2>4, <2>5 DEF TypeOK
  <1>4. ChannelInv' /\ WireInv'
    BY DEF RebuildNewFails, ChannelInv, WireInv, proxies
  <1>5. OneLivePair'
    <2>1. mux' = 0 /\ pc' = 0 /\ UNCHANGED <<onopen, epoch>>
      BY DEF RebuildNewFails
    <2>2. \A e \in Epoch : sess'[e] = "alive" => sess[e] = "alive" /\ mux # e
      BY DEF RebuildNewFails, CloseSession, Epoch
    <2>3. \A e \in Epoch : pcst'[e] \in {"none", "closed"}
      BY DEF RebuildNewFails, ClosePC, OneLivePair, Epoch
    <2> QED BY <2>1, <2>2, <2>3 DEF OneLivePair
  <1> QED BY <1>3, <1>4, <1>5

\* The other steps, one lemma per goroutine.
\* run outside mu, and the signal loop's snapshot.
LEMMA SupervisorStep ==
  ASSUME SessionInv,
         \/ RebuildOffer \/ RebuildOfferFails \/ RebuildSend \/ RebuildSendFails
         \/ RetryAfterSleep \/ SignalReady \/ SignalTake
  PROVE  SessionInv'
  <1> USE MaxEpochAssumption DEF SessionInv
  <1>1. CASE RebuildOffer
    <2>1. TypeOK'
      BY <1>1 DEF RebuildOffer, TypeOK, session, proxies, Epoch, Channel, Terminal
    <2>2. ChannelInv' /\ WireInv' /\ OneLivePair'
      BY <1>1 DEF RebuildOffer, TypeOK, ChannelInv, WireInv, OneLivePair, session, proxies, Epoch, Channel, Terminal
    <2> QED BY <2>1, <2>2
  <1>2. CASE RebuildOfferFails
    <2>1. TypeOK'
      BY <1>2 DEF RebuildOfferFails, TypeOK, session, proxies, Epoch, Channel, Terminal
    <2>2. ChannelInv' /\ WireInv' /\ OneLivePair'
      BY <1>2 DEF RebuildOfferFails, TypeOK, ChannelInv, WireInv, OneLivePair, session, proxies, Epoch, Channel, Terminal
    <2> QED BY <2>1, <2>2
  <1>3. CASE RetryAfterSleep
    <2>1. TypeOK'
      BY <1>3 DEF RetryAfterSleep, TypeOK, session, proxies, Epoch, Channel, Terminal
    <2>2. ChannelInv' /\ WireInv' /\ OneLivePair'
      BY <1>3 DEF RetryAfterSleep, TypeOK, ChannelInv, WireInv, OneLivePair, session, proxies, Epoch, Channel, Terminal
    <2> QED BY <2>1, <2>2
  <1>4. CASE SignalReady
    <2>1. TypeOK'
      BY <1>4 DEF SignalReady, TypeOK, session, proxies, Epoch, Channel, Terminal
    <2>2. ChannelInv' /\ WireInv' /\ OneLivePair'
      BY <1>4 DEF SignalReady, TypeOK, ChannelInv, WireInv, OneLivePair, session, proxies, Epoch, Channel, Terminal
    <2> QED BY <2>1, <2>2
  <1>5. CASE SignalTake
    <2>1. TypeOK'
      BY <1>5 DEF SignalTake, TypeOK, session, proxies, Epoch, Channel, Terminal
    <2>2. ChannelInv' /\ WireInv' /\ OneLivePair'
      BY <1>5 DEF SignalTake, TypeOK, ChannelInv, WireInv, OneLivePair, session, proxies, Epoch, Channel, Terminal
    <2> QED BY <2>1, <2>2
  <1>6. CASE RebuildSend \/ RebuildSendFails
    <2>1. TypeOK'
      BY <1>6 DEF RebuildSend, RebuildSendFails, TypeOK, session, proxies
    <2>2. ChannelInv' /\ WireInv' /\ OneLivePair'
      BY <1>6 DEF RebuildSend, RebuildSendFails, ChannelInv, WireInv, OneLivePair, session, proxies
    <2> QED BY <2>1, <2>2
  <1> QED BY <1>1, <1>2, <1>3, <1>4, <1>5, <1>6

\* The OnOpen callback and the watchdog.
LEMMA OnOpenStep ==
  ASSUME SessionInv, NEW e \in Epoch,
         OnOpenGuard(e) \/ DialSucceeds(e) \/ DialFails(e) \/ OnOpenInstall(e) \/ OnOpenCloseReady(e) \/ Watchdog(e)
  PROVE  SessionInv'
  <1> USE MaxEpochAssumption DEF SessionInv
  <1>1. CASE OnOpenGuard(e)
    <2>1. TypeOK'
      BY <1>1 DEF OnOpenGuard, TypeOK, session, proxies, Epoch, Channel, Terminal
    <2>2. ChannelInv' /\ WireInv' /\ OneLivePair'
      BY <1>1 DEF OnOpenGuard, TypeOK, ChannelInv, WireInv, OneLivePair, session, proxies, Epoch, Channel, Terminal
    <2> QED BY <2>1, <2>2
  <1>2. CASE DialSucceeds(e)
    <2>1. TypeOK'
      BY <1>2 DEF DialSucceeds, TypeOK, session, proxies, Epoch, Channel, Terminal
    <2>2. ChannelInv' /\ WireInv' /\ OneLivePair'
      BY <1>2 DEF DialSucceeds, TypeOK, ChannelInv, WireInv, OneLivePair, session, proxies, Epoch, Channel, Terminal
    <2> QED BY <2>1, <2>2
  <1>3. CASE DialFails(e)
    <2>1. TypeOK'
      BY <1>3 DEF DialFails, TypeOK, session, proxies, Epoch, Channel, Terminal
    <2>2. ChannelInv' /\ WireInv' /\ OneLivePair'
      BY <1>3 DEF DialFails, TypeOK, ChannelInv, WireInv, OneLivePair, session, proxies, Epoch, Channel, Terminal
    <2> QED BY <2>1, <2>2
  <1>4. CASE OnOpenInstall(e)
    <2>1. CASE epoch = e
      <3>1. /\ mux' = e /\ onopen' = [onopen EXCEPT ![e] = "closeReady"]
            /\ UNCHANGED <<run, token, epoch, pc, ready, closed, readyOf, pcst, sess, dog,
                           cbs, sig, proxy, wait, crashed>>
        BY <1>4, <2>1 DEF OnOpenInstall, proxies
      <3>2. TypeOK'
        BY <3>1 DEF TypeOK, Epoch
      <3>3. ChannelInv' /\ WireInv'
        BY <1>4, <3>1 DEF OnOpenInstall, TypeOK, ChannelInv, WireInv
      <3>4. \A d \in Epoch : sess[d] = "alive" => d = e \/ onopen'[d] = "install"
        <4> SUFFICES ASSUME NEW d \in Epoch, sess[d] = "alive", d # e PROVE onopen'[d] = "install"
          OBVIOUS
        <4>1. mux \in {0, e} /\ d # 0
          BY <2>1 DEF OneLivePair, Epoch
        <4>2. onopen[d] = "install"
          BY <4>1 DEF OneLivePair
        <4> QED BY <3>1, <4>2 DEF TypeOK
      <3>5. OneLivePair'
        BY <2>1, <3>1, <3>4 DEF OneLivePair
      <3> QED BY <3>2, <3>3, <3>5
    <2>2. CASE epoch # e
      <3>1. /\ sess' = [sess EXCEPT ![e] = "dead"] /\ onopen' = [onopen EXCEPT ![e] = "done"]
            /\ UNCHANGED <<run, token, epoch, pc, mux, ready, closed, readyOf, pcst, dog,
                           cbs, sig, proxy, wait, crashed>>
        BY <1>4, <2>2 DEF OnOpenInstall, proxies
      <3>2. TypeOK'
        BY <3>1 DEF TypeOK
      <3>3. ChannelInv' /\ WireInv'
        BY <1>4, <3>1 DEF OnOpenInstall, TypeOK, ChannelInv, WireInv
      <3>4. OneLivePair'
        BY <3>1 DEF TypeOK, OneLivePair
      <3> QED BY <3>2, <3>3, <3>4
    <2> QED BY <2>1, <2>2
  <1>5. CASE OnOpenCloseReady(e)
    <2>1. readyOf[e] \in Channel /\ onopen' = [onopen EXCEPT ![e] = "done"]
          /\ UNCHANGED <<run, token, epoch, pc, mux, ready, readyOf, pcst, sess, cbs, sig, proxy, wait>>
      BY <1>5 DEF OnOpenCloseReady, WireInv, session, proxies, TypeOK, Epoch
    <2>2. closed' \in {closed, closed \cup {readyOf[e]}} /\ dog' \in {dog, [dog EXCEPT ![e] = "on"]}
      BY <1>5 DEF OnOpenCloseReady
    <2>3. crashed' \in BOOLEAN
      BY <1>5 DEF OnOpenCloseReady, TypeOK
    <2>4. TypeOK'
      <3>1. closed' \subseteq Channel
        BY <2>1, <2>2 DEF TypeOK
      <3>2. dog' \in [Epoch -> {"off", "on", "fired"}]
        BY <2>2 DEF TypeOK
      <3> QED BY <2>1, <2>3, <3>1, <3>2 DEF TypeOK
    <2>5. ChannelInv' /\ WireInv' /\ OneLivePair'
      BY <1>5, <2>1, <2>2 DEF OnOpenCloseReady, TypeOK, ChannelInv, WireInv, OneLivePair
    <2> QED BY <2>4, <2>5
  <1>6. CASE Watchdog(e)
    <2>1. TypeOK'
      BY <1>6 DEF Watchdog, TypeOK, session, proxies, Epoch, Channel, Terminal
    <2>2. ChannelInv' /\ WireInv' /\ OneLivePair'
      BY <1>6 DEF Watchdog, TypeOK, ChannelInv, WireInv, OneLivePair, session, proxies, Epoch, Channel, Terminal
    <2> QED BY <2>1, <2>2
  <1> QED BY <1>1, <1>2, <1>3, <1>4, <1>5, <1>6

\* pion, the yamux session and the signal loop.
LEMMA PeerStep ==
  ASSUME SessionInv, NEW e \in Epoch,
         DataChannelOpens(e) \/ SessionDies(e) \/ IceConnects(e) \/ IceFails(e) \/ SignalApply(e)
  PROVE  SessionInv'
  <1> USE MaxEpochAssumption DEF SessionInv
  <1>1. CASE DataChannelOpens(e)
    <2>1. TypeOK'
      BY <1>1 DEF DataChannelOpens, TypeOK, session, proxies, Epoch, Channel, Terminal
    <2>2. ChannelInv' /\ WireInv' /\ OneLivePair'
      BY <1>1 DEF DataChannelOpens, TypeOK, ChannelInv, WireInv, OneLivePair, session, proxies, Epoch, Channel, Terminal
    <2> QED BY <2>1, <2>2
  <1>2. CASE SessionDies(e)
    <2>1. TypeOK'
      BY <1>2 DEF SessionDies, TypeOK, session, proxies, Epoch, Channel, Terminal
    <2>2. ChannelInv' /\ WireInv' /\ OneLivePair'
      BY <1>2 DEF SessionDies, TypeOK, ChannelInv, WireInv, OneLivePair, session, proxies, Epoch, Channel, Terminal
    <2> QED BY <2>1, <2>2
  <1>3. CASE IceConnects(e)
    <2>1. TypeOK'
      BY <1>3 DEF IceConnects, TypeOK, session, proxies, Epoch, Channel, Terminal
    <2>2. ChannelInv' /\ WireInv' /\ OneLivePair'
      BY <1>3 DEF IceConnects, TypeOK, ChannelInv, WireInv, OneLivePair, session, proxies, Epoch, Channel, Terminal
    <2> QED BY <2>1, <2>2
  <1>4. CASE IceFails(e)
    <2>1. TypeOK'
      BY <1>4 DEF IceFails, TypeOK, session, proxies, Epoch, Channel, Terminal
    <2>2. ChannelInv' /\ WireInv' /\ OneLivePair'
      BY <1>4 DEF IceFails, TypeOK, ChannelInv, WireInv, OneLivePair, session, proxies, Epoch, Channel, Terminal
    <2> QED BY <2>1, <2>2
  <1>5. CASE SignalApply(e)
    <2>1. TypeOK'
      BY <1>5 DEF SignalApply, TypeOK, session, proxies, Epoch, Channel, Terminal
    <2>2. ChannelInv' /\ WireInv' /\ OneLivePair'
      BY <1>5 DEF SignalApply, TypeOK, ChannelInv, WireInv, OneLivePair, session, proxies, Epoch, Channel, Terminal
    <2> QED BY <2>1, <2>2
  <1> QED BY <1>1, <1>2, <1>3, <1>4, <1>5

\* The state-change callbacks.
LEMMA CallbackStep ==
  ASSUME SessionInv, NEW e \in Epoch, NEW st \in Terminal,
         CallbackCheck(e, st) \/ CallbackTerminal(e, st)
  PROVE  SessionInv'
  <1> USE MaxEpochAssumption DEF SessionInv
  <1>1. CASE CallbackCheck(e, st)
    <2>1. TypeOK'
      BY <1>1 DEF CallbackCheck, TypeOK, session, proxies, Epoch, Channel, Terminal
    <2>2. ChannelInv' /\ WireInv' /\ OneLivePair'
      BY <1>1 DEF CallbackCheck, TypeOK, ChannelInv, WireInv, OneLivePair, session, proxies, Epoch, Channel, Terminal
    <2> QED BY <2>1, <2>2
  <1>2. CASE CallbackTerminal(e, st)
    <2>1. TypeOK'
      BY <1>2 DEF CallbackTerminal, TypeOK, session, proxies, Epoch, Channel, Terminal
    <2>2. ChannelInv' /\ WireInv' /\ OneLivePair'
      BY <1>2 DEF CallbackTerminal, TypeOK, ChannelInv, WireInv, OneLivePair, session, proxies, Epoch, Channel, Terminal
    <2> QED BY <2>1, <2>2
  <1> QED BY <1>1, <1>2

\* proxy.
LEMMA ProxyStep ==
  ASSUME SessionInv, NEW p \in Proxy,
         ProxyStart(p) \/ ProxyWakes(p) \/ ProxyTimesOut(p) \/ ProxyOpens(p)
  PROVE  SessionInv'
  <1> USE MaxEpochAssumption DEF SessionInv
  <1>1. CASE ProxyStart(p)
    <2>1. TypeOK'
      BY <1>1 DEF ProxyStart, TypeOK, session, proxies, Epoch, Channel, Terminal
    <2>2. ChannelInv' /\ WireInv' /\ OneLivePair'
      BY <1>1 DEF ProxyStart, TypeOK, ChannelInv, WireInv, OneLivePair, session, proxies, Epoch, Channel, Terminal
    <2> QED BY <2>1, <2>2
  <1>2. CASE ProxyWakes(p)
    <2>1. TypeOK'
      BY <1>2 DEF ProxyWakes, TypeOK, session, proxies, Epoch, Channel, Terminal
    <2>2. ChannelInv' /\ WireInv' /\ OneLivePair'
      BY <1>2 DEF ProxyWakes, TypeOK, ChannelInv, WireInv, OneLivePair, session, proxies, Epoch, Channel, Terminal
    <2> QED BY <2>1, <2>2
  <1>3. CASE ProxyTimesOut(p)
    <2>1. TypeOK'
      BY <1>3 DEF ProxyTimesOut, TypeOK, session, proxies, Epoch, Channel, Terminal
    <2>2. ChannelInv' /\ WireInv' /\ OneLivePair'
      BY <1>3 DEF ProxyTimesOut, TypeOK, ChannelInv, WireInv, OneLivePair, session, proxies, Epoch, Channel, Terminal
    <2> QED BY <2>1, <2>2
  <1>4. CASE ProxyOpens(p)
    <2>1. TypeOK'
      BY <1>4 DEF ProxyOpens, TypeOK, session, proxies, Epoch, Channel, Terminal
    <2>2. ChannelInv' /\ WireInv' /\ OneLivePair'
      BY <1>4 DEF ProxyOpens, TypeOK, ChannelInv, WireInv, OneLivePair, session, proxies, Epoch, Channel, Terminal
    <2> QED BY <2>1, <2>2
  <1> QED BY <1>1, <1>2, <1>3, <1>4

LEMMA NextSession == SessionInv /\ [Next]_vars => SessionInv'
  <1> SUFFICES ASSUME SessionInv, [Next]_vars PROVE SessionInv'
    OBVIOUS
  <1>1. CASE UNCHANGED vars
    BY <1>1 DEF vars, session, proxies, SessionInv, TypeOK, ChannelInv, WireInv, OneLivePair
  <1>2. CASE Next
    BY <1>2, RebuildStep, RebuildFailsStep, SupervisorStep, OnOpenStep, PeerStep, CallbackStep, ProxyStep
    DEF Next, OnOpen, StateChange
  <1> QED BY <1>1, <1>2

\* Every state of the supervisor is well typed; in particular the ready channel
\* is replaced at most once per epoch.
THEOREM TypeCorrect == Spec => []TypeOK
  <1>1. SessionInv => TypeOK
    BY DEF SessionInv
  <1> QED BY <1>1, InitSession, NextSession, PTL DEF Spec

\* Only one (PC, mux) pair is live at a time, however rebuilds overtake the
\* handshakes of the epochs before them: nothing installed is of another epoch,
\* and nothing of another epoch stays open.
THEOREM OneLivePairCorrect == Spec => []OneLivePair
  <1>1. SessionInv => OneLivePair
    BY DEF SessionInv
  <1> QED BY <1>1, InitSession, NextSession, PTL DEF Spec

\* No proxy waits on a channel that nobody is going to close: reusing an open
\* ready channel across epochs keeps every early caller reachable.
THEOREM WaitersCorrect == Spec => []WaitersReachable
  <1>1. SessionInv => WaitersReachable
    BY DEF SessionInv, TypeOK, ChannelInv, WaitersReachable, Channel
  <1> QED BY <1>1, InitSession, NextSession, PTL DEF Spec

-----------------------------------------------------------------------------
(* The relay-only policy.                                                  *)

Working == {"none", "new", "offered", "answered", "poisoned", "connected"}

InFlight(e) == \E k \in {"check", "act"} : <<e, "failed", k>> \in cbs

\* The failed PeerConnections whose callback is over.
Counted == {e \in failedPCs : ~InFlight(e)}

\* A PeerConnection fails once, and its callback is one of the steps until it ends.
FailInv ==
  /\ failedPCs \subseteq Epoch
  /\ \A e \in Epoch : /\ e > epoch => pcst[e] = "none"
                      /\ pcst[e] \in Working => e \notin failedPCs
                      /\ pcst[e] = "failed" => e \in failedPCs
                      /\ InFlight(e) => e \in failedPCs
                      /\ <<e, "failed", "check">> \in cbs => <<e, "failed", "act">> \notin cbs
  /\ run = "wire" => pcst[epoch] = "new"

\* Every failure that was counted is that of another PeerConnection.
CountInv ==
  /\ fails \in Nat /\ relayOnly \in BOOLEAN
  /\ fails <= Cardinality(Counted)
  /\ relayOnly => Cardinality(Counted) >= 2

EscInv == SessionInv /\ FailInv /\ CountInv

LEMMA EscImplementsNext == EscNext => [Next]_vars
  <1>1. ASSUME NEW e \in Epoch,
               \/ EscConnects(e) \/ ConnectedCheck(e) \/ ConnectedResets(e)
               \/ EscSignalApply(e)
               \/ \E st \in Terminal : EscTerminal(e, st)
        PROVE  [Next]_vars
    BY <1>1 DEF EscConnects, ConnectedCheck, ConnectedResets, EscSignalApply, EscTerminal,
                Next, StateChange
  <1>2. RaceWindowEnds => [Next]_vars
    BY DEF RaceWindowEnds
  <1>3. Unrelated => [Next]_vars
    BY DEF Unrelated, Next, StateChange
  <1> QED BY <1>1, <1>2, <1>3 DEF EscNext, EscStep

LEMMA EpochsFinite == \A S \in SUBSET Epoch : IsFiniteSet(S) /\ Cardinality(S) \in Nat
  <1>1. 1 \in Int /\ MaxEpoch \in Int
    BY MaxEpochAssumption
  <1>2. IsFiniteSet(Epoch)
    BY <1>1, FS_Interval DEF Epoch
  <1> QED BY <1>2, FS_Subset, FS_CardinalityType

\* A failure is counted when its callback is over, so there is one more of them.
LEMMA CountedGrows ==
  ASSUME SessionInv, FailInv, CountInv, FailInv', fails' \in Nat, relayOnly' \in BOOLEAN,
         Counted \subseteq Counted',
         \/ fails' <= fails /\ (relayOnly' => relayOnly)
         \/ /\ fails' = fails + 1
            /\ relayOnly' => relayOnly \/ fails + 1 >= 2
            /\ \E e : e \in Counted' /\ e \notin Counted
  PROVE  CountInv'
  <1>1. /\ Counted \in SUBSET Epoch /\ Counted' \in SUBSET Epoch
        /\ IsFiniteSet(Counted) /\ IsFiniteSet(Counted')
        /\ Cardinality(Counted) \in Nat /\ Cardinality(Counted') \in Nat
    <2>1. Counted \in SUBSET Epoch /\ Counted' \in SUBSET Epoch
      BY DEF Counted, FailInv
    <2>2. Epoch' = Epoch
      BY DEF Epoch
    <2> QED BY <2>1, <2>2, EpochsFinite
  <1>2. Cardinality(Counted) <= Cardinality(Counted')
    BY <1>1, FS_Subset
  <1>3. CASE fails' <= fails /\ (relayOnly' => relayOnly)
    BY <1>1, <1>2, <1>3 DEF CountInv
  <1>4. CASE /\ fails' = fails + 1
             /\ relayOnly' => relayOnly \/ fails + 1 >= 2
             /\ \E e : e \in Counted' /\ e \notin Counted
    <2>1. PICK e : e \in Counted' /\ e \notin Counted
      BY <1>4
    <2>2. /\ IsFiniteSet(Counted \cup {e})
          /\ Cardinality(Counted \cup {e}) = Cardinality(Counted) + 1
      BY <1>1, <2>1, FS_AddElement
    <2>3. Counted \cup {e} \subseteq Counted'
      BY <2>1
    <2>4. Cardinality(Counted) + 1 <= Cardinality(Counted')
      BY <1>1, <2>2, <2>3, FS_Subset
    <2> QED BY <1>1, <1>4, <2>4 DEF CountInv
  <1> QED BY <1>3, <1>4

LEMMA NextFail == SessionInv /\ FailInv /\ EscNext => FailInv' /\ Counted \subseteq Counted'
  <1> SUFFICES ASSUME SessionInv, FailInv, EscNext PROVE FailInv' /\ Counted \subseteq Counted'
    OBVIOUS
  <1> USE MaxEpochAssumption
  <1>t. /\ pcst \in [Epoch -> Working \cup {"failed", "closed"}] /\ epoch \in Nat /\ epoch <= MaxEpoch
        /\ failedPCs' = failedPCs \cup {e \in Epoch : pcst'[e] = "failed"}
        /\ Epoch' = Epoch
    BY DEF SessionInv, TypeOK, Working, EscNext, Epoch
  \* Steps that leave the callbacks alone, and do not make a PeerConnection fail.
  <1>a. ASSUME cbs' = cbs, epoch' = epoch, run' = "wire" => run = "wire",
               \A e \in Epoch : \/ pcst'[e] = pcst[e]
                                \/ pcst[e] \in Working /\ pcst'[e] \in Working /\ e <= epoch
                                   /\ ~(e = epoch /\ run' = "wire")
        PROVE  FailInv' /\ Counted \subseteq Counted'
    <2>1. failedPCs' = failedPCs
      BY <1>t, <1>a DEF FailInv, Working
    <2>2. \A e : InFlight(e)' = InFlight(e)
      BY <1>a DEF InFlight
    <2>3. run' = "wire" => epoch \in Epoch /\ pcst'[epoch] = "new"
      BY <1>a DEF FailInv, SessionInv, TypeOK
    <2>4. ASSUME NEW e \in Epoch
          PROVE  /\ e > epoch => pcst'[e] = "none"
                 /\ pcst'[e] \in Working => e \notin failedPCs
                 /\ pcst'[e] = "failed" => e \in failedPCs
      <3>1. CASE pcst'[e] = pcst[e]
        BY <3>1 DEF FailInv
      <3>2. CASE pcst[e] \in Working /\ pcst'[e] \in Working /\ e <= epoch
        <4>1. ~(e > epoch)
          BY <1>t, <3>2 DEF Epoch
        <4> QED BY <3>2, <4>1 DEF FailInv, Working
      <3> QED BY <1>a, <3>1, <3>2
    <2>5. run' = "wire" => pcst'[epoch'] = "new"
      BY <1>a, <2>3
    <2>6. FailInv'
      BY <1>t, <1>a, <2>1, <2>2, <2>4, <2>5 DEF FailInv
    <2> QED BY <2>1, <2>2, <2>6 DEF Counted
  \* Rebuilds close the current PeerConnection.
  <1>b. CASE Rebuild \/ RebuildNewFails
    <2>1. /\ epoch' \in {epoch, epoch + 1} /\ epoch' \in Nat /\ cbs' = cbs \cup ClosedCallback
          /\ run' = "wire" => epoch' = epoch + 1 /\ epoch' \in Epoch
          /\ \A e \in Epoch : pcst'[e] = IF e = epoch + 1 /\ run' = "wire" THEN "new" ELSE ClosePC(e)
          /\ run' # "wire" => epoch' = epoch
      BY <1>b, <1>t DEF Rebuild, RebuildNewFails, Epoch
    <2>2. \A e, k : <<e, "failed", k>> \in cbs' <=> <<e, "failed", k>> \in cbs
      BY <2>1 DEF ClosedCallback
    <2>3. \A e : InFlight(e)' = InFlight(e)
      BY <2>2 DEF InFlight
    <2>4. \A e \in Epoch : /\ ClosePC(e) \in {pcst[e], "closed"}
                           /\ e > epoch => ClosePC(e) = pcst[e]
      BY <1>t DEF ClosePC, SessionInv, TypeOK
    <2>5. failedPCs' = failedPCs
      BY <1>t, <2>1, <2>4 DEF FailInv
    <2>6. ASSUME NEW e \in Epoch
          PROVE  /\ e > epoch' => pcst'[e] = "none"
                 /\ pcst'[e] \in Working => e \notin failedPCs
                 /\ pcst'[e] = "failed" => e \in failedPCs
      <3>1. CASE e = epoch + 1 /\ run' = "wire"
        <4>1. epoch' = e /\ pcst'[e] = "new" /\ e > epoch
          BY <1>t, <2>1, <3>1 DEF Epoch
        <4>2. pcst[e] = "none"
          BY <4>1 DEF FailInv
        <4>3. ~(e > epoch')
          BY <4>1 DEF Epoch
        <4> QED BY <4>1, <4>2, <4>3 DEF FailInv, Working
      <3>2. CASE ~(e = epoch + 1 /\ run' = "wire")
        <4>1. pcst'[e] = ClosePC(e)
          BY <2>1, <3>2
        <4>2. e > epoch' => e > epoch
          BY <1>t, <2>1 DEF Epoch
        <4> QED BY <2>4, <4>1, <4>2 DEF FailInv, Working
      <3> QED BY <3>1, <3>2
    <2>7. run' = "wire" => pcst'[epoch'] = "new"
      BY <2>1
    <2>8. FailInv'
      BY <1>t, <2>2, <2>3, <2>5, <2>6, <2>7 DEF FailInv
    <2> QED BY <2>3, <2>5, <2>8 DEF Counted
  <1>c. ASSUME NEW e \in Epoch, IceFails(e) PROVE FailInv' /\ Counted \subseteq Counted'
    <2>1. /\ pcst[e] \in Working \ {"none", "new"} /\ pcst' = [pcst EXCEPT ![e] = "failed"]
          /\ cbs' = cbs \cup {<<e, "failed", "check">>} /\ epoch' = epoch /\ run' = run
      BY <1>c DEF IceFails, Working, session
    <2>2. e \notin failedPCs /\ ~InFlight(e) /\ failedPCs' = failedPCs \cup {e}
      BY <1>t, <2>1 DEF FailInv
    <2>3. \A d : d # e => InFlight(d)' = InFlight(d)
      BY <2>1 DEF InFlight
    <2>4. run' = "wire" => epoch' # e /\ pcst'[epoch'] = "new"
      BY <1>t, <2>1 DEF FailInv, SessionInv, TypeOK
    <2>5. FailInv'
      BY <1>t, <2>1, <2>2, <2>3, <2>4 DEF FailInv, InFlight, Working
    <2> QED BY <2>2, <2>3, <2>5 DEF Counted
  <1>d. ASSUME NEW e \in Epoch, NEW st \in Terminal, CallbackCheck(e, st) \/ CallbackTerminal(e, st)
        PROVE  FailInv' /\ Counted \subseteq Counted'
    <2>1. PICK old \in {"check", "act"} :
            /\ <<e, st, old>> \in cbs
            /\ \/ cbs' = cbs \ {<<e, st, old>>}
               \/ old = "check" /\ cbs' = (cbs \ {<<e, st, old>>}) \cup {<<e, st, "act">>}
      BY <1>d DEF CallbackCheck, CallbackTerminal
    <2>2. pcst' = pcst /\ epoch' = epoch /\ run' = run
      BY <1>d DEF CallbackCheck, CallbackTerminal, session
    <2>3. failedPCs' = failedPCs
      BY <1>t, <2>2 DEF FailInv
    <2>4. \A d : InFlight(d)' => InFlight(d)
      BY <2>1 DEF InFlight
    <2>5. \A d \in Epoch : <<d, "failed", "check">> \in cbs' => <<d, "failed", "act">> \notin cbs'
      BY <2>1 DEF FailInv
    <2>6. FailInv'
      BY <1>t, <2>2, <2>3, <2>4, <2>5 DEF FailInv
    <2> QED BY <2>3, <2>4, <2>6 DEF Counted
  <1>e. CASE RebuildOffer \/ RebuildOfferFails
    <2>1. /\ cbs' = cbs /\ epoch' = epoch /\ run = "wire" /\ run' # "wire"
          /\ epoch \in Epoch /\ pcst[epoch] = "new"
      BY <1>e DEF RebuildOffer, RebuildOfferFails, session, FailInv, SessionInv, TypeOK
    <2>2. \A e \in Epoch : pcst'[e] = pcst[e] \/ (e = epoch /\ pcst'[e] = "offered")
      BY <1>e, <1>t DEF RebuildOffer, RebuildOfferFails
    <2> QED BY <1>a, <1>t, <2>1, <2>2 DEF Working
  <1>f. ASSUME NEW e \in Epoch, IceConnects(e) \/ SignalApply(e)
        PROVE  FailInv' /\ Counted \subseteq Counted'
    <2>1. cbs' = cbs /\ epoch' = epoch /\ run' = run
      BY <1>f DEF IceConnects, SignalApply, session
    <2>2. \A d \in Epoch : \/ pcst'[d] = pcst[d]
                           \/ pcst[d] \in {"answered", "offered"} /\ pcst'[d] \in Working
      BY <1>f, <1>t DEF IceConnects, SignalApply, Working
    <2>3. \A d \in Epoch : pcst[d] \in {"answered", "offered"} =>
            /\ pcst[d] \in Working /\ d <= epoch /\ ~(d = epoch /\ run' = "wire")
      <3> SUFFICES ASSUME NEW d \in Epoch, pcst[d] \in {"answered", "offered"}
                   PROVE  pcst[d] \in Working /\ d <= epoch /\ ~(d = epoch /\ run = "wire")
        BY <2>1
      <3>1. ~(d > epoch)
        BY DEF FailInv
      <3>2. d <= epoch
        BY <1>t, <3>1 DEF Epoch
      <3> QED BY <3>2 DEF FailInv, Working
    <2> QED BY <1>a, <2>1, <2>2, <2>3
  <1>g. CASE UNCHANGED <<pcst, cbs, epoch>> /\ (run' = "wire" => run = "wire")
    BY <1>a, <1>g
  <1>h. ASSUME NEW e \in Epoch,
               \/ EscConnects(e) \/ ConnectedCheck(e) \/ ConnectedResets(e)
               \/ EscSignalApply(e)
               \/ \E st \in Terminal : EscTerminal(e, st)
        PROVE  FailInv' /\ Counted \subseteq Counted'
    BY <1>d, <1>f, <1>g, <1>h
    DEF EscConnects, ConnectedCheck, ConnectedResets, EscSignalApply, EscTerminal, vars, session
  <1>i. CASE RaceWindowEnds
    BY <1>g, <1>i DEF RaceWindowEnds, vars, session
  <1>j. CASE Unrelated
    <2>1. CASE RebuildSend \/ RebuildSendFails \/ RetryAfterSleep \/ SignalReady \/ SignalTake
      BY <1>g, <2>1 DEF RebuildSend, RebuildSendFails, RetryAfterSleep, SignalReady, SignalTake, session
    <2>2. ASSUME NEW e \in Epoch, OnOpen(e) \/ Watchdog(e) \/ DataChannelOpens(e) \/ SessionDies(e)
          PROVE  FailInv' /\ Counted \subseteq Counted'
      BY <1>g, <2>2 DEF OnOpen, OnOpenGuard, DialSucceeds, DialFails, OnOpenInstall,
         OnOpenCloseReady, Watchdog, DataChannelOpens, SessionDies, session
    <2> QED BY <1>b, <1>c, <1>d, <1>e, <1>j, <2>1, <2>2 DEF Unrelated
  <1> QED BY <1>h, <1>i, <1>j DEF EscNext, EscStep

LEMMA NextCount == EscInv /\ EscNext => CountInv'
  <1> SUFFICES ASSUME EscInv, EscNext PROVE CountInv'
    OBVIOUS
  <1> USE DEF EscInv
  <1>1. FailInv' /\ Counted \subseteq Counted'
    BY NextFail
  <1>2. fails \in Nat /\ relayOnly \in BOOLEAN
    BY DEF CountInv
  <1>3. CASE UNCHANGED <<fails, relayOnly>>
    BY <1>1, <1>2, <1>3, CountedGrows
  <1>4. CASE fails' = 0 /\ UNCHANGED relayOnly
    BY <1>1, <1>2, <1>4, CountedGrows
  <1>5. ASSUME NEW e \in Epoch, CallbackTerminal(e, "failed"), Classify, ~UNCHANGED <<fails, relayOnly>>
        PROVE  CountInv'
    <2>1. fails' = fails + 1 /\ relayOnly' = (relayOnly \/ fails + 1 >= 2)
      BY <1>5 DEF Classify
    <2>2. InFlight(e) /\ ~InFlight(e)'
      BY <1>5 DEF CallbackTerminal, InFlight, FailInv
    <2>3. e \in failedPCs /\ e \in failedPCs'
      BY <2>2 DEF FailInv, EscNext
    <2>4. e \in Counted' /\ e \notin Counted
      BY <2>2, <2>3 DEF Counted
    <2>5. fails' \in Nat /\ relayOnly' \in BOOLEAN
      BY <1>2, <2>1
    <2> QED BY <1>1, <2>1, <2>4, <2>5, CountedGrows
  <1>6. ASSUME NEW e \in Epoch,
               \/ EscConnects(e) \/ ConnectedCheck(e) \/ ConnectedResets(e)
               \/ EscSignalApply(e)
               \/ \E st \in Terminal : EscTerminal(e, st)
        PROVE  CountInv'
    BY <1>3, <1>4, <1>5, <1>6
    DEF EscConnects, ConnectedCheck, ConnectedResets, EscSignalApply, EscTerminal
  <1>7. CASE RaceWindowEnds \/ (Unrelated /\ UNCHANGED policy)
    BY <1>3, <1>7 DEF RaceWindowEnds, policy
  <1> QED BY <1>6, <1>7 DEF EscNext, EscStep

\* classifyAndMaybeEscalate: for any number of PeerConnections, relay-only is latched
\* only when two of them have failed.
THEOREM EscalationCorrect == EscSpec => []OneFailureIsNotEnough
  <1>1. EscInit => EscInv
    <2> SUFFICES ASSUME EscInit PROVE EscInv
      OBVIOUS
    <2>1. SessionInv
      BY InitSession DEF EscInit
    <2>2. Counted = {}
      BY DEF EscInit, Counted
    <2>3. FailInv
      BY DEF EscInit, Init, FailInv, InFlight, Working
    <2>4. CountInv
      <3>1. Cardinality(Counted) = 0
        BY <2>2, FS_EmptySet
      <3>2. fails = 0 /\ relayOnly = FALSE
        BY DEF EscInit
      <3>3. fails \in Nat /\ fails <= Cardinality(Counted)
        BY <3>1, <3>2
      <3>4. relayOnly \in BOOLEAN /\ ~relayOnly
        BY <3>2
      <3> QED BY <3>3, <3>4 DEF CountInv
    <2> QED BY <2>1, <2>3, <2>4 DEF EscInv
  <1>2. EscInv /\ [EscNext]_<<vars, policy, failedPCs>> => EscInv'
    <2>1. CASE EscNext
      BY <2>1, EscImplementsNext, NextSession, NextFail, NextCount DEF EscInv
    <2>2. ASSUME EscInv, UNCHANGED <<vars, policy, failedPCs>> PROVE EscInv'
      <3>1. SessionInv'
        BY <2>2, NextSession DEF EscInv
      <3>2. cbs' = cbs /\ UNCHANGED <<run, epoch, pcst, fails, relayOnly, failedPCs>>
        BY <2>2 DEF vars, session, policy
      <3>3. FailInv'
        BY <2>2, <3>2 DEF EscInv, FailInv, InFlight
      <3>4. Counted' = Counted
        BY <3>2 DEF Counted, InFlight
      <3> QED BY <2>2, <3>1, <3>2, <3>3, <3>4 DEF EscInv, CountInv
    <2> QED BY <2>1, <2>2
  <1>3. EscInv => OneFailureIsNotEnough
    <2> SUFFICES ASSUME EscInv, relayOnly PROVE Cardinality(failedPCs) >= 2
      BY DEF OneFailureIsNotEnough
    <2>1. Counted \subseteq failedPCs /\ failedPCs \in SUBSET Epoch /\ Counted \in SUBSET Epoch
      BY DEF EscInv, FailInv, Counted
    <2>2. Cardinality(Counted) <= Cardinality(failedPCs)
      BY <2>1, EpochsFinite, FS_Subset
    <2> QED BY <2>1, <2>2, EpochsFinite DEF EscInv, CountInv
  <1> QED BY <1>1, <1>2, <1>3, PTL DEF EscSpec

-----------------------------------------------------------------------------
(* ViewerSession implements Supervisor.                                    *)

\* Callbacks belong to epochs that have begun; the installed session is one whose
\* OnOpen has decided, and as long as it lives its watchdog runs, or will.
PairInv ==
  /\ \A e \in Epoch, st \in Terminal, step \in {"check", "act"} :
       <<e, st, step>> \in cbs => e <= epoch
  /\ run = "wire" => pcst[epoch] = "new"
  /\ mux # 0 => onopen[mux] \in {"closeReady", "done"}
  /\ ~crashed /\ mux # 0 /\ sess[mux] = "alive" => onopen[mux] = "closeReady" \/ dog[mux] = "on"

\* A lost tunnel has been asked for again, or will be.
NoLostRequest == ~crashed /\ Lost => Asked

\* A step within an epoch: what is lost stays lost, what is asked stays asked.
Kept ==
  /\ epoch' = epoch /\ ~crashed /\ ~crashed'
  /\ Lost => Lost'
  /\ Asked => Asked'
  /\ Lost' => Lost \/ Asked'
  /\ ~Lost' => mux' = mux \/ (mux = 0 /\ mux' # 0 /\ (Asked' => Asked))

LEMMA KeptImplements ==
  ASSUME NoLostRequest, Kept
  PROVE  NoLostRequest' /\ [Sup!Next]_(Sup!supervisor)
  <1>1. NoLostRequest'
    BY DEF NoLostRequest, Kept
  <1>2. Asked \in BOOLEAN /\ Asked' \in BOOLEAN
    BY DEF Asked
  <1>3. CASE Lost
    <2>1. Lost' /\ Asked /\ Asked'
      BY <1>3 DEF NoLostRequest, Kept
    <2>2. Tunnel' = Tunnel /\ epoch' = epoch
      BY <1>3, <2>1 DEF Kept, Tunnel
    <2>3. Asked' = Asked
      BY <1>2, <2>1
    <2> QED BY <1>1, <2>2, <2>3 DEF Sup!supervisor
  <1>4. CASE ~Lost /\ Lost'
    <2>1. Asked' = TRUE
      BY <1>2, <1>4 DEF Kept
    <2> QED BY <1>1, <2>1, <1>4 DEF Kept, Tunnel, Sup!Next, Sup!Lose
  <1>5. CASE ~Lost /\ ~Lost' /\ mux' = mux
    <2>1. Tunnel' = Tunnel /\ Tunnel # "crashed" /\ epoch' = epoch
      BY <1>5 DEF Kept, Tunnel
    <2>2. Asked' = TRUE \/ Asked' = Asked
      BY <1>2 DEF Kept
    <2> QED BY <1>1, <2>1, <2>2 DEF Sup!Next, Sup!Ask, Sup!supervisor
  <1>6. CASE ~Lost /\ ~Lost' /\ mux' # mux
    <2>1. Tunnel = "coming" /\ Tunnel' = "up" /\ epoch' = epoch
      BY <1>6 DEF Kept, Tunnel
    <2>2. Asked' = Asked
      BY <1>2, <1>6 DEF Kept
    <2> QED BY <1>1, <2>1, <2>2 DEF Sup!Next, Sup!ComesUp
  <1> QED BY <1>3, <1>4, <1>5, <1>6

SupInv == SessionInv /\ PairInv /\ NoLostRequest

\* What the steps below need to know of the types.
LEMMA PairFacts ==
  ASSUME SessionInv
  PROVE  /\ epoch \in 0..MaxEpoch /\ pc \in {0, epoch} /\ mux \in {0, epoch}
         /\ epoch # 0 => epoch \in Epoch
         /\ \A e \in Epoch : e # 0 /\ e \in Nat
         /\ pcst = [e \in Epoch |-> pcst[e]] /\ onopen = [e \in Epoch |-> onopen[e]]
         /\ sess = [e \in Epoch |-> sess[e]] /\ dog = [e \in Epoch |-> dog[e]]
  <1> USE MaxEpochAssumption DEF SessionInv, TypeOK
  <1>1. /\ epoch \in 0..MaxEpoch /\ pc \in {0, epoch} /\ mux \in {0, epoch}
        /\ epoch # 0 => epoch \in Epoch
        /\ \A e \in Epoch : e # 0 /\ e \in Nat
    BY DEF OneLivePair, Epoch
  <1>2. /\ pcst = [e \in Epoch |-> pcst[e]] /\ onopen = [e \in Epoch |-> onopen[e]]
        /\ sess = [e \in Epoch |-> sess[e]] /\ dog = [e \in Epoch |-> dog[e]]
    OBVIOUS
  <1> QED BY <1>1, <1>2

\* Steps that do not touch the current tunnel, but may ask for another one.
LEMMA AskStep ==
  ASSUME ~crashed, UNCHANGED <<epoch, pc, mux, pcst, onopen, sess, crashed>>,
         token \/ run = "sleep" => token' \/ run' = "sleep",
         \/ token'
         \/ run' = "sleep"
         \/ (CallbackDue => CallbackDue') /\ UNCHANGED dog
  PROVE  Kept
  <1>1. Lost' = Lost
    BY DEF Lost
  <1>2. Asked => Asked'
    BY DEF Asked, WatchdogDue
  <1> QED BY <1>1, <1>2 DEF Kept

LEMMA RebuildOfferKept ==
  ASSUME SupInv, RebuildOffer \/ RebuildOfferFails
  PROVE  PairInv' /\ Kept
  <1> USE DEF SupInv
  <1>1. /\ pc = epoch /\ epoch \in Epoch /\ pcst[epoch] = "new" /\ onopen[epoch] = "none"
        /\ UNCHANGED <<token, epoch, pc, mux, cbs, sess, dog, crashed>> /\ ~crashed
        /\ run = "wire" /\ run' # "wire"
    BY PairFacts DEF RebuildOffer, RebuildOfferFails, session, Alive, PairInv, SessionInv, WireInv, TypeOK
  <1>2. mux = 0
    BY <1>1, PairFacts DEF PairInv
  <1>3. \/ pcst' = pcst /\ onopen' = onopen
        \/ pcst' = [pcst EXCEPT ![epoch] = "offered"] /\ onopen' = [onopen EXCEPT ![epoch] = "wired"]
    BY DEF RebuildOffer, RebuildOfferFails
  <1>4. pcst'[epoch] # "failed" /\ onopen'[epoch] \notin {"closeReady", "done"}
    BY <1>1, <1>3, PairFacts
  <1>5. PairInv'
    BY <1>1, <1>2 DEF PairInv
  <1>6. ~Lost /\ ~Lost'
    BY <1>1, <1>2, <1>4, PairFacts DEF Lost
  <1>7. CallbackDue' = CallbackDue
    BY <1>1 DEF CallbackDue
  <1>8. Asked => Asked'
    BY <1>1, <1>2, <1>7 DEF Asked, WatchdogDue
  <1> QED BY <1>1, <1>5, <1>6, <1>8 DEF Kept

\* The steps that only ask, and those of the signal loop and the proxies.
LEMMA AskKept ==
  ASSUME SupInv,
         \/ RebuildSend \/ RebuildSendFails \/ RetryAfterSleep \/ SignalReady \/ SignalTake
         \/ \E p \in Proxy : ProxyStart(p) \/ ProxyWakes(p) \/ ProxyTimesOut(p) \/ ProxyOpens(p)
  PROVE  PairInv' /\ Kept
  <1>1. /\ ~crashed /\ UNCHANGED <<epoch, pc, mux, pcst, onopen, sess, dog, cbs, crashed>>
        /\ run' = "wire" => run = "wire"
        /\ token \/ run = "sleep" => token' \/ run' = "sleep"
    BY DEF RebuildSend, RebuildSendFails, RetryAfterSleep, SignalReady, SignalTake, ProxyStart,
           ProxyWakes, ProxyTimesOut, ProxyOpens, session, Alive
  <1>2. PairInv'
    BY <1>1 DEF SupInv, PairInv
  <1>3. CallbackDue => CallbackDue'
    BY <1>1 DEF CallbackDue
  <1> QED BY <1>1, <1>2, <1>3, AskStep

LEMMA CallbackKept ==
  ASSUME SupInv, NEW e \in Epoch, NEW st \in Terminal, CallbackCheck(e, st) \/ CallbackTerminal(e, st)
  PROVE  PairInv' /\ Kept
  <1>1. /\ ~crashed /\ UNCHANGED <<run, epoch, pc, mux, pcst, onopen, sess, dog, crashed>>
        /\ token => token'
        /\ e <= epoch
    BY DEF CallbackCheck, CallbackTerminal, session, Alive, SupInv, PairInv
  <1>2. \A d \in Epoch, t \in Terminal, k \in {"check", "act"} :
           <<d, t, k>> \in cbs' => <<d, t, k>> \in cbs \/ d = e
    BY DEF CallbackCheck, CallbackTerminal
  <1>3. PairInv'
    BY <1>1, <1>2 DEF SupInv, PairInv
  <1>4. token' \/ (CallbackDue => CallbackDue')
    <2>1. CASE CallbackTerminal(e, st)
      BY <2>1 DEF CallbackTerminal
    <2>2. CASE CallbackCheck(e, st) /\ epoch = e
      <3>1. <<epoch', st, "act">> \in cbs'
        BY <1>1, <2>2 DEF CallbackCheck
      <3> QED BY <3>1 DEF CallbackDue
    <2>3. CASE CallbackCheck(e, st) /\ epoch # e
      <3>1. \A t, k : <<epoch, t, k>> \in cbs => <<epoch, t, k>> \in cbs'
        BY <2>3 DEF CallbackCheck
      <3> QED BY <1>1, <3>1 DEF CallbackDue
    <2> QED BY <2>1, <2>2, <2>3
  <1> QED BY <1>1, <1>3, <1>4, AskStep

\* The OnOpen callback up to its second guard.
LEMMA DialKept ==
  ASSUME SupInv, NEW e \in Epoch,
         DataChannelOpens(e) \/ OnOpenGuard(e) \/ DialSucceeds(e) \/ DialFails(e)
  PROVE  PairInv' /\ Kept
  <1> USE DEF SupInv
  <1>1. /\ ~crashed /\ UNCHANGED <<run, epoch, pc, mux, pcst, cbs, dog, crashed>>
        /\ token => token'
        /\ onopen[e] \in {"wired", "fired", "dialing"}
    BY DEF DataChannelOpens, OnOpenGuard, DialSucceeds, DialFails, session, Alive
  <1>2. mux # e
    BY <1>1, PairFacts DEF PairInv
  <1>3. /\ \A d \in Epoch : d # e => onopen'[d] = onopen[d] /\ sess'[d] = sess[d]
        /\ onopen'[e] \in {"closeReady", "done"} => token' \/ epoch # e
    BY PairFacts DEF DataChannelOpens, OnOpenGuard, DialSucceeds, DialFails
  <1>4. mux # 0 => onopen'[mux] = onopen[mux] /\ sess'[mux] = sess[mux]
    BY <1>2, <1>3, PairFacts
  <1>5. PairInv'
    BY <1>1, <1>4 DEF PairInv
  <1>6. Lost => Lost'
    BY <1>1, <1>3, <1>4, PairFacts DEF Lost
  <1>7. CallbackDue' = CallbackDue /\ WatchdogDue' = WatchdogDue
    BY <1>1, <1>4 DEF CallbackDue, WatchdogDue
  <1>8. Asked => Asked'
    BY <1>1, <1>7 DEF Asked
  <1>9. Lost' => Lost \/ Asked'
    BY <1>1, <1>3, <1>4, PairFacts DEF Lost, Asked
  <1> QED BY <1>1, <1>5, <1>6, <1>8, <1>9 DEF Kept

\* The second guard: the new session comes up, is stillborn, or belongs to the past.
LEMMA InstallKept ==
  ASSUME SupInv, NEW e \in Epoch, OnOpenInstall(e)
  PROVE  PairInv' /\ Kept
  <1> USE DEF SupInv
  <1>1. /\ ~crashed /\ onopen[e] = "install" /\ mux # e
        /\ UNCHANGED <<run, token, epoch, pc, pcst, dog, cbs, crashed>>
    BY PairFacts DEF OnOpenInstall, Alive, PairInv
  <1>2. CallbackDue' = CallbackDue
    BY <1>1 DEF CallbackDue
  <1>3. CASE epoch = e
    <2>1. mux = 0 /\ mux' = e /\ onopen'[e] = "closeReady" /\ UNCHANGED sess
          /\ \A d \in Epoch : d # e => onopen'[d] = onopen[d]
      BY <1>1, <1>3, PairFacts DEF OnOpenInstall
    <2>2. PairInv'
      BY <1>1, <2>1 DEF PairInv
    <2>3. Lost => Lost'
      BY <1>1, <1>3, <2>1, PairFacts DEF Lost
    <2>4. Asked => Asked'
      BY <1>1, <1>2, <2>1 DEF Asked, WatchdogDue
    <2>5. Lost' => Lost \/ sess'[mux'] = "dead"
      BY <1>1, <2>1, PairFacts DEF Lost
    <2>6. sess'[mux'] = "dead" => Asked' /\ Lost'
      BY <1>1, <2>1, PairFacts DEF Asked, WatchdogDue, Lost
    <2>7. sess'[mux'] # "dead" => (Asked' => Asked)
      BY <1>1, <1>2, <2>1 DEF Asked, WatchdogDue
    <2>8. mux' # 0
      BY <2>1, PairFacts
    <2> QED BY <1>1, <2>1, <2>2, <2>3, <2>4, <2>5, <2>6, <2>7, <2>8 DEF Kept
  <1>4. CASE epoch # e
    <2>1. UNCHANGED mux /\ \A d \in Epoch : d # e => onopen'[d] = onopen[d] /\ sess'[d] = sess[d]
      BY <1>4, PairFacts DEF OnOpenInstall
    <2>2. mux # 0 => onopen'[mux] = onopen[mux] /\ sess'[mux] = sess[mux]
      BY <1>1, <2>1, PairFacts
    <2>3. PairInv'
      BY <1>1, <2>1, <2>2 DEF PairInv
    <2>4. Lost' = Lost
      <3>1. pc # 0 => onopen'[pc] = onopen[pc]
        BY <1>4, <2>1, PairFacts
      <3> QED BY <1>1, <2>1, <2>2, <3>1 DEF Lost
    <2>5. Asked' = Asked
      BY <1>1, <1>2, <2>1, <2>2 DEF Asked, WatchdogDue
    <2> QED BY <1>1, <2>1, <2>3, <2>4, <2>5 DEF Kept
  <1> QED BY <1>3, <1>4

\* The ready channel is open: the watchdog takes over from OnOpen.
LEMMA CloseReadyKept ==
  ASSUME SupInv, NEW e \in Epoch, OnOpenCloseReady(e), ~crashed'
  PROVE  PairInv' /\ Kept
  <1> USE DEF SupInv
  <1>1. /\ ~crashed /\ onopen[e] = "closeReady" /\ readyOf[e] \notin closed
        /\ UNCHANGED <<run, token, epoch, pc, mux, pcst, sess, cbs>>
    BY DEF OnOpenCloseReady, Alive, session
  <1>2. /\ onopen'[e] = "done" /\ dog'[e] = "on"
        /\ \A d \in Epoch : d # e => onopen'[d] = onopen[d] /\ dog'[d] = dog[d]
    BY <1>1, PairFacts DEF OnOpenCloseReady
  <1>3. CallbackDue' = CallbackDue
    BY <1>1 DEF CallbackDue
  <1>4. WatchdogDue => WatchdogDue'
    BY <1>1, <1>2, PairFacts DEF WatchdogDue
  <1>5. PairInv'
    BY <1>1, <1>2, PairFacts DEF PairInv
  <1>6. Lost' = Lost
    BY <1>1, <1>2, PairFacts DEF Lost
  <1>7. Asked => Asked'
    BY <1>1, <1>3, <1>4 DEF Asked
  <1> QED BY <1>1, <1>5, <1>6, <1>7 DEF Kept

\* A session dies, and the watchdog of the installed one notices.
LEMMA SessionKept ==
  ASSUME SupInv, NEW e \in Epoch, SessionDies(e) \/ Watchdog(e)
  PROVE  PairInv' /\ Kept
  <1> USE DEF SupInv
  <1>1. CASE SessionDies(e)
    <2>1. /\ ~crashed /\ sess[e] = "alive" /\ sess'[e] = "dead"
          /\ \A d \in Epoch : d # e => sess'[d] = sess[d]
          /\ UNCHANGED <<run, token, epoch, pc, mux, pcst, onopen, dog, cbs, crashed>>
      BY <1>1, PairFacts DEF SessionDies, Alive, session
    <2>2. PairInv'
      BY <2>1, PairFacts DEF PairInv
    <2>3. Lost => Lost'
      BY <2>1, PairFacts DEF Lost
    <2>4. CallbackDue' = CallbackDue
      BY <2>1 DEF CallbackDue
    <2>5. WatchdogDue => WatchdogDue'
      BY <2>1, PairFacts DEF WatchdogDue
    <2>6. Asked => Asked'
      BY <2>1, <2>4, <2>5 DEF Asked
    <2>7. Lost' => Lost \/ mux = e
      BY <2>1, PairFacts DEF Lost
    <2>8. mux = e => WatchdogDue'
      BY <2>1, PairFacts DEF PairInv, WatchdogDue
    <2>9. Lost' => Lost \/ Asked'
      BY <2>1, <2>7, <2>8 DEF Asked
    <2> QED BY <2>1, <2>2, <2>3, <2>6, <2>9 DEF Kept
  <1>2. CASE Watchdog(e)
    <2>1. /\ ~crashed /\ sess[e] = "dead" /\ token'
          /\ \A d \in Epoch : d # e => dog'[d] = dog[d]
          /\ UNCHANGED <<run, epoch, pc, mux, pcst, onopen, sess, cbs, crashed>>
      BY <1>2, PairFacts DEF Watchdog, Alive, session
    <2>2. PairInv'
      BY <2>1, PairFacts DEF PairInv
    <2> QED BY <2>1, <2>2, AskStep
  <1> QED BY <1>1, <1>2

\* pion: only the current PC can fail, and its callback is due then.
LEMMA PionKept ==
  ASSUME SupInv, NEW e \in Epoch, IceConnects(e) \/ IceFails(e) \/ SignalApply(e)
  PROVE  PairInv' /\ Kept
  <1> USE DEF SupInv
  <1>1. /\ ~crashed /\ UNCHANGED <<run, token, epoch, pc, mux, onopen, sess, dog, crashed>>
        /\ cbs \subseteq cbs'
    BY DEF IceConnects, IceFails, SignalApply, Alive, session
  <1>2. CASE IceConnects(e) \/ SignalApply(e)
    <2>1. cbs' = cbs
      BY <1>2 DEF IceConnects, SignalApply
    <2>2. \A d \in Epoch : \/ pcst'[d] = pcst[d]
                           \/ /\ pcst[d] \notin {"failed", "new"}
                              /\ pcst'[d] \notin {"failed", "new"}
      BY <1>2, PairFacts DEF IceConnects, SignalApply
    <2>3. PairInv'
      BY <1>1, <2>1, <2>2, PairFacts DEF PairInv, SessionInv, TypeOK
    <2>4. Lost' = Lost
      BY <1>1, <2>2, PairFacts DEF Lost
    <2>5. Asked' = Asked
      BY <1>1, <2>1 DEF Asked, CallbackDue, WatchdogDue
    <2> QED BY <1>1, <2>3, <2>4, <2>5 DEF Kept
  <1>3. CASE IceFails(e)
    <2>1. /\ pcst[e] \in {"answered", "poisoned", "connected"}
          /\ pcst'[e] = "failed" /\ \A d \in Epoch : d # e => pcst'[d] = pcst[d]
          /\ cbs' = cbs \cup {<<e, "failed", "check">>}
      BY <1>3, PairFacts DEF IceFails
    <2>2. pc = e /\ epoch = e
      BY <2>1, PairFacts DEF SessionInv, OneLivePair
    <2>3. run # "wire"
      BY <2>1, <2>2 DEF PairInv
    <2>4. \A d, t, k : <<d, t, k>> \in cbs' => <<d, t, k>> \in cbs \/ d = e
      BY <2>1
    <2>5. PairInv'
      <3>1. \A d \in Epoch, t \in Terminal, k \in {"check", "act"} :
               <<d, t, k>> \in cbs' => d <= epoch'
        <4>1. e <= epoch'
          BY <1>1, <2>2, PairFacts
        <4> QED BY <1>1, <2>4, <4>1 DEF PairInv
      <3> QED BY <1>1, <2>3, <3>1 DEF PairInv
    <2>6. Lost'
      BY <1>1, <2>1, <2>2 DEF Lost
    <2>7. CallbackDue'
      <3>1. <<epoch', "failed", "check">> \in cbs' /\ "failed" \in Terminal
        BY <1>1, <2>1, <2>2 DEF Terminal
      <3> QED BY <3>1 DEF CallbackDue
    <2>8. Asked'
      BY <1>1, <2>7 DEF Asked
    <2> QED BY <1>1, <2>5, <2>6, <2>8 DEF Kept
  <1> QED BY <1>2, <1>3

\* The callback of the PC that a rebuild closes is none of the epoch to come.
LEMMA OldCallbacks ==
  ASSUME SupInv, cbs' = cbs \cup ClosedCallback
  PROVE  \A d \in Epoch, t \in Terminal, k \in {"check", "act"} : <<d, t, k>> \in cbs' => d <= epoch
  <1> SUFFICES ASSUME NEW d \in Epoch, NEW t \in Terminal, NEW k \in {"check", "act"},
                      <<d, t, k>> \in cbs'
               PROVE  d <= epoch
    OBVIOUS
  <1>1. <<d, t, k>> \in cbs \/ d = pc
    BY DEF ClosedCallback
  <1>2. d = pc => d <= epoch
    BY PairFacts DEF SupInv
  <1> QED BY <1>1, <1>2 DEF SupInv, PairInv

\* rebuild fails: the tunnel is lost on purpose, and the loop will ask again.
LEMMA RebuildNewFailsKept ==
  ASSUME SupInv, RebuildNewFails
  PROVE  PairInv' /\ Kept
  <1>1. /\ ~crashed /\ ~crashed' /\ run' = "sleep" /\ pc' = 0 /\ mux' = 0 /\ epoch' = epoch
        /\ cbs' = cbs \cup ClosedCallback
    BY DEF RebuildNewFails, Alive, TypeOK, SupInv, SessionInv
  <1>2. Lost' /\ Asked'
    BY <1>1 DEF Lost, Asked
  <1>3. PairInv'
    <2>1. \A d \in Epoch, t \in Terminal, k \in {"check", "act"} :
             <<d, t, k>> \in cbs' => d <= epoch'
      BY <1>1, OldCallbacks
    <2> QED BY <1>1, <2>1 DEF PairInv
  <1> QED BY <1>1, <1>2, <1>3 DEF Kept

\* rebuild: the one step that consumes a request.
LEMMA RebuildBuilds ==
  ASSUME SupInv, Rebuild
  PROVE  PairInv' /\ NoLostRequest' /\ Sup!Build
  <1> USE DEF SupInv
  <1>1. /\ ~crashed /\ ~crashed' /\ token /\ ~token' /\ run' = "wire" /\ mux' = 0
        /\ epoch' = epoch + 1 /\ pc' = epoch' /\ pcst'[epoch'] = "new" /\ epoch' \in Epoch
        /\ cbs' = cbs \cup ClosedCallback /\ UNCHANGED onopen
    BY PairFacts, MaxEpochAssumption DEF Rebuild, Alive, Epoch
  <1>2. \A d \in Epoch, t \in Terminal, k \in {"check", "act"} : <<d, t, k>> \in cbs' => d <= epoch
    BY <1>1, OldCallbacks
  <1>3. PairInv'
    BY <1>1, <1>2, PairFacts DEF PairInv
  <1>4. ~CallbackDue'
    <2>1. ~(epoch' <= epoch)
      BY <1>1, PairFacts
    <2> QED BY <1>1, <1>2, <2>1 DEF CallbackDue
  <1>5. ~Asked'
    BY <1>1, <1>4 DEF Asked, WatchdogDue
  <1>6. onopen'[pc'] = "none"
    BY <1>1, PairFacts DEF SessionInv, WireInv
  <1>7. ~Lost'
    BY <1>1, <1>6, PairFacts DEF Lost
  <1>8. Tunnel # "crashed" /\ Tunnel' = "coming"
    BY <1>1, <1>7 DEF Tunnel
  <1>9. Asked /\ Asked' = FALSE
    BY <1>1, <1>5 DEF Asked
  <1> QED BY <1>1, <1>3, <1>7, <1>8, <1>9 DEF NoLostRequest, Sup!Build

\* Closing a closed ready channel: the process dies.
LEMMA CrashStep ==
  ASSUME SupInv, NEW e \in Epoch, OnOpenCloseReady(e), crashed'
  PROVE  PairInv' /\ NoLostRequest' /\ Sup!Crash
  <1>1. /\ UNCHANGED <<run, token, epoch, pc, mux, pcst, sess, cbs, dog>>
        /\ onopen' = [onopen EXCEPT ![e] = "done"] /\ onopen[e] = "closeReady"
    BY DEF OnOpenCloseReady, Alive, session
  <1>2. \A d \in Epoch : onopen'[d] = onopen[d] \/ onopen'[d] = "done"
    BY <1>1, PairFacts DEF SupInv
  <1>3. PairInv'
    BY <1>1, <1>2, PairFacts DEF SupInv, PairInv
  <1>4. Tunnel' = "crashed" /\ Asked' = FALSE
    BY DEF Tunnel, Asked
  <1> QED BY <1>1, <1>3, <1>4 DEF NoLostRequest, Sup!Crash

LEMMA InitSupervisor == Init => SupInv /\ Sup!Init
  <1> SUFFICES ASSUME Init PROVE SupInv /\ Sup!Init
    OBVIOUS
  <1>1. PairInv
    BY DEF Init, PairInv
  <1>2. Asked = TRUE /\ Tunnel = "lost"
    BY DEF Init, Asked, Tunnel, Lost
  <1>3. epoch = 0
    BY DEF Init
  <1> QED BY <1>1, <1>2, <1>3, InitSession DEF SupInv, NoLostRequest, Sup!Init

LEMMA NextSupervisor == SupInv /\ [Next]_vars => SupInv' /\ [Sup!Next]_(Sup!supervisor)
  <1> SUFFICES ASSUME SupInv, [Next]_vars PROVE SupInv' /\ [Sup!Next]_(Sup!supervisor)
    OBVIOUS
  <1>1. SessionInv'
    BY NextSession DEF SupInv
  <1>2. CASE UNCHANGED vars
    <2>1. UNCHANGED <<run, token, epoch, pc, mux, pcst, onopen, sess, dog, cbs, crashed>>
      BY <1>2 DEF vars, session
    <2>2. PairInv' /\ Lost' = Lost /\ Asked' = Asked /\ Tunnel' = Tunnel
      BY <2>1 DEF SupInv, PairInv, Lost, Asked, CallbackDue, WatchdogDue, Tunnel
    <2> QED BY <1>1, <2>1, <2>2 DEF SupInv, NoLostRequest, Sup!supervisor
  <1>3. ASSUME PairInv', Kept PROVE SupInv' /\ [Sup!Next]_(Sup!supervisor)
    BY <1>1, <1>3, KeptImplements DEF SupInv
  <1>4. CASE Rebuild
    BY <1>1, <1>4, RebuildBuilds DEF SupInv, Sup!Next
  <1>5. CASE RebuildNewFails \/ RebuildOffer \/ RebuildOfferFails
    BY <1>3, <1>5, RebuildNewFailsKept, RebuildOfferKept
  <1>6. CASE \/ RebuildSend \/ RebuildSendFails \/ RetryAfterSleep \/ SignalReady \/ SignalTake
             \/ \E p \in Proxy : ProxyStart(p) \/ ProxyWakes(p) \/ ProxyTimesOut(p) \/ ProxyOpens(p)
    BY <1>3, <1>6, AskKept
  <1>7. ASSUME NEW e \in Epoch, OnOpenCloseReady(e)
        PROVE  SupInv' /\ [Sup!Next]_(Sup!supervisor)
    BY <1>1, <1>3, <1>7, CloseReadyKept, CrashStep DEF SupInv, Sup!Next
  <1>8. ASSUME NEW e \in Epoch,
               \/ DataChannelOpens(e) \/ OnOpenGuard(e) \/ DialSucceeds(e) \/ DialFails(e)
               \/ OnOpenInstall(e) \/ SessionDies(e) \/ Watchdog(e)
        PROVE  SupInv' /\ [Sup!Next]_(Sup!supervisor)
    BY <1>3, <1>8, DialKept, InstallKept, SessionKept
  <1>9. ASSUME NEW e \in Epoch,
               \/ IceConnects(e) \/ IceFails(e) \/ SignalApply(e)
               \/ \E st \in Terminal : StateChange(e, st)
        PROVE  SupInv' /\ [Sup!Next]_(Sup!supervisor)
    BY <1>3, <1>9, PionKept, CallbackKept DEF StateChange
  <1> QED BY <1>2, <1>4, <1>5, <1>6, <1>7, <1>8, <1>9 DEF Next, OnOpen

\* viewerSession implements Supervisor: however its goroutines interleave, a tunnel
\* comes up at most once an epoch, is lost for good, and is asked for again by then.
THEOREM SupervisorCorrect == Spec => ImplementsSupervisor
  <1> QED BY InitSupervisor, NextSupervisor, PTL DEF Spec, ImplementsSupervisor, Sup!Spec

\* No wake-up is lost: whatever ended the current tunnel, a request is pending, its
\* callback or watchdog has yet to make it, or the loop sleeps before it makes one.
THEOREM RequestCorrect == Spec => []Sup!LostIsAsked
  <1>1. SupInv => Sup!LostIsAsked
    BY DEF SupInv, NoLostRequest, Tunnel, Sup!LostIsAsked
  <1> QED BY <1>1, InitSupervisor, NextSupervisor, PTL DEF Spec

=============================================================================
