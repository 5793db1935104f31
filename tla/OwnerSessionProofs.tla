------------------------- MODULE OwnerSessionProofs -------------------------
(***************************************************************************)
(* Proofs about the owner's supervisor, for every number of epochs, set of *)
(* streams and backlog: types, the uniqueness of the live (PC, mux) pair,  *)
(* the bookkeeping of streams in their bounded backlog, that a rebuild     *)
(* asked for is never forgotten (the supervisor implements Supervisor),    *)
(* and that no stream waits where nobody looks.                            *)
(***************************************************************************)
EXTENDS OwnerSession, TLAPS

\* An epoch to come has no data channel, and while buildPC has yet to register its
\* callbacks none of them can run.
WireInv ==
  /\ run = "wire" => onopen[epoch] \in {"none", "lost"}
  /\ \A e \in Epoch : e > epoch => onopen[e] = "none"

\* No stream is in the hands of two acceptors, or waits in two sessions.
Exclusive ==
  /\ \A e, d \in Epoch : held[e] = held[d] /\ held[e] # None => e = d
  /\ \A e, d \in Epoch : e # d => waiting[e] \cap waiting[d] = {}

LoopInv == TypeOK /\ WireInv /\ OneLivePair
StreamInv == StreamsTracked /\ Exclusive
OwnerInv == LoopInv /\ StreamInv

LEMMA InitOwner == Init => OwnerInv
  <1> SUFFICES ASSUME Init PROVE OwnerInv
    OBVIOUS
  <1> USE BoundAssumption DEF Init
  <1>1. TypeOK
    <2>1. cbs \subseteq Epoch \X Terminal \X {"check", "act"} /\ incoming \in Seq(Stream)
      OBVIOUS
    <2> QED BY <2>1 DEF TypeOK
  <1>2. WireInv /\ OneLivePair /\ StreamInv
    BY DEF WireInv, OneLivePair, StreamInv, StreamsTracked, Exclusive
  <1> QED BY <1>1, <1>2 DEF OwnerInv, LoopInv

\* Whatever leaves the streams alone keeps them accounted for.
LEMMA StreamFrame ==
  ASSUME StreamInv, UNCHANGED <<held, stream, waiting, incoming>>
  PROVE  StreamInv'
  BY DEF StreamInv, StreamsTracked, Exclusive

\* The end of a session takes only streams that nobody has accepted.
LEMMA CutStep ==
  ASSUME TypeOK, StreamInv, NEW e \in 0..MaxEpoch, Cut(e), UNCHANGED <<held, incoming>>
  PROVE  /\ StreamInv'
         /\ stream' \in [Stream -> {"none", "pending", "held", "queued", "served", "closed"}]
         /\ waiting' \in [Epoch -> SUBSET Stream]
  <1>0. /\ stream \in [Stream -> {"none", "pending", "held", "queued", "served", "closed"}]
        /\ waiting \in [Epoch -> SUBSET Stream] /\ held \in [Epoch -> Stream \cup {None}]
        /\ \A i \in 1..Len(incoming) : incoming[i] \in Stream
        /\ e # 0 => e \in Epoch
    BY BoundAssumption DEF TypeOK, Epoch
  <1>1. \A s \in Stream : stream'[s] = stream[s] \/ (stream[s] = "pending" /\ stream'[s] = "closed")
    BY <1>0 DEF Cut, StreamInv, StreamsTracked
  <1>2. \A d \in Epoch, s \in Stream :
           s \in waiting'[d] => s \in waiting[d] /\ stream'[s] = stream[s]
    BY <1>0 DEF Cut, StreamInv, Exclusive
  <1>3. \A d \in Epoch : waiting'[d] = {s \in waiting'[d] : stream'[s] = "pending"}
    <2>1. \A d \in Epoch : waiting'[d] \subseteq Stream
      BY <1>0 DEF Cut
    <2>2. \A d \in Epoch : \A s \in waiting[d] : stream[s] = "pending"
      BY DEF StreamInv, StreamsTracked
    <2>3. \A d \in Epoch : \A s \in waiting'[d] : stream'[s] = "pending"
      BY <1>2, <2>1, <2>2
    <2> QED BY <2>3
  <1>4. StreamsTracked'
    <2>1. \A d \in Epoch : held'[d] # None => stream'[held'[d]] = "held"
      BY <1>0, <1>1 DEF StreamInv, StreamsTracked
    <2>2. \A s \in Stream : stream'[s] = "held" => \E d \in Epoch : held'[d] = s
      BY <1>1 DEF StreamInv, StreamsTracked
    <2>3. incoming' = incoming
      OBVIOUS
    <2>4. \A i \in 1..Len(incoming) :
             /\ stream'[incoming[i]] = "queued"
             /\ \A j \in 1..Len(incoming) : incoming[i] = incoming[j] => i = j
      BY <1>0, <1>1 DEF StreamInv, StreamsTracked
    <2>5. \A s \in Stream : stream'[s] = "queued" => \E i \in 1..Len(incoming) : incoming[i] = s
      BY <1>1 DEF StreamInv, StreamsTracked
    <2>6. Len(incoming') <= Backlog
      BY DEF StreamInv, StreamsTracked
    <2> QED BY <2>6, <1>3, <2>1, <2>2, <2>3, <2>4, <2>5 DEF StreamsTracked
  <1>5. Exclusive'
    BY <1>0 DEF StreamInv, Exclusive, Cut
  <1>6. stream' \in [Stream -> {"none", "pending", "held", "queued", "served", "closed"}]
    BY <1>0, <1>1 DEF Cut
  <1>7. waiting' \in [Epoch -> SUBSET Stream]
    BY <1>0 DEF Cut
  <1> QED BY <1>4, <1>5, <1>6, <1>7 DEF StreamInv

\* buildPC: the pair of the past epoch is closed.
LEMMA TearDownStep ==
  ASSUME OwnerInv, TearDown
  PROVE  /\ StreamInv'
         /\ stream' \in [Stream -> {"none", "pending", "held", "queued", "served", "closed"}]
         /\ waiting' \in [Epoch -> SUBSET Stream]
         /\ cbs' \subseteq Epoch \X Terminal \X {"check", "act"}
         /\ sess' \in [Epoch -> {"none", "alive", "dead"}]
         /\ \A e \in Epoch : sess'[e] = "alive" => sess[e] = "alive" /\ mux # e
         /\ mux' = 0 /\ token' = FALSE /\ run = "select"
         /\ UNCHANGED <<onopen, dog, held, incoming>>
  <1> USE BoundAssumption DEF OwnerInv, LoopInv
  <1>1. mux \in 0..MaxEpoch /\ Cut(mux) /\ UNCHANGED <<held, incoming>>
    BY DEF TearDown, TypeOK
  <1>2. /\ StreamInv'
        /\ stream' \in [Stream -> {"none", "pending", "held", "queued", "served", "closed"}]
        /\ waiting' \in [Epoch -> SUBSET Stream]
    BY <1>1, CutStep
  <1>3. cbs' \subseteq Epoch \X Terminal \X {"check", "act"}
    BY DEF TearDown, TypeOK, Terminal, Epoch
  <1>4. /\ sess' \in [Epoch -> {"none", "alive", "dead"}]
        /\ \A e \in Epoch : sess'[e] = "alive" => sess[e] = "alive" /\ mux # e
    BY DEF TearDown, TypeOK
  <1> QED BY <1>2, <1>3, <1>4 DEF TearDown

LEMMA BuildStep ==
  ASSUME OwnerInv, BuildPC \/ BuildPCFails
  PROVE  OwnerInv'
  <1> USE BoundAssumption DEF OwnerInv, LoopInv
  <1>0. TearDown
    BY DEF BuildPC, BuildPCFails
  <1>1. StreamInv'
    BY <1>0, TearDownStep
  <1>2. TypeOK'
    <2>1. /\ pcst' \in [Epoch -> {"none", "new", "answered", "connected", "failed", "closed"}]
          /\ epoch' \in 0..MaxEpoch /\ pc' \in {0, epoch'}
          /\ run' \in {"select", "wire", "sleep"} /\ (run' = "wire" => pc' # 0)
      BY DEF BuildPC, BuildPCFails, TypeOK, Epoch
    <2>2. mux' \in 0..MaxEpoch
      BY <1>0, TearDownStep
    <2> QED BY <1>0, <2>1, <2>2, TearDownStep DEF TypeOK
  <1>3. WireInv'
    <2>1. UNCHANGED onopen
      BY <1>0, TearDownStep
    <2>2. CASE BuildPC
      <3>1. run' = "wire" /\ epoch' = epoch + 1 /\ epoch \in Nat /\ epoch + 1 \in Epoch
        BY <2>2 DEF BuildPC, TypeOK, Epoch
      <3>2. \A e \in Epoch : e > epoch + 1 => e > epoch
        BY <3>1 DEF Epoch
      <3> QED BY <2>1, <3>1, <3>2 DEF WireInv
    <2>3. CASE BuildPCFails
      BY <2>1, <2>3 DEF BuildPCFails, WireInv
    <2> QED BY <2>2, <2>3
  <1>4. OneLivePair'
    <2>1. \A e \in Epoch : pcst'[e] \notin {"none", "closed"} => pc' = e
      BY DEF BuildPC, BuildPCFails, OneLivePair, TypeOK, Epoch
    <2> QED BY <1>0, <2>1, TearDownStep DEF OneLivePair
  <1> QED BY <1>1, <1>2, <1>3, <1>4

LEMMA InstallStep ==
  ASSUME OwnerInv, NEW e \in Epoch, Install(e)
  PROVE  OwnerInv'
  <1> USE BoundAssumption DEF OwnerInv, LoopInv
  <1>1. CASE epoch = e
    <2>1. UNCHANGED <<held, stream, waiting, incoming>>
      BY <1>1 DEF Install
    <2>2. TypeOK'
      BY <1>1 DEF Install, TypeOK, loop, pion, Epoch
    <2>3. WireInv' /\ OneLivePair'
      BY <1>1 DEF Install, TypeOK, WireInv, OneLivePair, loop, pion, Epoch
    <2> QED BY <2>1, <2>2, <2>3, StreamFrame
  <1>2. CASE epoch # e
    <2>1. Cut(e) /\ UNCHANGED <<held, incoming>> /\ e \in 0..MaxEpoch
      BY <1>2 DEF Install, Epoch
    <2>2. /\ StreamInv'
          /\ stream' \in [Stream -> {"none", "pending", "held", "queued", "served", "closed"}]
          /\ waiting' \in [Epoch -> SUBSET Stream]
      BY <2>1, CutStep
    <2>3. TypeOK'
      BY <1>2, <2>2 DEF Install, TypeOK, loop, pion
    <2>4. WireInv' /\ OneLivePair'
      BY <1>2 DEF Install, TypeOK, WireInv, OneLivePair, loop, pion
    <2> QED BY <2>2, <2>3, <2>4
  <1> QED BY <1>1, <1>2

LEMMA SessionDiesStep ==
  ASSUME OwnerInv, NEW e \in Epoch, SessionDies(e)
  PROVE  OwnerInv'
  <1> USE BoundAssumption DEF OwnerInv, LoopInv
  <1>1. Cut(e) /\ UNCHANGED <<held, incoming>> /\ e \in 0..MaxEpoch
    BY DEF SessionDies, Epoch
  <1>2. /\ StreamInv'
        /\ stream' \in [Stream -> {"none", "pending", "held", "queued", "served", "closed"}]
        /\ waiting' \in [Epoch -> SUBSET Stream]
    BY <1>1, CutStep
  <1>3. TypeOK'
    BY <1>2 DEF SessionDies, TypeOK, loop, session, pion
  <1>4. WireInv' /\ OneLivePair'
    BY DEF SessionDies, TypeOK, WireInv, OneLivePair, loop, session, pion
  <1> QED BY <1>2, <1>3, <1>4

\* The supervisor outside mu, and the signal loop.
LEMMA SupervisorStep ==
  ASSUME OwnerInv, Wire \/ RetryAfterSleep \/ SignalReady \/ SignalOffer
  PROVE  OwnerInv'
  <1> USE BoundAssumption DEF OwnerInv, LoopInv
  <1>1. CASE Wire
    <2>1. UNCHANGED <<held, stream, waiting, incoming>>
      BY <1>1 DEF Wire, streams
    <2>2. TypeOK'
      BY <1>1 DEF Wire, TypeOK, session, pion, streams, Epoch
    <2>3. WireInv' /\ OneLivePair'
      BY <1>1 DEF Wire, TypeOK, WireInv, OneLivePair, session, pion, Epoch
    <2> QED BY <2>1, <2>2, <2>3, StreamFrame
  <1>2. CASE RetryAfterSleep
    <2>1. UNCHANGED <<held, stream, waiting, incoming>>
      BY <1>2 DEF RetryAfterSleep, tunnels, streams
    <2>2. TypeOK'
      BY <1>2 DEF RetryAfterSleep, TypeOK, session, pion, tunnels, streams
    <2>3. WireInv' /\ OneLivePair'
      BY <1>2 DEF RetryAfterSleep, TypeOK, WireInv, OneLivePair, session, pion, tunnels
    <2> QED BY <2>1, <2>2, <2>3, StreamFrame
  <1>3. CASE SignalReady
    <2>1. UNCHANGED <<held, stream, waiting, incoming>>
      BY <1>3 DEF SignalReady, tunnels, streams
    <2>2. TypeOK'
      BY <1>3 DEF SignalReady, TypeOK, session, pion, tunnels, streams
    <2>3. WireInv' /\ OneLivePair'
      BY <1>3 DEF SignalReady, TypeOK, WireInv, OneLivePair, session, pion, tunnels
    <2> QED BY <2>1, <2>2, <2>3, StreamFrame
  <1>4. CASE SignalOffer
    <2>1. UNCHANGED <<held, stream, waiting, incoming>>
      BY <1>4 DEF SignalOffer, tunnels, streams
    <2>2. TypeOK'
      BY <1>4 DEF SignalOffer, TypeOK, loop, session, tunnels, streams
    <2>3. WireInv' /\ OneLivePair'
      BY <1>4 DEF SignalOffer, TypeOK, WireInv, OneLivePair, loop, session, tunnels
    <2> QED BY <2>1, <2>2, <2>3, StreamFrame
  <1> QED BY <1>1, <1>2, <1>3, <1>4

\* The data channel and its OnOpen, but for the install; the watchdog.
LEMMA DataChannelStep ==
  ASSUME OwnerInv, NEW e \in Epoch,
         DataChannelOpens(e) \/ OnOpenGuard(e) \/ ServeSucceeds(e) \/ ServeFails(e) \/ Watchdog(e)
  PROVE  OwnerInv'
  <1> USE BoundAssumption DEF OwnerInv, LoopInv
  <1>1. CASE DataChannelOpens(e)
    <2>1. UNCHANGED <<held, stream, waiting, incoming>>
      BY <1>1 DEF DataChannelOpens, streams
    <2>2. TypeOK'
      BY <1>1 DEF DataChannelOpens, TypeOK, loop, session, pion, streams
    <2>3. WireInv' /\ OneLivePair'
      <3>0. e = epoch
        <4>1. pc = e
          BY <1>1 DEF DataChannelOpens, OneLivePair
        <4>2. e # 0 /\ pc \in {0, epoch}
          BY DEF TypeOK, Epoch
        <4> QED BY <4>1, <4>2
      <3>1. onopen[e] \in {"none", "wired"} /\ onopen'[e] \in {"lost", "fired"}
        BY <1>1 DEF DataChannelOpens, TypeOK
      <3>2. run = "wire" => onopen'[e] = "lost"
        BY <1>1, <3>0 DEF DataChannelOpens, TypeOK, WireInv
      <3> QED BY <1>1, <3>0, <3>1, <3>2
          DEF DataChannelOpens, TypeOK, WireInv, OneLivePair, loop, session, pion
    <2> QED BY <2>1, <2>2, <2>3, StreamFrame
  <1>2. CASE OnOpenGuard(e)
    <2>1. UNCHANGED <<held, stream, waiting, incoming>>
      BY <1>2 DEF OnOpenGuard, streams
    <2>2. TypeOK'
      BY <1>2 DEF OnOpenGuard, TypeOK, loop, session, pion, streams, Epoch
    <2>3. WireInv' /\ OneLivePair'
      BY <1>2 DEF OnOpenGuard, TypeOK, WireInv, OneLivePair, loop, session, pion, Epoch
    <2> QED BY <2>1, <2>2, <2>3, StreamFrame
  <1>3. CASE ServeSucceeds(e)
    <2>1. UNCHANGED <<held, stream, waiting, incoming>>
      BY <1>3 DEF ServeSucceeds, streams
    <2>2. TypeOK'
      BY <1>3 DEF ServeSucceeds, TypeOK, loop, session, pion, streams
    <2>3. WireInv' /\ OneLivePair'
      BY <1>3 DEF ServeSucceeds, TypeOK, WireInv, OneLivePair, loop, session, pion
    <2> QED BY <2>1, <2>2, <2>3, StreamFrame
  <1>4. CASE ServeFails(e)
    <2>1. UNCHANGED <<held, stream, waiting, incoming>>
      BY <1>4 DEF ServeFails, streams
    <2>2. TypeOK'
      BY <1>4 DEF ServeFails, TypeOK, session, pion, streams
    <2>3. WireInv' /\ OneLivePair'
      BY <1>4 DEF ServeFails, TypeOK, WireInv, OneLivePair, session, pion
    <2> QED BY <2>1, <2>2, <2>3, StreamFrame
  <1>5. CASE Watchdog(e)
    <2>1. UNCHANGED <<held, stream, waiting, incoming>>
      BY <1>5 DEF Watchdog, streams
    <2>2. TypeOK'
      BY <1>5 DEF Watchdog, TypeOK, session, pion, streams
    <2>3. WireInv' /\ OneLivePair'
      BY <1>5 DEF Watchdog, TypeOK, WireInv, OneLivePair, session, pion
    <2> QED BY <2>1, <2>2, <2>3, StreamFrame
  <1> QED BY <1>1, <1>2, <1>3, <1>4, <1>5

\* pion.
LEMMA IceStep ==
  ASSUME OwnerInv, NEW e \in Epoch,
         IceConnects(e) \/ IceFails(e)
  PROVE  OwnerInv'
  <1> USE BoundAssumption DEF OwnerInv, LoopInv
  <1>1. CASE IceConnects(e)
    <2>1. UNCHANGED <<held, stream, waiting, incoming>>
      BY <1>1 DEF IceConnects, tunnels, streams
    <2>2. TypeOK'
      BY <1>1 DEF IceConnects, TypeOK, loop, session, tunnels, streams
    <2>3. WireInv' /\ OneLivePair'
      BY <1>1 DEF IceConnects, TypeOK, WireInv, OneLivePair, loop, session, tunnels
    <2> QED BY <2>1, <2>2, <2>3, StreamFrame
  <1>2. CASE IceFails(e)
    <2>1. UNCHANGED <<held, stream, waiting, incoming>>
      BY <1>2 DEF IceFails, tunnels, streams
    <2>2. TypeOK'
      BY <1>2 DEF IceFails, TypeOK, loop, session, tunnels, streams, Epoch, Terminal
    <2>3. WireInv' /\ OneLivePair'
      BY <1>2 DEF IceFails, TypeOK, WireInv, OneLivePair, loop, session, tunnels, Epoch
    <2> QED BY <2>1, <2>2, <2>3, StreamFrame
  <1> QED BY <1>1, <1>2

\* The state callbacks.
LEMMA CallbackStep ==
  ASSUME OwnerInv, NEW e \in Epoch, NEW st \in Terminal,
         CallbackCheck(e, st) \/ CallbackTerminal(e, st)
  PROVE  OwnerInv'
  <1> USE BoundAssumption DEF OwnerInv, LoopInv
  <1>1. CASE CallbackCheck(e, st)
    <2>1. UNCHANGED <<held, stream, waiting, incoming>>
      BY <1>1 DEF CallbackCheck, tunnels, streams
    <2>2. TypeOK'
      BY <1>1 DEF CallbackCheck, TypeOK, loop, session, tunnels, streams, Epoch, Terminal
    <2>3. WireInv' /\ OneLivePair'
      BY <1>1 DEF CallbackCheck, TypeOK, WireInv, OneLivePair, loop, session, tunnels, Epoch
    <2> QED BY <2>1, <2>2, <2>3, StreamFrame
  <1>2. CASE CallbackTerminal(e, st)
    <2>1. UNCHANGED <<held, stream, waiting, incoming>>
      BY <1>2 DEF CallbackTerminal, tunnels, streams
    <2>2. TypeOK'
      BY <1>2 DEF CallbackTerminal, TypeOK, session, tunnels, streams, Terminal
    <2>3. WireInv' /\ OneLivePair'
      BY <1>2 DEF CallbackTerminal, TypeOK, WireInv, OneLivePair, session, tunnels
    <2> QED BY <2>1, <2>2, <2>3, StreamFrame
  <1> QED BY <1>1, <1>2

\* The ways of a stream leave the supervisor alone.
LEMMA LoopFrame ==
  ASSUME LoopInv, UNCHANGED <<loop, session, pion, onopen, sess, dog>>,
         held' \in [Epoch -> Stream \cup {None}],
         stream' \in [Stream -> {"none", "pending", "held", "queued", "served", "closed"}],
         waiting' \in [Epoch -> SUBSET Stream],
         incoming' \in Seq(Stream)
  PROVE  LoopInv'
  <1>1. TypeOK'
    BY DEF LoopInv, TypeOK, loop, session, pion
  <1>2. WireInv' /\ OneLivePair'
    BY DEF LoopInv, WireInv, OneLivePair, loop, session, pion
  <1> QED BY <1>1, <1>2 DEF LoopInv

LEMMA StreamOpensStep ==
  ASSUME OwnerInv, NEW s \in Stream, StreamOpens(s)
  PROVE  OwnerInv'
  <1> USE BoundAssumption DEF OwnerInv, StreamInv, TypeOK
  <1>0. TypeOK
    BY DEF LoopInv
  <1>1. PICK e \in Epoch : waiting' = [waiting EXCEPT ![e] = @ \cup {s}]
    BY DEF StreamOpens
  <1>2. /\ stream[s] = "none" /\ stream' = [stream EXCEPT ![s] = "pending"]
        /\ UNCHANGED <<loop, session, pion, onopen, sess, dog, held, incoming>>
    BY DEF StreamOpens, tunnels
  <1>3. LoopInv'
    BY <1>0, <1>1, <1>2, LoopFrame
  <1>4. \A d \in Epoch : s \notin waiting[d]
    BY <1>2 DEF StreamsTracked
  <1>5. StreamsTracked'
    <2>1. \A d \in Epoch : \A x \in waiting'[d] : stream'[x] = "pending"
      BY <1>0, <1>1, <1>2 DEF StreamsTracked
    <2>2. \A i \in 1..Len(incoming) : incoming[i] \in Stream
      BY <1>0
    <2>3. \A d \in Epoch : held[d] \in Stream \cup {None}
      BY <1>0
    <2> QED BY <1>0, <1>2, <2>1, <2>2, <2>3 DEF StreamsTracked
  <1>6. Exclusive'
    BY <1>0, <1>1, <1>2, <1>4 DEF Exclusive
  <1> QED BY <1>3, <1>5, <1>6

LEMMA AcceptStreamStep ==
  ASSUME OwnerInv, NEW e \in Epoch, NEW s \in Stream, AcceptStream(e, s)
  PROVE  OwnerInv'
  <1> USE BoundAssumption DEF OwnerInv, StreamInv, TypeOK
  <1>0. TypeOK
    BY DEF LoopInv
  <1>1. /\ held[e] = None /\ s \in waiting[e] /\ s # None
        /\ waiting' = [waiting EXCEPT ![e] = @ \ {s}]
        /\ held' = [held EXCEPT ![e] = s] /\ stream' = [stream EXCEPT ![s] = "held"]
        /\ UNCHANGED <<loop, session, pion, onopen, sess, dog, incoming>>
    BY DEF AcceptStream
  <1>2. LoopInv'
    BY <1>0, <1>1, LoopFrame
  <1>3. stream[s] = "pending"
    BY <1>1 DEF StreamsTracked
  <1>4. \A d \in Epoch : held[d] # s
    BY <1>1, <1>3 DEF StreamsTracked
  <1>5. StreamsTracked'
    <2>1. \A d \in Epoch : \A x \in waiting'[d] : stream'[x] = "pending"
      BY <1>0, <1>1 DEF StreamsTracked, Exclusive
    <2>2. \A i \in 1..Len(incoming) : incoming[i] \in Stream /\ incoming[i] # s
      BY <1>0, <1>3 DEF StreamsTracked
    <2>3. \A d \in Epoch : held'[d] # None => stream'[held'[d]] = "held"
      BY <1>0, <1>1 DEF StreamsTracked
    <2>4. \A x \in Stream : stream'[x] = "held" => \E d \in Epoch : held'[d] = x
      BY <1>0, <1>1 DEF StreamsTracked
    <2> QED BY <1>0, <1>1, <2>1, <2>2, <2>3, <2>4 DEF StreamsTracked
  <1>6. Exclusive'
    BY <1>0, <1>1, <1>4 DEF Exclusive
  <1> QED BY <1>2, <1>5, <1>6

LEMMA PushStep ==
  ASSUME OwnerInv, NEW e \in Epoch, Push(e)
  PROVE  OwnerInv'
  <1> USE BoundAssumption DEF OwnerInv, StreamInv, TypeOK
  <1>0. TypeOK
    BY DEF LoopInv
  <1> DEFINE s == held[e]
  <1>1. /\ s \in Stream /\ s # None /\ stream[s] = "held"
        /\ held' = [held EXCEPT ![e] = None]
        /\ UNCHANGED <<loop, session, pion, onopen, sess, dog, waiting>>
    BY <1>0 DEF Push, StreamsTracked
  <1>2. \A d \in Epoch : held'[d] # None => d # e /\ held'[d] = held[d] /\ held[d] # s
    BY <1>0, <1>1 DEF Exclusive
  <1>3. \A i \in 1..Len(incoming) : incoming[i] \in Stream /\ incoming[i] # s
    BY <1>0, <1>1 DEF StreamsTracked
  <1>4. \A d \in Epoch : s \notin waiting[d]
    BY <1>0, <1>1 DEF StreamsTracked
  <1>5. Exclusive'
    BY <1>0, <1>1 DEF Exclusive
  <1>6. CASE Len(incoming) < Backlog
    <2>1. incoming' = Append(incoming, s) /\ stream' = [stream EXCEPT ![s] = "queued"]
      BY <1>6 DEF Push
    <2>2. incoming' \in Seq(Stream) /\ Len(incoming') = Len(incoming) + 1
      BY <1>0, <1>1, <2>1
    <2>3. LoopInv'
      BY <1>0, <1>1, <1>6, <2>1, <2>2, LoopFrame
    <2>4. \A i \in 1..Len(incoming') : incoming'[i] = IF i = Len(incoming') THEN s ELSE incoming[i]
      BY <1>0, <1>1, <2>1
    <2>5. \A i \in 1..Len(incoming') :
             /\ stream'[incoming'[i]] = "queued"
             /\ \A j \in 1..Len(incoming') : incoming'[i] = incoming'[j] => i = j
      <3>1. \A i \in 1..Len(incoming') : i # Len(incoming') => i \in 1..Len(incoming)
        BY <1>0, <2>2
      <3> QED BY <1>0, <1>1, <1>3, <2>1, <2>4, <3>1 DEF StreamsTracked
    <2>6. \A x \in Stream : stream'[x] = "queued" => \E i \in 1..Len(incoming') : incoming'[i] = x
      <3> SUFFICES ASSUME NEW x \in Stream, stream'[x] = "queued"
                   PROVE  \E i \in 1..Len(incoming') : incoming'[i] = x
        OBVIOUS
      <3>1. CASE x = s
        <4>1. Len(incoming') \in 1..Len(incoming')
          BY <1>0, <2>2
        <4> QED BY <2>4, <3>1, <4>1
      <3>2. CASE x # s
        <4>1. PICK i \in 1..Len(incoming) : incoming[i] = x
          BY <1>0, <2>1, <3>2 DEF StreamsTracked
        <4>2. i \in 1..Len(incoming') /\ i # Len(incoming')
          BY <1>0, <2>2
        <4> QED BY <2>4, <4>1, <4>2
      <3> QED BY <3>1, <3>2
    <2>7. StreamsTracked'
      <3>1. \A d \in Epoch : held'[d] # None => stream'[held'[d]] = "held"
        BY <1>0, <1>1, <1>2, <2>1 DEF StreamsTracked
      <3>2. \A d \in Epoch : waiting'[d] = {x \in waiting'[d] : stream'[x] = "pending"}
        BY <1>0, <1>1, <1>4, <2>1 DEF StreamsTracked
      <3>3. \A x \in Stream : stream'[x] = "held" => \E d \in Epoch : held'[d] = x
        BY <1>0, <1>1, <2>1 DEF StreamsTracked
      <3>4. Len(incoming') <= Backlog
        BY <1>0, <1>6, <2>2
      <3> QED BY <3>4, <2>5, <2>6, <3>1, <3>2, <3>3 DEF StreamsTracked
    <2> QED BY <1>5, <2>3, <2>7
  <1>7. CASE ~(Len(incoming) < Backlog)
    <2>1. incoming' = incoming /\ stream' = [stream EXCEPT ![s] = "closed"]
      BY <1>7 DEF Push
    <2>2. LoopInv'
      BY <1>0, <1>1, <2>1, LoopFrame
    <2>3. StreamsTracked'
      <3>1. \A d \in Epoch : held'[d] # None => stream'[held'[d]] = "held"
        BY <1>0, <1>1, <1>2, <2>1 DEF StreamsTracked
      <3>2. \A d \in Epoch : waiting'[d] = {x \in waiting'[d] : stream'[x] = "pending"}
        BY <1>0, <1>1, <1>4, <2>1 DEF StreamsTracked
      <3>3. \A x \in Stream : stream'[x] = "held" => \E d \in Epoch : held'[d] = x
        BY <1>0, <1>1, <2>1 DEF StreamsTracked
      <3>4. \A i \in 1..Len(incoming) : stream'[incoming[i]] = "queued"
        BY <1>0, <1>3, <2>1 DEF StreamsTracked
      <3>5. \A x \in Stream : stream'[x] = "queued" => stream[x] = "queued"
        BY <1>0, <2>1
      <3> QED BY <2>1, <3>1, <3>2, <3>3, <3>4, <3>5 DEF StreamsTracked
    <2> QED BY <1>5, <2>2, <2>3
  <1> QED BY <1>6, <1>7

LEMMA AcceptStep ==
  ASSUME OwnerInv, Accept
  PROVE  OwnerInv'
  <1> USE BoundAssumption DEF OwnerInv, StreamInv, TypeOK
  <1>0. TypeOK
    BY DEF LoopInv
  <1> DEFINE s == Head(incoming)
  <1>1. /\ incoming # << >> /\ incoming' = Tail(incoming)
        /\ stream' = [stream EXCEPT ![s] = "served"]
        /\ UNCHANGED <<loop, session, pion, onopen, sess, dog, held, waiting>>
    BY DEF Accept, tunnels
  <1>2. /\ incoming' \in Seq(Stream) /\ Len(incoming') = Len(incoming) - 1
        /\ 1 \in 1..Len(incoming) /\ incoming[1] = s /\ s \in Stream
        /\ \A i \in 1..Len(incoming') : incoming'[i] = incoming[i + 1]
    BY <1>0, <1>1
  <1>3. LoopInv'
    BY <1>0, <1>1, <1>2, LoopFrame
  <1>4. stream[s] = "queued"
    BY <1>2 DEF StreamsTracked
  <1>5. Exclusive'
    BY <1>1 DEF Exclusive
  <1>6. StreamsTracked'
    <2>0. \A i \in 1..Len(incoming') : i + 1 \in 1..Len(incoming) /\ i + 1 # 1
      BY <1>0, <1>2
    <2>1. \A i \in 1..Len(incoming') : incoming'[i] \in Stream /\ incoming'[i] # s
      <3> SUFFICES ASSUME NEW i \in 1..Len(incoming')
                   PROVE  incoming'[i] \in Stream /\ incoming'[i] # s
        OBVIOUS
      <3>1. i + 1 \in 1..Len(incoming) /\ i + 1 # 1 /\ incoming'[i] = incoming[i + 1]
        BY <1>2, <2>0
      <3>2. incoming[i + 1] # incoming[1]
        BY <1>2, <3>1 DEF StreamsTracked
      <3> QED BY <1>0, <1>2, <3>1, <3>2
    <2>2. \A i \in 1..Len(incoming') :
             /\ stream'[incoming'[i]] = "queued"
             /\ \A j \in 1..Len(incoming') : incoming'[i] = incoming'[j] => i = j
      <3>1. \A i \in 1..Len(incoming') : stream'[incoming'[i]] = "queued"
        BY <1>0, <1>1, <1>2, <2>0, <2>1 DEF StreamsTracked
      <3>2. ASSUME NEW i \in 1..Len(incoming'), NEW j \in 1..Len(incoming'),
                   incoming'[i] = incoming'[j]
            PROVE  i = j
        <4>1. /\ i + 1 \in 1..Len(incoming) /\ j + 1 \in 1..Len(incoming)
              /\ incoming[i + 1] = incoming[j + 1]
          BY <1>2, <2>0, <3>2
        <4>2. i + 1 = j + 1
          BY <4>1 DEF StreamsTracked
        <4> QED BY <4>2
      <3> QED BY <3>1, <3>2
    <2>3. \A x \in Stream : stream'[x] = "queued" => \E i \in 1..Len(incoming') : incoming'[i] = x
      <3> SUFFICES ASSUME NEW x \in Stream, stream'[x] = "queued"
                   PROVE  \E i \in 1..Len(incoming') : incoming'[i] = x
        OBVIOUS
      <3>1. x # s /\ stream[x] = "queued"
        BY <1>0, <1>1
      <3>2. PICK k \in 1..Len(incoming) : incoming[k] = x
        BY <3>1 DEF StreamsTracked
      <3>3. k # 1 /\ k - 1 \in 1..Len(incoming') /\ (k - 1) + 1 = k
        BY <1>0, <1>2, <3>1, <3>2
      <3>4. incoming'[k - 1] = x
        BY <1>2, <3>2, <3>3
      <3> QED BY <3>3, <3>4
    <2>4. \A d \in Epoch : held'[d] # None => stream'[held'[d]] = "held"
      BY <1>0, <1>1, <1>4 DEF StreamsTracked
    <2>5. \A d \in Epoch : waiting'[d] = {x \in waiting'[d] : stream'[x] = "pending"}
      BY <1>0, <1>1, <1>4 DEF StreamsTracked
    <2>6. \A x \in Stream : stream'[x] = "held" => \E d \in Epoch : held'[d] = x
      BY <1>0, <1>1 DEF StreamsTracked
    <2>7. Len(incoming') <= Backlog
      BY <1>0, <1>2 DEF StreamsTracked
    <2> QED BY <2>7, <2>2, <2>3, <2>4, <2>5, <2>6 DEF StreamsTracked
  <1> QED BY <1>3, <1>5, <1>6

LEMMA NextOwner == OwnerInv /\ [Next]_vars => OwnerInv'
  <1> SUFFICES ASSUME OwnerInv, [Next]_vars PROVE OwnerInv'
    OBVIOUS
  <1>1. CASE UNCHANGED vars
    <2>1. StreamInv'
      BY <1>1, StreamFrame DEF OwnerInv, vars, tunnels, streams
    <2>2. LoopInv'
      BY <1>1 DEF OwnerInv, LoopInv, TypeOK, WireInv, OneLivePair,
                  vars, loop, session, pion, tunnels, streams
    <2> QED BY <2>1, <2>2 DEF OwnerInv
  <1>2. CASE Next
    BY <1>2, BuildStep, InstallStep, SessionDiesStep, SupervisorStep, DataChannelStep,
       IceStep, CallbackStep, StreamOpensStep, AcceptStreamStep, PushStep, AcceptStep
    DEF Next, OnOpen, StateChange, Acceptor
  <1> QED BY <1>1, <1>2

\* Every state is well typed, for any number of epochs and any streams.
THEOREM TypeCorrect == Spec => []TypeOK
  <1>1. OwnerInv => TypeOK
    BY DEF OwnerInv, LoopInv
  <1> QED BY <1>1, InitOwner, NextOwner, PTL DEF Spec

\* However rebuilds overtake the handshakes of earlier epochs, only one PC is open and
\* only one session is installed, both of the current epoch.
THEOREM OneLivePairCorrect == Spec => []OneLivePair
  <1>1. OwnerInv => OneLivePair
    BY DEF OwnerInv, LoopInv
  <1> QED BY <1>1, InitOwner, NextOwner, PTL DEF Spec

\* A stream that an acceptor has taken is in its hand or in the backlog, in one place
\* and once, until it is served or closed; the backlog keeps its capacity.
THEOREM StreamsCorrect == Spec => []StreamsTracked
  <1>1. OwnerInv => StreamsTracked
    BY DEF OwnerInv, StreamInv
  <1> QED BY <1>1, InitOwner, NextOwner, PTL DEF Spec

-----------------------------------------------------------------------------
(* OwnerSession implements Supervisor.                                     *)

\* Callbacks belong to epochs that have begun; the installed session is one whose
\* OnOpen is over, and as long as it lives its watchdog runs.
PairInv ==
  /\ \A e \in Epoch, st \in Terminal, step \in {"check", "act"} :
       <<e, st, step>> \in cbs => e <= epoch
  /\ mux # 0 => onopen[mux] = "done"
  /\ mux # 0 /\ sess[mux] = "alive" => dog[mux] = "on"

\* A lost tunnel has been asked for again, or will be.
NoLostRequest == Lost => Asked

SupInv == OwnerInv /\ PairInv /\ NoLostRequest

\* A step within an epoch: what is lost stays lost, what is asked stays asked.
Kept ==
  /\ epoch' = epoch
  /\ Lost => Lost'
  /\ Asked => Asked'
  /\ Lost' => Lost \/ Asked'
  /\ ~Lost' => mux' = mux \/ (mux = 0 /\ mux' # 0 /\ (Asked' => Asked))

LEMMA KeptImplements ==
  ASSUME OwnerInv, OwnerInv', NoLostRequest, Kept
  PROVE  NoLostRequest' /\ [Sup!Next]_(Sup!supervisor)
  <1>1. NoLostRequest'
    BY DEF NoLostRequest, Kept
  <1>t. token \in BOOLEAN /\ token' \in BOOLEAN
    BY DEF OwnerInv, LoopInv, TypeOK
  <1>2. (Asked <=> Asked') => Asked' = Asked
    BY <1>t, Zenon DEF Asked, CallbackDue, WatchdogDue
  <1>3. Asked' => Asked' = TRUE
    BY <1>t, Zenon DEF Asked, CallbackDue, WatchdogDue
  <1>4. CASE Lost
    <2>1. Lost' /\ Asked /\ Asked'
      BY <1>4 DEF NoLostRequest, Kept
    <2>2. Tunnel' = Tunnel /\ epoch' = epoch
      BY <1>4, <2>1 DEF Kept, Tunnel
    <2> QED BY <1>1, <1>2, <2>1, <2>2 DEF Sup!supervisor
  <1>5. CASE ~Lost /\ Lost'
    <2>1. Asked' = TRUE
      BY <1>3, <1>5 DEF Kept
    <2> QED BY <1>1, <2>1, <1>5 DEF Kept, Tunnel, Sup!Next, Sup!Lose
  <1>6. CASE ~Lost /\ ~Lost' /\ mux' = mux
    <2>1. Tunnel' = Tunnel /\ Tunnel # "crashed" /\ epoch' = epoch
      BY <1>6 DEF Kept, Tunnel
    <2>2. Asked' = TRUE \/ Asked' = Asked
      BY <1>2, <1>3 DEF Kept
    <2> QED BY <1>1, <2>1, <2>2 DEF Sup!Next, Sup!Ask, Sup!supervisor
  <1>7. CASE ~Lost /\ ~Lost' /\ mux' # mux
    <2>1. Tunnel = "coming" /\ Tunnel' = "up" /\ epoch' = epoch
      BY <1>7 DEF Kept, Tunnel
    <2>2. Asked' = Asked
      BY <1>2, <1>7 DEF Kept
    <2> QED BY <1>1, <2>1, <2>2 DEF Sup!Next, Sup!ComesUp
  <1> QED BY <1>4, <1>5, <1>6, <1>7

\* What the steps below need to know of the types.
LEMMA PairFacts ==
  ASSUME OwnerInv
  PROVE  /\ epoch \in 0..MaxEpoch /\ pc \in {0, epoch} /\ mux \in {0, epoch}
         /\ epoch # 0 => epoch \in Epoch
         /\ \A e \in Epoch : e # 0 /\ e \in Nat
         /\ pcst = [e \in Epoch |-> pcst[e]] /\ onopen = [e \in Epoch |-> onopen[e]]
         /\ sess = [e \in Epoch |-> sess[e]] /\ dog = [e \in Epoch |-> dog[e]]
  <1> USE BoundAssumption DEF OwnerInv, LoopInv, TypeOK
  <1>1. /\ epoch \in 0..MaxEpoch /\ pc \in {0, epoch} /\ mux \in {0, epoch}
        /\ epoch # 0 => epoch \in Epoch
        /\ \A e \in Epoch : e # 0 /\ e \in Nat
    BY DEF OneLivePair, Epoch
  <1>2. /\ pcst = [e \in Epoch |-> pcst[e]] /\ onopen = [e \in Epoch |-> onopen[e]]
        /\ sess = [e \in Epoch |-> sess[e]] /\ dog = [e \in Epoch |-> dog[e]]
    OBVIOUS
  <1> QED BY <1>1, <1>2

\* Steps that do not touch the current tunnel, but may ask for another one.
LEMMA AskStep ==
  ASSUME UNCHANGED <<epoch, pc, mux, pcst, onopen, sess>>,
         token \/ run = "sleep" => token' \/ run' = "sleep",
         token' \/ ((CallbackDue => CallbackDue') /\ UNCHANGED dog)
  PROVE  Kept
  <1>1. Lost' = Lost
    BY DEF Lost
  <1>2. Asked => Asked'
    BY DEF Asked, WatchdogDue
  <1> QED BY <1>1, <1>2 DEF Kept

\* The steps that only ask, and those of the streams.
LEMMA AskKept ==
  ASSUME SupInv,
         \/ RetryAfterSleep \/ SignalReady \/ Accept
         \/ \E s \in Stream : StreamOpens(s)
         \/ \E e \in Epoch : Acceptor(e)
  PROVE  PairInv' /\ Kept
  <1>1. /\ UNCHANGED <<epoch, pc, mux, pcst, onopen, sess, dog, cbs>>
        /\ token \/ run = "sleep" => token' \/ run' = "sleep"
    BY DEF RetryAfterSleep, SignalReady, Accept, StreamOpens, Acceptor, Push, AcceptStream,
           loop, session, pion, tunnels
  <1>2. PairInv'
    BY <1>1 DEF SupInv, PairInv
  <1>3. CallbackDue => CallbackDue'
    BY <1>1 DEF CallbackDue
  <1> QED BY <1>1, <1>2, <1>3, AskStep

\* buildPC registers the callbacks of a tunnel that is coming, or has got lost before.
LEMMA WireKept ==
  ASSUME SupInv, Wire
  PROVE  PairInv' /\ Kept
  <1> USE DEF SupInv
  <1>1. /\ UNCHANGED <<token, epoch, pc, mux, pcst, sess, dog, cbs>> /\ run = "wire"
        /\ pc = epoch /\ epoch \in Epoch
        /\ onopen[epoch] \in {"none", "lost"} /\ onopen'[epoch] \in {"lost", "wired"}
        /\ \A d \in Epoch : d # epoch => onopen'[d] = onopen[d]
    BY PairFacts DEF Wire, session, pion, OwnerInv, LoopInv, TypeOK, WireInv
  <1>2. mux = 0
    BY <1>1, PairFacts DEF PairInv
  <1>3. PairInv'
    BY <1>1, <1>2 DEF PairInv
  <1>4. Lost' = Lost
    BY <1>1, <1>2 DEF Lost
  <1>5. CallbackDue' = CallbackDue
    BY <1>1 DEF CallbackDue
  <1>6. Asked => Asked'
    BY <1>1, <1>2, <1>5 DEF Asked, WatchdogDue
  <1> QED BY <1>1, <1>3, <1>4, <1>6 DEF Kept

LEMMA CallbackKept ==
  ASSUME SupInv, NEW e \in Epoch, NEW st \in Terminal, CallbackCheck(e, st) \/ CallbackTerminal(e, st)
  PROVE  PairInv' /\ Kept
  <1>1. /\ UNCHANGED <<run, epoch, pc, mux, pcst, onopen, sess, dog>>
        /\ token => token'
        /\ e <= epoch
    BY DEF CallbackCheck, CallbackTerminal, loop, session, tunnels, SupInv, PairInv
  <1>2. \A d \in Epoch, t \in Terminal, k \in {"check", "act"} :
           <<d, t, k>> \in cbs' => <<d, t, k>> \in cbs \/ d = e
    BY DEF CallbackCheck, CallbackTerminal
  <1>3. PairInv'
    BY <1>1, <1>2 DEF SupInv, PairInv
  <1>4. token' \/ (CallbackDue => CallbackDue')
    <2>1. CASE CallbackTerminal(e, st)
      BY <2>1 DEF CallbackTerminal
    <2>2. CASE CallbackCheck(e, st) /\ epoch = e
      <3>1. <<epoch', st, "act">> \in cbs'
        BY <1>1, <2>2 DEF CallbackCheck
      <3> QED BY <3>1 DEF CallbackDue
    <2>3. CASE CallbackCheck(e, st) /\ epoch # e
      <3>1. \A t, k : <<epoch, t, k>> \in cbs => <<epoch, t, k>> \in cbs'
        BY <2>3 DEF CallbackCheck
      <3> QED BY <1>1, <3>1 DEF CallbackDue
    <2> QED BY <2>1, <2>2, <2>3
  <1> QED BY <1>1, <1>3, <1>4, AskStep

\* The OnOpen callback up to its second guard.
LEMMA ServeKept ==
  ASSUME SupInv, NEW e \in Epoch,
         DataChannelOpens(e) \/ OnOpenGuard(e) \/ ServeSucceeds(e) \/ ServeFails(e)
  PROVE  PairInv' /\ Kept
  <1> USE DEF SupInv
  <1>1. /\ UNCHANGED <<run, epoch, pc, mux, pcst, cbs, dog>>
        /\ token => token'
        /\ onopen[e] # "done"
    BY DEF DataChannelOpens, OnOpenGuard, ServeSucceeds, ServeFails, loop, session, pion
  <1>2. mux # e
    BY <1>1, PairFacts DEF PairInv
  <1>3. /\ \A d \in Epoch : d # e => onopen'[d] = onopen[d] /\ sess'[d] = sess[d]
        /\ onopen'[e] = "done" => token' \/ epoch # e
    BY PairFacts DEF DataChannelOpens, OnOpenGuard, ServeSucceeds, ServeFails
  <1>4. mux # 0 => onopen'[mux] = onopen[mux] /\ sess'[mux] = sess[mux]
    BY <1>2, <1>3, PairFacts
  <1>5. PairInv'
    BY <1>1, <1>4 DEF PairInv
  <1>6. Lost => Lost'
    BY <1>1, <1>3, <1>4, PairFacts DEF Lost
  <1>7. CallbackDue' = CallbackDue /\ WatchdogDue' = WatchdogDue
    BY <1>1, <1>4 DEF CallbackDue, WatchdogDue
  <1>8. Asked => Asked'
    BY <1>1, <1>7 DEF Asked
  <1>9. Lost' => Lost \/ Asked'
    BY <1>1, <1>3, <1>4, PairFacts DEF Lost, Asked
  <1> QED BY <1>1, <1>5, <1>6, <1>8, <1>9 DEF Kept

\* The second guard: the new session comes up, is stillborn, or belongs to the past.
LEMMA InstallKept ==
  ASSUME SupInv, NEW e \in Epoch, Install(e)
  PROVE  PairInv' /\ Kept
  <1> USE DEF SupInv
  <1>1. /\ onopen[e] = "install" /\ mux # e
        /\ UNCHANGED <<run, token, epoch, pc, pcst, cbs>>
    BY PairFacts DEF Install, PairInv, loop, pion
  <1>2. CallbackDue' = CallbackDue
    BY <1>1 DEF CallbackDue
  <1>3. CASE epoch = e
    <2>1. mux = 0 /\ mux' = e /\ onopen'[e] = "done" /\ dog'[e] = "on" /\ UNCHANGED sess
          /\ \A d \in Epoch : d # e => onopen'[d] = onopen[d]
      BY <1>1, <1>3, PairFacts DEF Install
    <2>2. PairInv'
      BY <1>1, <2>1 DEF PairInv
    <2>3. Lost => Lost'
      BY <1>1, <1>3, <2>1, PairFacts DEF Lost
    <2>4. Asked => Asked'
      BY <1>1, <1>2, <2>1 DEF Asked, WatchdogDue
    <2>5. Lost' => Lost \/ sess'[mux'] = "dead"
      BY <1>1, <2>1, PairFacts DEF Lost
    <2>6. sess'[mux'] = "dead" => Asked' /\ Lost'
      BY <1>1, <2>1, PairFacts DEF Asked, WatchdogDue, Lost
    <2>7. sess'[mux'] # "dead" => (Asked' => Asked)
      BY <1>1, <1>2, <2>1 DEF Asked, WatchdogDue
    <2>8. mux' # 0
      BY <2>1, PairFacts
    <2> QED BY <1>1, <2>1, <2>2, <2>3, <2>4, <2>5, <2>6, <2>7, <2>8 DEF Kept
  <1>4. CASE epoch # e
    <2>1. /\ UNCHANGED <<mux, dog>>
          /\ \A d \in Epoch : d # e => onopen'[d] = onopen[d] /\ sess'[d] = sess[d]
      BY <1>4, PairFacts DEF Install
    <2>2. mux # 0 => onopen'[mux] = onopen[mux] /\ sess'[mux] = sess[mux]
      BY <1>1, <2>1, PairFacts
    <2>3. PairInv'
      BY <1>1, <2>1, <2>2 DEF PairInv
    <2>4. Lost' = Lost
      <3>1. pc # 0 => onopen'[pc] = onopen[pc]
        BY <1>4, <2>1, PairFacts
      <3> QED BY <1>1, <2>1, <2>2, <3>1 DEF Lost
    <2>5. Asked => Asked'
      BY <1>1, <1>2, <2>1, <2>2 DEF Asked, WatchdogDue
    <2> QED BY <1>1, <2>1, <2>3, <2>4, <2>5 DEF Kept
  <1> QED BY <1>3, <1>4

\* A session dies, and the watchdog of the installed one notices.
LEMMA SessionKept ==
  ASSUME SupInv, NEW e \in Epoch, SessionDies(e) \/ Watchdog(e)
  PROVE  PairInv' /\ Kept
  <1> USE DEF SupInv
  <1>1. CASE SessionDies(e)
    <2>1. /\ sess[e] = "alive" /\ sess'[e] = "dead"
          /\ \A d \in Epoch : d # e => sess'[d] = sess[d]
          /\ UNCHANGED <<run, token, epoch, pc, mux, pcst, onopen, dog, cbs>>
      BY <1>1, PairFacts DEF SessionDies, loop, session, pion
    <2>2. PairInv'
      BY <2>1, PairFacts DEF PairInv
    <2>3. Lost => Lost'
      BY <2>1, PairFacts DEF Lost
    <2>4. CallbackDue' = CallbackDue
      BY <2>1 DEF CallbackDue
    <2>5. WatchdogDue => WatchdogDue'
      BY <2>1, PairFacts DEF WatchdogDue
    <2>6. Asked => Asked'
      BY <2>1, <2>4, <2>5 DEF Asked
    <2>7. Lost' => Lost \/ mux = e
      BY <2>1, PairFacts DEF Lost
    <2>8. mux = e => WatchdogDue'
      BY <2>1, PairFacts DEF PairInv, WatchdogDue
    <2>9. Lost' => Lost \/ Asked'
      BY <2>1, <2>7, <2>8 DEF Asked
    <2> QED BY <2>1, <2>2, <2>3, <2>6, <2>9 DEF Kept
  <1>2. CASE Watchdog(e)
    <2>1. /\ sess[e] = "dead" /\ token'
          /\ \A d \in Epoch : d # e => dog'[d] = dog[d]
          /\ UNCHANGED <<run, epoch, pc, mux, pcst, onopen, sess, cbs>>
      BY <1>2, PairFacts DEF Watchdog, session, pion
    <2>2. PairInv'
      BY <2>1, PairFacts DEF PairInv
    <2> QED BY <2>1, <2>2, AskStep
  <1> QED BY <1>1, <1>2

\* pion: only the current PC can fail, and its callback is due then.
LEMMA PionKept ==
  ASSUME SupInv, SignalOffer \/ \E e \in Epoch : IceConnects(e) \/ IceFails(e)
  PROVE  PairInv' /\ Kept
  <1> USE DEF SupInv
  <1>1. /\ UNCHANGED <<run, token, epoch, pc, mux, onopen, sess, dog>>
        /\ cbs \subseteq cbs'
    BY DEF IceConnects, IceFails, SignalOffer, loop, session, tunnels
  <1>2. CASE SignalOffer \/ \E e \in Epoch : IceConnects(e)
    <2>1. cbs' = cbs
      BY <1>2 DEF IceConnects, SignalOffer
    <2>2. \A d \in Epoch : pcst'[d] = pcst[d] \/ (pcst[d] # "failed" /\ pcst'[d] # "failed")
      BY <1>2, PairFacts DEF IceConnects, SignalOffer
    <2>3. PairInv'
      BY <1>1, <2>1 DEF PairInv
    <2>4. Lost' = Lost
      BY <1>1, <2>2, PairFacts DEF Lost
    <2>5. Asked => Asked'
      BY <1>1, <2>1 DEF Asked, CallbackDue, WatchdogDue
    <2> QED BY <1>1, <2>3, <2>4, <2>5 DEF Kept
  <1>3. ASSUME NEW e \in Epoch, IceFails(e) PROVE PairInv' /\ Kept
    <2>1. /\ pcst[e] \in {"answered", "connected"}
          /\ pcst'[e] = "failed" /\ \A d \in Epoch : d # e => pcst'[d] = pcst[d]
          /\ cbs' = cbs \cup {<<e, "failed", "check">>}
      BY <1>3, PairFacts DEF IceFails
    <2>2. pc = e /\ epoch = e
      BY <2>1, PairFacts DEF OwnerInv, LoopInv, OneLivePair
    <2>3. \A d, t, k : <<d, t, k>> \in cbs' => <<d, t, k>> \in cbs \/ d = e
      BY <2>1
    <2>4. PairInv'
      <3>1. \A d \in Epoch, t \in Terminal, k \in {"check", "act"} :
               <<d, t, k>> \in cbs' => d <= epoch'
        <4>1. e <= epoch'
          BY <1>1, <2>2, PairFacts
        <4> QED BY <1>1, <2>3, <4>1 DEF PairInv
      <3> QED BY <1>1, <3>1 DEF PairInv
    <2>5. Lost'
      BY <1>1, <2>1, <2>2 DEF Lost
    <2>6. CallbackDue'
      <3>1. <<epoch', "failed", "check">> \in cbs' /\ "failed" \in Terminal
        BY <1>1, <2>1, <2>2 DEF Terminal
      <3> QED BY <3>1 DEF CallbackDue
    <2>7. Asked'
      BY <1>1, <2>6 DEF Asked
    <2> QED BY <1>1, <2>4, <2>5, <2>7 DEF Kept
  <1> QED BY <1>2, <1>3

\* The callback of the PC that buildPC closes is none of the epoch to come.
LEMMA OldCallbacks ==
  ASSUME SupInv, TearDown
  PROVE  \A d \in Epoch, t \in Terminal, k \in {"check", "act"} : <<d, t, k>> \in cbs' => d <= epoch
  <1> SUFFICES ASSUME NEW d \in Epoch, NEW t \in Terminal, NEW k \in {"check", "act"},
                      <<d, t, k>> \in cbs'
               PROVE  d <= epoch
    OBVIOUS
  <1>1. <<d, t, k>> \in cbs \/ d = pc
    BY DEF TearDown
  <1>2. d = pc => d <= epoch
    BY PairFacts DEF SupInv
  <1> QED BY <1>1, <1>2 DEF SupInv, PairInv

\* buildPC fails: the tunnel is lost on purpose, and the loop will ask again.
LEMMA BuildFailsKept ==
  ASSUME SupInv, BuildPCFails
  PROVE  PairInv' /\ Kept
  <1>1. run' = "sleep" /\ pc' = 0 /\ mux' = 0 /\ epoch' = epoch /\ TearDown
    BY DEF BuildPCFails, TearDown
  <1>2. Lost' /\ Asked'
    BY <1>1 DEF Lost, Asked
  <1>3. PairInv'
    BY <1>1, OldCallbacks DEF PairInv
  <1> QED BY <1>1, <1>2, <1>3 DEF Kept

\* buildPC: the one step that consumes a request.
LEMMA BuildBuilds ==
  ASSUME SupInv, BuildPC
  PROVE  PairInv' /\ NoLostRequest' /\ Sup!Build
  <1> USE DEF SupInv
  <1>1. /\ token /\ ~token' /\ run' = "wire" /\ mux' = 0 /\ TearDown
        /\ epoch' = epoch + 1 /\ pc' = epoch' /\ pcst'[epoch'] = "new" /\ epoch' \in Epoch
        /\ UNCHANGED onopen
    BY PairFacts, BoundAssumption DEF BuildPC, TearDown, Epoch
  <1>2. \A d \in Epoch, t \in Terminal, k \in {"check", "act"} : <<d, t, k>> \in cbs' => d <= epoch
    BY <1>1, OldCallbacks
  <1>3. PairInv'
    BY <1>1, <1>2, PairFacts DEF PairInv
  <1>4. ~(epoch' <= epoch)
    BY <1>1, PairFacts
  <1>5. ~CallbackDue'
    BY <1>1, <1>2, <1>4 DEF CallbackDue
  <1>6. ~Asked'
    BY <1>1, <1>5 DEF Asked, WatchdogDue
  <1>7. onopen'[pc'] = "none"
    BY <1>1, PairFacts DEF OwnerInv, LoopInv, WireInv
  <1>8. ~Lost'
    BY <1>1, <1>7, PairFacts DEF Lost
  <1>9. Tunnel # "crashed" /\ Tunnel' = "coming"
    BY <1>1, <1>8 DEF Tunnel
  <1>10. Asked /\ Asked' = FALSE
    BY <1>1, <1>6 DEF Asked
  <1> QED BY <1>1, <1>3, <1>8, <1>9, <1>10 DEF NoLostRequest, Sup!Build

LEMMA InitSupervisor == Init => SupInv /\ Sup!Init
  <1> SUFFICES ASSUME Init PROVE SupInv /\ Sup!Init
    OBVIOUS
  <1>1. PairInv
    BY DEF Init, PairInv
  <1>2. Asked = TRUE /\ Tunnel = "lost"
    BY DEF Init, Asked, Tunnel, Lost
  <1>3. epoch = 0
    BY DEF Init
  <1> QED BY <1>1, <1>2, <1>3, InitOwner DEF SupInv, NoLostRequest, Sup!Init

LEMMA NextSupervisor == SupInv /\ [Next]_vars => SupInv' /\ [Sup!Next]_(Sup!supervisor)
  <1> SUFFICES ASSUME SupInv, [Next]_vars PROVE SupInv' /\ [Sup!Next]_(Sup!supervisor)
    OBVIOUS
  <1>1. OwnerInv /\ OwnerInv'
    BY NextOwner DEF SupInv
  <1>2. CASE UNCHANGED vars
    <2>1. UNCHANGED <<run, token, epoch, pc, mux, pcst, onopen, sess, dog, cbs>>
      BY <1>2 DEF vars, loop, session, pion, tunnels
    <2>2. PairInv' /\ Lost' = Lost /\ Asked' = Asked /\ Tunnel' = Tunnel
      BY <2>1 DEF SupInv, PairInv, Lost, Asked, CallbackDue, WatchdogDue, Tunnel
    <2> QED BY <1>1, <2>1, <2>2 DEF SupInv, NoLostRequest, Sup!supervisor
  <1>3. ASSUME PairInv', Kept PROVE SupInv' /\ [Sup!Next]_(Sup!supervisor)
    BY <1>1, <1>3, KeptImplements DEF SupInv
  <1>4. CASE BuildPC
    BY <1>1, <1>4, BuildBuilds DEF SupInv, Sup!Next
  <1>5. CASE BuildPCFails \/ Wire
    BY <1>3, <1>5, BuildFailsKept, WireKept
  <1>6. CASE \/ RetryAfterSleep \/ SignalReady \/ Accept
             \/ \E s \in Stream : StreamOpens(s)
             \/ \E e \in Epoch : Acceptor(e)
    BY <1>3, <1>6, AskKept
  <1>7. ASSUME NEW e \in Epoch,
               DataChannelOpens(e) \/ OnOpen(e) \/ SessionDies(e) \/ Watchdog(e)
        PROVE  SupInv' /\ [Sup!Next]_(Sup!supervisor)
    BY <1>3, <1>7, ServeKept, InstallKept, SessionKept DEF OnOpen
  <1>8. ASSUME NEW e \in Epoch, \E st \in Terminal : StateChange(e, st)
        PROVE  SupInv' /\ [Sup!Next]_(Sup!supervisor)
    BY <1>3, <1>8, CallbackKept DEF StateChange
  <1>9. CASE SignalOffer \/ \E e \in Epoch : IceConnects(e) \/ IceFails(e)
    BY <1>3, <1>9, PionKept
  <1> QED BY <1>2, <1>4, <1>5, <1>6, <1>7, <1>8, <1>9 DEF Next

\* ownerSession implements Supervisor: however its goroutines interleave, a tunnel
\* comes up at most once an epoch, is lost for good, and is asked for again by then.
THEOREM SupervisorCorrect == Spec => ImplementsSupervisor
  <1> QED BY InitSupervisor, NextSupervisor, PTL DEF Spec, ImplementsSupervisor, Sup!Spec

\* No wake-up is lost: whatever ended the current tunnel, a request is pending, its
\* callback or watchdog has yet to make it, or the loop sleeps before it makes one.
THEOREM RequestCorrect == Spec => []Sup!LostIsAsked
  <1>1. SupInv => Sup!LostIsAsked
    BY DEF SupInv, NoLostRequest, Tunnel, Sup!LostIsAsked
  <1> QED BY <1>1, InitSupervisor, NextSupervisor, PTL DEF Spec

-----------------------------------------------------------------------------
(* The streams that nobody has accepted yet.                               *)

\* They wait in a session that lives.
PendingInv ==
  \A s \in Stream : stream[s] = "pending" => \E e \in Epoch : s \in waiting[e] /\ sess[e] = "alive"

\* And that session has an acceptor, or its OnOpen has yet to start one or close it.
PendingAttended ==
  \A s \in Stream : stream[s] = "pending" =>
    \E e \in Epoch : s \in waiting[e] /\ sess[e] = "alive" /\ (dog[e] = "on" \/ onopen[e] = "install")

\* Streams that stay pending stay where they are.
LEMMA PendingFrame ==
  ASSUME PendingInv,
         \A s \in Stream : stream'[s] = "pending" => stream[s] = "pending",
         \A s \in Stream, e \in Epoch :
           stream'[s] = "pending" /\ s \in waiting[e] /\ sess[e] = "alive"
             => s \in waiting'[e] /\ sess'[e] = "alive"
  PROVE  PendingInv'
  BY DEF PendingInv

\* The end of a session closes the streams that wait in it.
LEMMA CutPending ==
  ASSUME TypeOK, PendingInv, NEW e \in 0..MaxEpoch, Cut(e),
         sess' = [d \in Epoch |-> IF d = e THEN "dead" ELSE sess[d]]
  PROVE  PendingInv'
  <1>1. \A d \in Epoch : d # 0
    BY DEF Epoch
  <1>2. \A s \in Stream : stream'[s] = "pending"
           => stream[s] = "pending" /\ (e # 0 => s \notin waiting[e])
    BY DEF Cut
  <1>3. \A s \in Stream, d \in Epoch :
           stream'[s] = "pending" /\ s \in waiting[d] /\ sess[d] = "alive"
             => s \in waiting'[d] /\ sess'[d] = "alive"
    BY <1>1, <1>2 DEF Cut
  <1> QED BY <1>2, <1>3, PendingFrame

LEMMA NextPending == OwnerInv /\ PendingInv /\ [Next]_vars => PendingInv'
  <1> SUFFICES ASSUME OwnerInv, PendingInv, [Next]_vars PROVE PendingInv'
    OBVIOUS
  <1>t. TypeOK
    BY DEF OwnerInv, LoopInv
  <1>m. mux \in 0..MaxEpoch /\ (\A e \in Epoch : e \in 0..MaxEpoch)
    BY <1>t, BoundAssumption DEF TypeOK, Epoch
  <1>f. /\ stream = [s \in Stream |-> stream[s]] /\ waiting = [e \in Epoch |-> waiting[e]]
        /\ sess = [e \in Epoch |-> sess[e]]
    BY <1>t DEF TypeOK
  <1>0. ASSUME UNCHANGED <<sess, stream, waiting>> PROVE PendingInv'
    BY <1>0 DEF PendingInv
  <1>1. CASE UNCHANGED vars
    BY <1>0, <1>1 DEF vars, tunnels, streams
  <1>2. CASE BuildPC \/ BuildPCFails
    BY <1>2, <1>t, <1>m, CutPending DEF BuildPC, BuildPCFails, TearDown
  <1>3. CASE Wire \/ RetryAfterSleep \/ SignalReady \/ SignalOffer
    BY <1>0, <1>3 DEF Wire, RetryAfterSleep, SignalReady, SignalOffer, tunnels, streams
  <1>4. ASSUME NEW e \in Epoch, DataChannelOpens(e) \/ OnOpenGuard(e) \/ ServeFails(e) \/ Watchdog(e)
        PROVE  PendingInv'
    BY <1>0, <1>4 DEF DataChannelOpens, OnOpenGuard, ServeFails, Watchdog, streams
  <1>5. ASSUME NEW e \in Epoch, ServeSucceeds(e) PROVE PendingInv'
    <2>1. UNCHANGED <<stream, waiting>> /\ sess' = [sess EXCEPT ![e] = "alive"]
      BY <1>5 DEF ServeSucceeds, streams
    <2>2. \A d \in Epoch : sess[d] = "alive" => sess'[d] = "alive"
      BY <1>f, <2>1
    <2> QED BY <2>1, <2>2, PendingFrame
  <1>6. ASSUME NEW e \in Epoch, Install(e) \/ SessionDies(e) PROVE PendingInv'
    <2>1. CASE UNCHANGED <<sess, stream, waiting>>
      BY <1>0, <2>1
    <2>2. CASE Cut(e) /\ sess' = [sess EXCEPT ![e] = "dead"]
      <3>1. sess' = [d \in Epoch |-> IF d = e THEN "dead" ELSE sess[d]]
        BY <1>f, <2>2
      <3> QED BY <1>t, <1>m, <2>2, <3>1, CutPending
    <2> QED BY <1>6, <2>1, <2>2 DEF Install, SessionDies
  <1>7. ASSUME NEW s \in Stream, StreamOpens(s) PROVE PendingInv'
    <2>1. PICK e \in Epoch : sess[e] = "alive" /\ waiting' = [waiting EXCEPT ![e] = @ \cup {s}]
      BY <1>7 DEF StreamOpens
    <2>2. stream' = [stream EXCEPT ![s] = "pending"] /\ sess' = sess
      BY <1>7 DEF StreamOpens, tunnels
    <2>3. s \in waiting'[e] /\ (\A d \in Epoch : waiting[d] \subseteq waiting'[d])
      BY <1>f, <2>1
    <2>4. \A x \in Stream : x # s => stream'[x] = stream[x]
      BY <1>f, <2>2
    <2> QED BY <2>1, <2>2, <2>3, <2>4 DEF PendingInv
  <1>8. ASSUME NEW e \in Epoch, NEW s \in Stream, AcceptStream(e, s) PROVE PendingInv'
    <2>1. /\ waiting' = [waiting EXCEPT ![e] = @ \ {s}]
          /\ stream' = [stream EXCEPT ![s] = "held"] /\ sess' = sess
      BY <1>8 DEF AcceptStream
    <2>2. stream'[s] # "pending" /\ (\A x \in Stream : x # s => stream'[x] = stream[x])
      BY <1>f, <2>1
    <2>3. \A d \in Epoch : waiting[d] \ {s} \subseteq waiting'[d]
      BY <1>f, <2>1
    <2> QED BY <2>1, <2>2, <2>3, PendingFrame
  <1>9. ASSUME NEW e \in Epoch, Push(e) PROVE PendingInv'
    <2>1. /\ UNCHANGED <<sess, waiting>>
          /\ \/ stream' = [stream EXCEPT ![held[e]] = "queued"]
             \/ stream' = [stream EXCEPT ![held[e]] = "closed"]
      BY <1>9 DEF Push
    <2>2. \A x \in Stream : stream'[x] = "pending" => stream[x] = "pending"
      BY <1>f, <2>1
    <2> QED BY <2>1, <2>2, PendingFrame
  <1>10. CASE Accept
    <2>1. UNCHANGED <<sess, waiting>> /\ stream' = [stream EXCEPT ![Head(incoming)] = "served"]
      BY <1>10 DEF Accept, tunnels
    <2>2. \A x \in Stream : stream'[x] = "pending" => stream[x] = "pending"
      BY <1>f, <2>1
    <2> QED BY <2>1, <2>2, PendingFrame
  <1>11. ASSUME NEW e \in Epoch, \/ IceConnects(e) \/ IceFails(e)
                                 \/ \E st \in Terminal : StateChange(e, st)
         PROVE  PendingInv'
    BY <1>0, <1>11 DEF IceConnects, IceFails, StateChange, CallbackCheck, CallbackTerminal,
                       tunnels, streams
  <1> QED
    BY <1>1, <1>2, <1>3, <1>4, <1>5, <1>6, <1>7, <1>8, <1>9, <1>10, <1>11
    DEF Next, OnOpen, Acceptor

\* No stream is left where nobody looks: one that has not been accepted yet waits in
\* a session that lives, with an acceptor on it or an OnOpen about to start one.
THEOREM PendingCorrect == Spec => []PendingAttended
  <1>1. Init => PendingInv
    BY DEF Init, PendingInv
  <1>2. SupInv /\ PendingInv => PendingAttended
    <2> SUFFICES ASSUME SupInv, PendingInv PROVE PendingAttended
      OBVIOUS
    <2>1. \A e \in Epoch : e # 0
      BY DEF Epoch
    <2>2. \A e \in Epoch : sess[e] = "alive" => dog[e] = "on" \/ onopen[e] = "install"
      BY <2>1 DEF SupInv, PairInv, OwnerInv, LoopInv, OneLivePair
    <2> QED BY <2>2 DEF PendingInv, PendingAttended
  <1>3. SupInv => OwnerInv
    BY DEF SupInv
  <1> QED BY <1>1, <1>2, <1>3, InitSupervisor, NextSupervisor, NextPending, PTL DEF Spec

=============================================================================
