---------------------------- MODULE SecureChannel ----------------------------
(***************************************************************************)
(* One tunnel between its two ends, below yamux: peer.Conn (a net.Conn     *)
(* over a WebRTC data channel, internal/peer/conn.go), the Noise handshake *)
(* and transport on top of it (internal/secure/noise.go) and the clean-up  *)
(* of tunnel.Dial and tunnel.Serve.  The viewer is Noise's initiator, the  *)
(* owner its responder.                                                    *)
(*                                                                         *)
(* Goroutines of an end: the OnOpen callback that runs the handshake; once *)
(* it is up, yamux's reader and whoever writes; and pion's read loop of    *)
(* the data channel, which calls OnMessage and OnClose one after the other *)
(* and waits while OnMessage does.                                         *)
(*                                                                         *)
(* A frame is one length-prefixed Noise message, which writeFrame hands to *)
(* Conn.Write in one piece and which always fits one Send (FrameFits in    *)
(* SecureChannelProofs), so it is also one message of the data channel.    *)
(* Each end's frames are numbered: 0 is its handshake message, and frame n *)
(* is encrypted under nonce n - 1; it decrypts only as the receiver's n-th.*)
(* The data channel is pion's default, reliable and ordered.               *)
(* Abstracted: plaintext, keys (pinned says whether an end's pin is right),*)
(* partial reads (leftover, readBuf), and time but for the deadline.       *)
(***************************************************************************)
EXTENDS Naturals, Sequences

CONSTANTS InCap,      \* capacity of Conn.in (1024 in the code)
          MaxFrames   \* bound: transport frames each end encrypts

ASSUME InCapAssumption == InCap \in Nat \ {0}
ASSUME MaxFramesAssumption == MaxFrames \in Nat

End == {"viewer", "owner"}
Other(e) == IF e = "viewer" THEN "owner" ELSE "viewer"
Frame == 0..MaxFrames

VARIABLES
  pinned,    \* pinned[e]: peerPub at e is the key the other end really holds
  hs,        \* hs[e]: where doHandshake is at e, and what became of the Conn
  ctx,       \* ctx[e]: Conn.ctx; cancelled together with dc.Close
  deadline,  \* deadline[e]: Conn's read and write deadlines, always set together
  enc, dec,  \* enc[e], dec[e]: frames e has encrypted and decrypted
  sending,   \* sending[e]: frames encrypted in Write and not yet sent
  in,        \* in[e]: Conn.in
  wire,      \* wire[e]: messages on their way to e's pion read loop
  loop,      \* loop[e]: pion's read loop of e's data channel
  link,      \* the SCTP association under the data channel
  got        \* got[e]: history: what e's reader got, in order

vars == <<pinned, hs, ctx, deadline, enc, dec, sending, in, wire, loop, link, got>>

Shaking == {"send", "read"}
Ended == {"failed", "over"}

Init ==
  /\ pinned \in [End -> BOOLEAN]
  /\ hs = [e \in End |-> "none"]
  /\ ctx = [e \in End |-> "open"]
  /\ deadline = [e \in End |-> "off"]
  /\ enc = [e \in End |-> 0] /\ dec = [e \in End |-> 0]
  /\ sending = [e \in End |-> {}]
  /\ in = [e \in End |-> <<>>] /\ wire = [e \in End |-> <<>>]
  /\ loop = [e \in End |-> "running"]
  /\ link = "up"
  /\ got = [e \in End |-> <<>>]

-----------------------------------------------------------------------------
(* Handshake.                                                              *)

\* Faulty variant: the handshake has no deadline.
OpenWithoutDeadline(e) ==
  /\ hs[e] = "none"
  /\ hs' = [hs EXCEPT ![e] = IF e = "viewer" THEN "send" ELSE "read"]
  /\ UNCHANGED <<pinned, ctx, deadline, enc, dec, sending, in, wire, loop, link, got>>

\* tunnel.Dial and Serve: NewConn registers the handlers, and doHandshake sets
\* the deadline.
Open(e) ==
  /\ hs[e] = "none"
  /\ hs' = [hs EXCEPT ![e] = IF e = "viewer" THEN "send" ELSE "read"]
  /\ deadline' = [deadline EXCEPT ![e] = "armed"]
  /\ UNCHANGED <<pinned, ctx, enc, dec, sending, in, wire, loop, link, got>>

\* atomicTimer: the AfterFunc closes the channel that Read and Write select on.
\* The context is not cancelled.
DeadlineFires(e) ==
  /\ deadline[e] = "armed"
  /\ deadline' = [deadline EXCEPT ![e] = "fired"]
  /\ UNCHANGED <<pinned, hs, ctx, enc, dec, sending, in, wire, loop, link, got>>

\* What Read and Write test before and while they wait.
Interrupted(e) == ctx[e] = "closed" \/ deadline[e] = "fired"

\* dc.Send queues a message; nothing arrives over a dead link or at a channel
\* whose read loop is over.
Send(e, f) ==
  wire' = IF link = "up" /\ loop[Other(e)] = "running"
          THEN [wire EXCEPT ![Other(e)] = Append(@, f)] ELSE wire

\* Faulty variant: the deadline stays set after the handshake.
UpKeepsDeadline(e) ==
  /\ hs' = [hs EXCEPT ![e] = "up"]
  /\ UNCHANGED deadline

\* The handshake is over at e, with success: the deferred SetDeadline.
Up(e) ==
  /\ hs' = [hs EXCEPT ![e] = "up"]
  /\ deadline' = [deadline EXCEPT ![e] = "off"]

\* The initiator sends msg1 and waits; the responder sends msg2 and is done.
SendHello(e) ==
  /\ hs[e] = "send" /\ ~Interrupted(e)
  /\ Send(e, 0)
  /\ enc' = [enc EXCEPT ![e] = 1]
  /\ IF e = "owner" THEN Up(e)
     ELSE hs' = [hs EXCEPT ![e] = "read"] /\ UNCHANGED deadline
  /\ UNCHANGED <<pinned, ctx, dec, sending, in, loop, link, got>>

Trusted == \A e \in End : pinned[e]

\* Faulty variant: the responder skips the comparison.
HelloAcceptedUnpinned(e) == e = "owner" => pinned["viewer"]

\* Only a responder that has the key the initiator pinned can parse msg1, and
\* it compares the static key it finds there with its own pin.
HelloAccepted(e) == e = "owner" => Trusted

\* The message from the other end is read and parsed.  Read's select may take
\* it although the deadline has fired or the Conn is closed.
ReadHello(e) ==
  /\ hs[e] = "read" /\ in[e] # <<>> /\ HelloAccepted(e)
  /\ in' = [in EXCEPT ![e] = Tail(@)]
  /\ dec' = [dec EXCEPT ![e] = 1]
  /\ IF e = "viewer" THEN Up(e)
     ELSE hs' = [hs EXCEPT ![e] = "send"] /\ UNCHANGED deadline
  /\ UNCHANGED <<pinned, ctx, enc, sending, wire, loop, link, got>>

\* Faulty variant: Dial and Serve leave the raw Conn open.
FailLeavesOpen(e) ==
  /\ hs[e] \in Shaking
  /\ \/ Interrupted(e)
     \/ hs[e] = "send" /\ link = "down"
     \/ hs[e] = "read" /\ in[e] # <<>> /\ ~HelloAccepted(e)
  /\ hs' = [hs EXCEPT ![e] = "failed"]
  /\ deadline' = [deadline EXCEPT ![e] = "off"]
  /\ UNCHANGED <<pinned, ctx, enc, dec, sending, in, wire, loop, link, got>>

\* doHandshake returns an error (closed, deadline, Send failed, message not
\* accepted) and Dial or Serve closes the raw Conn.
HandshakeFails(e) ==
  /\ hs[e] \in Shaking
  /\ \/ Interrupted(e)
     \/ hs[e] = "send" /\ link = "down"
     \/ hs[e] = "read" /\ in[e] # <<>> /\ ~HelloAccepted(e)
  /\ hs' = [hs EXCEPT ![e] = "failed"]
  /\ deadline' = [deadline EXCEPT ![e] = "off"]
  /\ ctx' = [ctx EXCEPT ![e] = "closed"]
  /\ UNCHANGED <<pinned, enc, dec, sending, in, wire, loop, link, got>>

-----------------------------------------------------------------------------
(* Transport: secure.Conn over peer.Conn, used by yamux.                   *)

\* yamux ends a session whose reader or writer failed, and closes the Conn.
GiveUp(e) ==
  /\ hs' = [hs EXCEPT ![e] = "over"]
  /\ ctx' = [ctx EXCEPT ![e] = "closed"]

\* Faulty variant: Write takes a nonce without holding sendMu.
EncryptUnlocked(e) ==
  /\ hs[e] = "up" /\ enc[e] \in 1..MaxFrames
  /\ sending' = [sending EXCEPT ![e] = @ \cup {enc[e]}]
  /\ enc' = [enc EXCEPT ![e] = @ + 1]
  /\ UNCHANGED <<pinned, hs, ctx, deadline, dec, in, wire, loop, link, got>>

\* secure.Conn.Write, sendMu held: a chunk is encrypted under the next nonce.
Encrypt(e) ==
  /\ hs[e] = "up" /\ enc[e] \in 1..MaxFrames
  /\ sending[e] = {}
  /\ sending' = [sending EXCEPT ![e] = {enc[e]}]
  /\ enc' = [enc EXCEPT ![e] = @ + 1]
  /\ UNCHANGED <<pinned, hs, ctx, deadline, dec, in, wire, loop, link, got>>

\* peer.Conn.Write: neither closed nor past a deadline, so Send; there is no
\* wait for the buffer to drain.
SendFrame(e) ==
  /\ hs[e] = "up" /\ ~Interrupted(e)
  /\ \E f \in sending[e] :
       /\ Send(e, f)
       /\ sending' = [sending EXCEPT ![e] = @ \ {f}]
  /\ UNCHANGED <<pinned, hs, ctx, deadline, enc, dec, in, loop, link, got>>

\* Write or Send returns an error; the nonce is spent.
WriteFails(e) ==
  /\ hs[e] = "up" /\ sending[e] # {}
  /\ Interrupted(e) \/ link = "down"
  /\ sending' = [sending EXCEPT ![e] = {}]
  /\ GiveUp(e)
  /\ UNCHANGED <<pinned, deadline, enc, dec, in, wire, loop, link, got>>

\* Faulty variant: Read does not look at the nonce a frame was made with.
ReadAnyNonce(e) ==
  /\ hs[e] = "up" /\ in[e] # <<>>
  /\ in' = [in EXCEPT ![e] = Tail(@)]
  /\ dec' = [dec EXCEPT ![e] = @ + 1]
  /\ got' = [got EXCEPT ![e] = Append(@, Head(in[e]))]
  /\ UNCHANGED <<pinned, hs, ctx, deadline, enc, sending, wire, loop, link>>

\* secure.Conn.Read: the next frame, if it decrypts under the next nonce.
Read(e) ==
  /\ hs[e] = "up" /\ in[e] # <<>> /\ Head(in[e]) = dec[e]
  /\ in' = [in EXCEPT ![e] = Tail(@)]
  /\ dec' = [dec EXCEPT ![e] = @ + 1]
  /\ got' = [got EXCEPT ![e] = Append(@, Head(in[e]))]
  /\ UNCHANGED <<pinned, hs, ctx, deadline, enc, sending, wire, loop, link>>

\* Read returns an error: a frame that does not decrypt, or end of file or the
\* deadline, which its select may choose although frames are queued.
ReadFails(e) ==
  /\ hs[e] = "up"
  /\ Interrupted(e) \/ (in[e] # <<>> /\ Head(in[e]) # dec[e])
  /\ GiveUp(e)
  /\ UNCHANGED <<pinned, deadline, enc, dec, sending, in, wire, loop, link, got>>

\* The supervisor, or yamux's keepalive, closes a session that is up.
Close(e) ==
  /\ hs[e] = "up" /\ ctx[e] = "open"
  /\ ctx' = [ctx EXCEPT ![e] = "closed"]
  /\ UNCHANGED <<pinned, hs, deadline, enc, dec, sending, in, wire, loop, link, got>>

-----------------------------------------------------------------------------
(* pion's read loop and the network.                                       *)

\* pion drops a message for which no handler is registered yet.
EarlyMessage(e) ==
  /\ loop[e] = "running" /\ wire[e] # <<>> /\ hs[e] = "none"
  /\ wire' = [wire EXCEPT ![e] = Tail(@)]
  /\ UNCHANGED <<pinned, hs, ctx, deadline, enc, dec, sending, in, loop, link, got>>

\* Faulty variants: OnMessage waits for room only; it never waits, and drops
\* the message.
OnMessageIgnoresClose(e) ==
  /\ loop[e] = "running" /\ wire[e] # <<>> /\ hs[e] # "none"
  /\ Len(in[e]) < InCap
  /\ in' = [in EXCEPT ![e] = Append(@, Head(wire[e]))]
  /\ wire' = [wire EXCEPT ![e] = Tail(@)]
  /\ UNCHANGED <<pinned, hs, ctx, deadline, enc, dec, sending, loop, link, got>>
OnMessageDropsWhenFull(e) ==
  /\ loop[e] = "running" /\ wire[e] # <<>> /\ hs[e] # "none"
  /\ in' = IF Len(in[e]) < InCap THEN [in EXCEPT ![e] = Append(@, Head(wire[e]))] ELSE in
  /\ wire' = [wire EXCEPT ![e] = Tail(@)]
  /\ UNCHANGED <<pinned, hs, ctx, deadline, enc, dec, sending, loop, link, got>>

\* OnMessage parks pion's read loop while in is full, until the Conn is closed;
\* then its select may take either branch and a frame may be dropped.
OnMessage(e) ==
  /\ loop[e] = "running" /\ wire[e] # <<>> /\ hs[e] # "none"
  /\ \/ Len(in[e]) < InCap /\ in' = [in EXCEPT ![e] = Append(@, Head(wire[e]))]
     \/ ctx[e] = "closed" /\ UNCHANGED in
  /\ wire' = [wire EXCEPT ![e] = Tail(@)]
  /\ UNCHANGED <<pinned, hs, ctx, deadline, enc, dec, sending, loop, link, got>>

\* The loop ends when the other end has closed the channel and all it sent is
\* read, or the link is dead; OnClose closes the Conn, if it is there.
OnClose(e) ==
  /\ loop[e] = "running" /\ wire[e] = <<>>
  /\ ctx[Other(e)] = "closed" \/ link = "down"
  /\ loop' = [loop EXCEPT ![e] = "ended"]
  /\ ctx' = IF hs[e] = "none" THEN ctx ELSE [ctx EXCEPT ![e] = "closed"]
  /\ UNCHANGED <<pinned, hs, deadline, enc, dec, sending, in, wire, link, got>>

\* The PeerConnection fails or is closed by a supervisor that rebuilds it: what
\* is in flight is lost.
LinkFails ==
  /\ link = "up"
  /\ link' = "down"
  /\ wire' = [e \in End |-> <<>>]
  /\ UNCHANGED <<pinned, hs, ctx, deadline, enc, dec, sending, in, loop, got>>

-----------------------------------------------------------------------------
Handshake(e) == SendHello(e) \/ ReadHello(e) \/ HandshakeFails(e)
Writer(e) == SendFrame(e) \/ WriteFails(e)
Reader(e) == Read(e) \/ ReadFails(e)
ReadLoop(e) == EarlyMessage(e) \/ OnMessage(e) \/ OnClose(e)

Next ==
  \/ \E e \in End :
       \/ Open(e) \/ DeadlineFires(e) \/ Handshake(e)
       \/ Encrypt(e) \/ Writer(e) \/ Reader(e) \/ Close(e)
       \/ ReadLoop(e)
  \/ LinkFails

Spec == Init /\ [][Next]_vars

\* Goroutines that can move do, and ten seconds pass; nobody has to open, to
\* write or to close a channel.
FairSpec ==
  /\ Spec
  /\ \A e \in End : /\ WF_vars(DeadlineFires(e)) /\ WF_vars(Handshake(e))
                    /\ WF_vars(Writer(e)) /\ WF_vars(Reader(e)) /\ WF_vars(ReadLoop(e))

-----------------------------------------------------------------------------
(* Properties.                                                             *)

TypeOK ==
  /\ pinned \in [End -> BOOLEAN]
  /\ hs \in [End -> Shaking \cup Ended \cup {"none", "up"}]
  /\ ctx \in [End -> {"open", "closed"}]
  /\ deadline \in [End -> {"off", "armed", "fired"}]
  /\ enc \in [End -> 0..(MaxFrames + 1)] /\ dec \in [End -> 0..(MaxFrames + 1)]
  /\ sending \in [End -> SUBSET Frame]
  /\ in \in [End -> Seq(Frame)] /\ wire \in [End -> Seq(Frame)]
  /\ loop \in [End -> {"running", "ended"}]
  /\ link \in {"up", "down"}
  /\ got \in [End -> Seq(Frame)]
  /\ \A e \in End : Len(in[e]) <= InCap

\* A session that is up ends only because its Conn was closed or its link died:
\* until then no frame fails to decrypt, whoever writes and however full the
\* queue is, and the handshake's deadline does not outlive the handshake.
NoSpuriousEnd ==
  [][\A e \in End : hs[e] = "up" /\ hs'[e] = "over" =>
       ctx[e] = "closed" \/ link = "down"]_vars

\* Whoever waits for the other end is sure to hear of its end: a handshake has its
\* deadline, a session up a read loop or a closed Conn, and an end that is over has
\* closed the channel, which is what the other's read loop finds.
Watched ==
  \A e \in End :
    /\ hs[e] \in Shaking => deadline[e] # "off"
    /\ hs[e] \in Ended => ctx[e] = "closed"
    /\ hs[e] = "up" => ctx[e] = "closed" \/ loop[e] = "running"

\* "A silent peer cannot hold the DC forever" (doHandshake's comment).
HandshakeEnds ==
  \A e \in End : hs[e] \in Shaking ~> hs[e] \notin Shaking

\* The owner is up as soon as it has sent msg2, the viewer only when it has read
\* it.  If either end fails or gives up, the other does not stay up alone.
EndsTogether ==
  \A e \in End : (hs[e] \in Ended /\ hs[Other(e)] = "up") ~> hs[Other(e)] = "over"

\* Once both Conns are closed pion's read loop ends, also if OnMessage was
\* waiting for room in the queue of a Conn that nobody reads any more.
ReadLoopEnds ==
  \A e \in End : (\A d \in End : ctx[d] = "closed") ~> loop[e] = "ended"

\* A frame that was sent is read, or one of the ends is over.
Delivered ==
  \A e \in End : \A n \in 1..MaxFrames :
    (enc[e] > n /\ n \notin sending[e])
      ~> (dec[Other(e)] > n \/ hs[e] \in Ended \/ hs[Other(e)] \in Ended)

\* The pipe that yamux sees: authenticated at both ends before either is up, and
\* in order without loss for as long as it is up.
Phase(e) == CASE hs[e] = "up" -> "up" [] hs[e] \in Ended -> "over" [] OTHER -> "none"
P == INSTANCE Pipe WITH
       Initiator <- "viewer",
       trusted <- Trusted,
       phase <- [e \in End |-> Phase(e)],
       sent <- [e \in End |-> IF enc[e] = 0 THEN 0 ELSE enc[e] - 1],
       got <- got
ImplementsPipe == P!Spec

=============================================================================
