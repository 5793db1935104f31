------------------------ MODULE SecureChannelProofs ------------------------
(***************************************************************************)
(* Proofs about SecureChannel, for every capacity of the queue and any     *)
(* number of frames.                                                       *)
(*                                                                         *)
(* OrderInv orders the two handshakes: who is where implies what the other *)
(* end has already sent and read.  FrameInv says that no frame is ahead of *)
(* its sender.  FlowInv is the point: while a Conn is open, its queue and  *)
(* the wire behind it hold consecutive frames, the next one to be          *)
(* decrypted first, and nothing is missing up to the frame being sent.     *)
(* LateInv is about a Conn that is made when the read loop has ended.      *)
(***************************************************************************)
EXTENDS SecureChannel, SequenceTheorems, TLAPS

LocalInv(e) ==
  /\ hs[e] \in {"none"} \cup Shaking => got[e] = <<>>
  /\ hs[e] \in {"none", "read"} => dec[e] = 0
  /\ hs[e] = "none" => in[e] = <<>>
  /\ enc[e] > 1 \/ sending[e] # {} => hs[e] \in {"up", "over"}
  /\ sending[e] \subseteq {enc[e] - 1}
  /\ hs[e] = "up" => /\ deadline[e] = "off"
                     /\ enc[e] >= 1 /\ dec[e] = Len(got[e]) + 1

OrderInv ==
  /\ hs["viewer"] \in {"none", "send"} => enc["viewer"] = 0
  /\ hs["viewer"] = "send" => dec["viewer"] = 0
  /\ hs["viewer"] \in {"up", "over"} => enc["owner"] >= 1
  /\ hs["owner"] = "send" => dec["owner"] = 1 /\ enc["owner"] = 0 /\ Trusted
  /\ enc["owner"] >= 1 => /\ dec["owner"] >= 1 /\ Trusted
                          /\ hs["owner"] \in {"up", "over"}
  /\ dec["owner"] >= 1 => enc["viewer"] >= 1

ShakeInv == OrderInv /\ \A e \in End : LocalInv(e)

Below(s, n) == \A i \in 1..Len(s) : s[i] < n
Run(s, n) == \A i \in 1..Len(s) : s[i] = n + i - 1

FrameInv ==
  \A e \in End : Below(in[e], enc[Other(e)]) /\ Below(wire[e], enc[Other(e)])

\* What e's Conn and the wire before it account for.
Count(e) == dec[e] + Len(in[e]) + Len(wire[e])

Flow(e) ==
  ctx[e] = "open" =>
    /\ Run(in[e], dec[e]) /\ Run(wire[e], dec[e] + Len(in[e]))
    /\ Count(e) <= enc[Other(e)]
    /\ link = "up" /\ loop[e] = "running" /\ hs[Other(e)] = "up" =>
         Count(e) = IF sending[Other(e)] = {} THEN enc[Other(e)] ELSE enc[Other(e)] - 1

FlowInv == \A e \in End : Flow(e)

Inv == TypeOK /\ ShakeInv /\ FrameInv /\ FlowInv

-----------------------------------------------------------------------------
(* Arithmetic of the frame format.                                         *)

\* The constants of noise.go and conn.go, in bytes.
maxFramePayload == 16 * 1024 - 64
maxMsgSize == 16 * 1024
FrameLength(n) == 2 + n + 16    \* length prefix, chunk, tag

\* A chunk that Write encrypts fits the 16-bit length prefix, and the frame fits
\* one Send, so a frame is one message of the data channel (writeFrame's
\* comment: the chunker does not split header from body).
THEOREM FrameFits ==
  \A n \in 1..maxFramePayload :
    FrameLength(n) - 2 <= 65535 /\ FrameLength(n) <= maxMsgSize
  <1>1. maxFramePayload = 16320 /\ maxMsgSize = 16384
    BY DEF maxFramePayload, maxMsgSize
  <1> SUFFICES ASSUME NEW n \in 1..maxFramePayload
               PROVE  FrameLength(n) - 2 <= 65535 /\ FrameLength(n) <= maxMsgSize
    OBVIOUS
  <1>2. n \in Int /\ n <= 16320
    BY <1>1
  <1> QED BY <1>1, <1>2 DEF FrameLength

-----------------------------------------------------------------------------
(* Lemmas about ends and queues.                                           *)

LEMMA EndFacts ==
  /\ "viewer" \in End /\ "owner" \in End
  /\ Other("viewer") = "owner" /\ Other("owner") = "viewer"
  /\ \A e \in End : /\ e \in {"viewer", "owner"}
                    /\ Other(e) \in End /\ Other(e) # e /\ Other(Other(e)) = e
  /\ \A e, d \in End : d = e \/ d = Other(e)
  BY DEF End, Other

LEMMA OtherEnd ==
  ASSUME NEW e \in End PROVE Other(e) \in End /\ Other(e) # e
  BY EndFacts

LEMMA TailFacts ==
  ASSUME NEW S, NEW s \in Seq(S), s # <<>>
  PROVE  /\ Head(s) \in S /\ Head(s) = s[1] /\ Len(s) \in Nat \ {0}
         /\ Tail(s) \in Seq(S) /\ Len(Tail(s)) = Len(s) - 1
         /\ \A i \in 1..Len(Tail(s)) : Tail(s)[i] = s[i + 1]
  BY HeadTailProperties, EmptySeq, LenProperties

LEMMA AppendFacts ==
  ASSUME NEW S, NEW s \in Seq(S), NEW x \in S
  PROVE  /\ Append(s, x) \in Seq(S) /\ Len(Append(s, x)) = Len(s) + 1
         /\ Len(s) \in Nat
         /\ \A i \in 1..Len(s) : Append(s, x)[i] = s[i]
         /\ Append(s, x)[Len(s) + 1] = x
  BY AppendProperties, LenProperties

LEMMA EmptyFacts ==
  ASSUME NEW n PROVE Len(<<>>) = 0 /\ Below(<<>>, n) /\ Run(<<>>, n)
  BY EmptySeq DEF Below, Run

LEMMA BelowFacts ==
  ASSUME NEW s \in Seq(Frame), NEW n \in Nat, Below(s, n), NEW m \in Nat, n <= m
  PROVE  /\ Below(s, m)
         /\ s # <<>> => Head(s) < n /\ Below(Tail(s), m)
         /\ \A x \in Frame : x < m => Below(Append(s, x), m)
  <1>1. Len(s) \in Nat /\ \A i \in 1..Len(s) : s[i] \in Nat
    BY LenProperties, MaxFramesAssumption DEF Frame
  <1>2. Below(s, m)
    BY <1>1 DEF Below
  <1>3. ASSUME s # <<>> PROVE Head(s) < n /\ Below(Tail(s), m)
    <2>1. Len(s) \in Nat \ {0} /\ Len(Tail(s)) = Len(s) - 1
      BY <1>3, TailFacts
    <2>2. \A i \in 1..Len(Tail(s)) : i + 1 \in 1..Len(s) /\ Tail(s)[i] = s[i + 1]
      BY <1>3, <2>1, TailFacts
    <2>3. Head(s) = s[1] /\ 1 \in 1..Len(s)
      BY <1>3, <2>1, TailFacts
    <2> QED BY <1>1, <2>2, <2>3 DEF Below
  <1>4. ASSUME NEW x \in Frame, x < m PROVE Below(Append(s, x), m)
    <2>1. /\ Len(Append(s, x)) = Len(s) + 1
          /\ \A i \in 1..Len(s) : Append(s, x)[i] = s[i]
          /\ Append(s, x)[Len(s) + 1] = x
      BY AppendFacts
    <2>2. \A i \in 1..(Len(s) + 1) : i \in 1..Len(s) \/ i = Len(s) + 1
      BY <1>1
    <2> QED BY <1>1, <1>2, <1>4, <2>1, <2>2 DEF Below
  <1> QED BY <1>2, <1>3, <1>4

LEMMA BelowAppend ==
  ASSUME NEW s \in Seq(Frame), NEW n \in Nat, Below(s, n), NEW x \in Frame, x < n
  PROVE  Below(Append(s, x), n)
  <1>1. n <= n
    OBVIOUS
  <1> QED BY <1>1, BelowFacts

LEMMA RunFacts ==
  ASSUME NEW s \in Seq(Frame), NEW n \in Nat, Run(s, n)
  PROVE  /\ s # <<>> => Head(s) = n /\ Run(Tail(s), n + 1)
         /\ \A x \in Frame : x = n + Len(s) => Run(Append(s, x), n)
  <1>1. Len(s) \in Nat
    BY LenProperties
  <1>2. ASSUME s # <<>> PROVE Head(s) = n /\ Run(Tail(s), n + 1)
    <2>1. Len(s) \in Nat \ {0} /\ Len(Tail(s)) = Len(s) - 1
      BY <1>2, TailFacts
    <2>2. \A i \in 1..Len(Tail(s)) : i + 1 \in 1..Len(s) /\ Tail(s)[i] = s[i + 1]
      BY <1>2, <2>1, TailFacts
    <2>3. Head(s) = s[1] /\ 1 \in 1..Len(s)
      BY <1>2, <2>1, TailFacts
    <2>4. Head(s) = n
      BY <2>3 DEF Run
    <2>5. ASSUME NEW i \in 1..Len(Tail(s)) PROVE Tail(s)[i] = (n + 1) + i - 1
      BY <2>1, <2>2, <2>5 DEF Run
    <2> QED BY <2>4, <2>5 DEF Run
  <1>3. ASSUME NEW x \in Frame, x = n + Len(s) PROVE Run(Append(s, x), n)
    <2>1. /\ Len(Append(s, x)) = Len(s) + 1
          /\ \A i \in 1..Len(s) : Append(s, x)[i] = s[i]
          /\ Append(s, x)[Len(s) + 1] = x
      BY AppendFacts
    <2>2. \A i \in 1..(Len(s) + 1) : i \in 1..Len(s) \/ i = Len(s) + 1
      BY <1>1
    <2> QED BY <1>1, <1>3, <2>1, <2>2 DEF Run
  <1> QED BY <1>2, <1>3

-----------------------------------------------------------------------------
(* Types.                                                                  *)

LEMMA TypeInit == Init => TypeOK
  <1> SUFFICES ASSUME Init PROVE TypeOK
    OBVIOUS
  <1>1. <<>> \in Seq(Frame) /\ Len(<<>>) = 0
    BY EmptySeq
  <1> QED BY <1>1, InCapAssumption, MaxFramesAssumption DEF Init, TypeOK, Frame

LEMMA OpenType ==
  ASSUME NEW e \in End, TypeOK, Open(e)
  PROVE  TypeOK'
  BY EndFacts DEF TypeOK, Shaking, Ended, Open

LEMMA DeadlineFiresType ==
  ASSUME NEW e \in End, TypeOK, DeadlineFires(e)
  PROVE  TypeOK'
  BY EndFacts DEF TypeOK, Shaking, Ended, DeadlineFires

LEMMA SendHelloType ==
  ASSUME NEW e \in End, TypeOK, SendHello(e)
  PROVE  TypeOK'
  <1>0. 0 \in Frame /\ wire[Other(e)] \in Seq(Frame)
    BY OtherEnd, MaxFramesAssumption DEF TypeOK, Frame
  <1>b. Append(wire[Other(e)], 0) \in Seq(Frame)
    BY <1>0, AppendFacts
  <1>1. wire' \in [End -> Seq(Frame)]
    BY <1>b DEF SendHello, Send, TypeOK
  <1>2. enc' \in [End -> 0..(MaxFrames + 1)]
    BY MaxFramesAssumption DEF SendHello, TypeOK
  <1>a. hs' = [hs EXCEPT ![e] = "up"] \/ hs' = [hs EXCEPT ![e] = "read"]
    BY DEF SendHello, Up
  <1>3. hs' \in [End -> Shaking \cup Ended \cup {"none", "up"}]
    BY <1>a DEF TypeOK, Shaking
  <1>4. deadline' \in [End -> {"off", "armed", "fired"}]
    BY DEF SendHello, Up, TypeOK
  <1> QED BY <1>1, <1>2, <1>3, <1>4 DEF TypeOK, SendHello

LEMMA ReadHelloType ==
  ASSUME NEW e \in End, TypeOK, ReadHello(e)
  PROVE  TypeOK'
  <1>1. in[e] \in Seq(Frame) /\ in[e] # <<>>
    BY DEF ReadHello, TypeOK
  <1>2. Tail(in[e]) \in Seq(Frame) /\ Len(Tail(in[e])) = Len(in[e]) - 1 /\ Len(in[e]) \in Nat
    BY <1>1, TailFacts
  <1>3. in' \in [End -> Seq(Frame)]
    BY <1>2 DEF ReadHello, TypeOK
  <1>4. \A d \in End : Len(in'[d]) <= InCap
    BY <1>2, InCapAssumption DEF ReadHello, TypeOK
  <1>5. dec' \in [End -> 0..(MaxFrames + 1)]
    BY MaxFramesAssumption DEF ReadHello, TypeOK
  <1>a. hs' = [hs EXCEPT ![e] = "up"] \/ hs' = [hs EXCEPT ![e] = "send"]
    BY DEF ReadHello, Up
  <1>6. hs' \in [End -> Shaking \cup Ended \cup {"none", "up"}]
    BY <1>a DEF TypeOK, Shaking
  <1>7. deadline' \in [End -> {"off", "armed", "fired"}]
    BY DEF ReadHello, Up, TypeOK
  <1> QED BY <1>3, <1>4, <1>5, <1>6, <1>7 DEF TypeOK, ReadHello

LEMMA HandshakeFailsType ==
  ASSUME NEW e \in End, TypeOK, HandshakeFails(e)
  PROVE  TypeOK'
  BY EndFacts DEF TypeOK, Shaking, Ended, HandshakeFails

LEMMA EncryptType ==
  ASSUME NEW e \in End, TypeOK, Encrypt(e)
  PROVE  TypeOK'
  <1>1. enc' \in [End -> 0..(MaxFrames + 1)]
    BY MaxFramesAssumption DEF Encrypt, TypeOK
  <1>2. enc[e] \in Frame
    BY MaxFramesAssumption DEF Encrypt, Frame
  <1>3. sending' \in [End -> SUBSET Frame]
    BY <1>2 DEF Encrypt, TypeOK
  <1> QED BY <1>1, <1>3 DEF TypeOK, Encrypt

LEMMA SendFrameType ==
  ASSUME NEW e \in End, TypeOK, SendFrame(e)
  PROVE  TypeOK'
  <1>1. wire' \in [End -> Seq(Frame)]
    <2>1. PICK f \in Frame : Send(e, f)
      BY DEF SendFrame, TypeOK
    <2>2. Append(wire[Other(e)], f) \in Seq(Frame)
      BY OtherEnd, AppendFacts DEF TypeOK
    <2> QED BY <2>1, <2>2 DEF Send, TypeOK
  <1>2. sending' \in [End -> SUBSET Frame]
    BY DEF SendFrame, TypeOK
  <1> QED BY <1>1, <1>2 DEF TypeOK, SendFrame

LEMMA WriteFailsType ==
  ASSUME NEW e \in End, TypeOK, WriteFails(e)
  PROVE  TypeOK'
  BY EndFacts DEF TypeOK, Shaking, Ended, WriteFails, GiveUp

LEMMA ReadType ==
  ASSUME NEW e \in End, TypeOK, Read(e)
  PROVE  TypeOK'
  <1>1. in[e] \in Seq(Frame) /\ in[e] # <<>>
    BY DEF Read, TypeOK
  <1>2. Head(in[e]) \in Frame /\ Tail(in[e]) \in Seq(Frame)
        /\ Len(Tail(in[e])) = Len(in[e]) - 1 /\ Len(in[e]) \in Nat
    BY <1>1, TailFacts
  <1>3. in' \in [End -> Seq(Frame)]
    BY <1>2 DEF Read, TypeOK
  <1>4. \A d \in End : Len(in'[d]) <= InCap
    BY <1>2, InCapAssumption DEF Read, TypeOK
  <1>5. Append(got[e], Head(in[e])) \in Seq(Frame)
    BY <1>2, AppendProperties DEF TypeOK
  <1>6. got' \in [End -> Seq(Frame)]
    BY <1>5 DEF Read, TypeOK
  <1>7. dec[e] + 1 \in 0..(MaxFrames + 1)
    BY <1>2, MaxFramesAssumption DEF Read, Frame
  <1>8. dec' \in [End -> 0..(MaxFrames + 1)]
    BY <1>7 DEF Read, TypeOK
  <1> QED BY <1>3, <1>4, <1>6, <1>8 DEF TypeOK, Read

LEMMA ReadFailsType ==
  ASSUME NEW e \in End, TypeOK, ReadFails(e)
  PROVE  TypeOK'
  BY EndFacts DEF TypeOK, Shaking, Ended, ReadFails, GiveUp

LEMMA CloseType ==
  ASSUME NEW e \in End, TypeOK, Close(e)
  PROVE  TypeOK'
  BY EndFacts DEF TypeOK, Shaking, Ended, Close

LEMMA EarlyMessageType ==
  ASSUME NEW e \in End, TypeOK, EarlyMessage(e)
  PROVE  TypeOK'
  <1>1. Tail(wire[e]) \in Seq(Frame)
    BY TailFacts DEF EarlyMessage, TypeOK
  <1> QED BY <1>1 DEF TypeOK, EarlyMessage

LEMMA OnMessageType ==
  ASSUME NEW e \in End, TypeOK, OnMessage(e)
  PROVE  TypeOK'
  <1>1. wire[e] \in Seq(Frame) /\ wire[e] # <<>>
    BY DEF OnMessage, TypeOK
  <1>2. Head(wire[e]) \in Frame /\ Tail(wire[e]) \in Seq(Frame)
    BY <1>1, TailFacts
  <1>3. /\ Append(in[e], Head(wire[e])) \in Seq(Frame)
        /\ Len(Append(in[e], Head(wire[e]))) = Len(in[e]) + 1 /\ Len(in[e]) \in Nat
    BY <1>2, AppendFacts DEF TypeOK
  <1>4. wire' \in [End -> Seq(Frame)]
    BY <1>2 DEF OnMessage, TypeOK
  <1>5. in' \in [End -> Seq(Frame)]
    BY <1>3 DEF OnMessage, TypeOK
  <1>6. \A d \in End : Len(in'[d]) <= InCap
    <2>1. CASE UNCHANGED in
      BY <2>1 DEF TypeOK
    <2>2. CASE Len(in[e]) < InCap /\ in' = [in EXCEPT ![e] = Append(@, Head(wire[e]))]
      BY <1>3, <2>2, InCapAssumption DEF TypeOK
    <2> QED BY <2>1, <2>2 DEF OnMessage
  <1> QED BY <1>4, <1>5, <1>6 DEF TypeOK, OnMessage

LEMMA OnCloseType ==
  ASSUME NEW e \in End, TypeOK, OnClose(e)
  PROVE  TypeOK'
  BY EndFacts DEF TypeOK, Shaking, Ended, OnClose

LEMMA LinkFailsType ==
  ASSUME TypeOK, LinkFails
  PROVE  TypeOK'
  BY EmptySeq DEF TypeOK, LinkFails

LEMMA TypeStep == TypeOK /\ [Next]_vars => TypeOK'
  <1> SUFFICES ASSUME TypeOK, [Next]_vars PROVE TypeOK'
    OBVIOUS
  <1>1. CASE UNCHANGED vars
    BY <1>1 DEF vars, TypeOK
  <1>2. CASE LinkFails
    BY <1>2, LinkFailsType
  <1>3. ASSUME NEW e \in End,
               \/ Open(e) \/ DeadlineFires(e) \/ Handshake(e) \/ Encrypt(e)
               \/ Writer(e) \/ Reader(e) \/ Close(e) \/ ReadLoop(e)
        PROVE  TypeOK'
    BY <1>3, OpenType, DeadlineFiresType, SendHelloType, ReadHelloType, HandshakeFailsType,
       EncryptType, SendFrameType, WriteFailsType, ReadType, ReadFailsType, CloseType,
       EarlyMessageType, OnMessageType, OnCloseType
    DEF Handshake, Writer, Reader, ReadLoop
  <1> QED BY <1>1, <1>2, <1>3 DEF Next

\* Every variable keeps its type, and Conn.in never holds more than its capacity:
\* OnMessage waits instead (NewConn's comment on the size of in).
THEOREM TypeCorrect == Spec => []TypeOK
  <1>1. Init => TypeOK
    BY TypeInit
  <1>2. TypeOK /\ [Next]_vars => TypeOK'
    BY TypeStep
  <1> QED BY <1>1, <1>2, PTL DEF Spec

-----------------------------------------------------------------------------
(* The order of the handshakes.                                            *)

\* What the invariants look at stays as it is.
LEMMA SameLocal ==
  ASSUME NEW d \in End, ShakeInv, hs'[d] = hs[d], enc'[d] = enc[d], dec'[d] = dec[d],
         sending'[d] = sending[d], in'[d] = in[d], got'[d] = got[d], deadline'[d] = deadline[d]
  PROVE  LocalInv(d)'
  BY DEF ShakeInv, LocalInv

LEMMA SameOrder == ShakeInv /\ UNCHANGED <<pinned, hs, enc, dec>> => OrderInv'
  BY DEF ShakeInv, OrderInv, Trusted

\* A session that was up may end: nothing about the order of the handshakes
\* depends on which of the two it is.
LEMMA OverOrder ==
  ASSUME NEW e \in End, TypeOK, ShakeInv, hs[e] = "up", hs' = [hs EXCEPT ![e] = "over"],
         UNCHANGED <<pinned, enc, dec>>
  PROVE  OrderInv'
  <1>1. \A d \in End : hs'[d] = hs[d] \/ (hs[d] = "up" /\ hs'[d] = "over")
    BY DEF TypeOK
  <1>2. /\ hs'["viewer"] = hs["viewer"] \/ (hs["viewer"] = "up" /\ hs'["viewer"] = "over")
        /\ hs'["owner"] = hs["owner"] \/ (hs["owner"] = "up" /\ hs'["owner"] = "over")
    BY <1>1, EndFacts
  <1> QED BY <1>2 DEF ShakeInv, OrderInv, Trusted

LEMMA OpenShake ==
  ASSUME NEW e \in End, TypeOK, ShakeInv, FrameInv, Open(e)
  PROVE  ShakeInv'
  <1>1. /\ UNCHANGED <<pinned, enc, dec, sending, in, got>> /\ hs[e] = "none"
        /\ \A d \in End : d # e => hs'[d] = hs[d] /\ deadline'[d] = deadline[d]
    BY DEF Open, TypeOK
  <1>2. hs'[e] = IF e = "viewer" THEN "send" ELSE "read"
    BY DEF Open, TypeOK
  <1>3. ASSUME NEW d \in End PROVE LocalInv(d)'
    <2>1. CASE d = e
      <3>1. got[e] = <<>> /\ dec[e] = 0 /\ ~(enc[e] > 1 \/ sending[e] # {})
        BY <1>1 DEF ShakeInv, LocalInv
      <3>2. hs'[e] \in {"send", "read"}
        BY <1>2
      <3> QED BY <1>1, <2>1, <3>1, <3>2 DEF LocalInv, Shaking
    <2>2. CASE d # e
      BY <1>1, <2>2, SameLocal
    <2> QED BY <2>1, <2>2
  <1>4. OrderInv'
    <2>1. CASE e = "viewer"
      <3>1. /\ hs["viewer"] = "none" /\ dec["viewer"] = 0
            /\ hs'["viewer"] = "send" /\ hs'["owner"] = hs["owner"]
        BY <1>1, <1>2, <2>1, EndFacts DEF ShakeInv, LocalInv
      <3> QED BY <1>1, <3>1 DEF ShakeInv, OrderInv, Trusted
    <2>2. CASE e = "owner"
      <3>1. hs["owner"] = "none" /\ hs'["owner"] = "read" /\ hs'["viewer"] = hs["viewer"]
        BY <1>1, <1>2, <2>2, EndFacts
      <3> QED BY <1>1, <3>1 DEF ShakeInv, OrderInv, Trusted
    <2> QED BY <2>1, <2>2, EndFacts
  <1> QED BY <1>3, <1>4 DEF ShakeInv

LEMMA DeadlineFiresShake ==
  ASSUME NEW e \in End, TypeOK, ShakeInv, FrameInv, DeadlineFires(e)
  PROVE  ShakeInv'
  <1>1. /\ UNCHANGED <<pinned, hs, enc, dec, sending, in, got>>
        /\ \A d \in End : d # e => deadline'[d] = deadline[d]
    BY DEF DeadlineFires, TypeOK
  <1>2. hs[e] # "up"
    BY DEF DeadlineFires, ShakeInv, LocalInv
  <1>3. ASSUME NEW d \in End PROVE LocalInv(d)'
    <2>1. CASE d = e
      BY <1>1, <1>2, <2>1 DEF ShakeInv, LocalInv
    <2>2. CASE d # e
      BY <1>1, <2>2, SameLocal
    <2> QED BY <2>1, <2>2
  <1> QED BY <1>1, <1>3, SameOrder DEF ShakeInv

LEMMA HandshakeFailsShake ==
  ASSUME NEW e \in End, TypeOK, ShakeInv, FrameInv, HandshakeFails(e)
  PROVE  ShakeInv'
  <1>1. LocalInv(e)'
    <2>1. hs'[e] = "failed" /\ UNCHANGED <<enc, dec, in, got, sending>>
      BY DEF HandshakeFails, TypeOK
    <2>2. sending[e] = {} /\ ~(enc[e] > 1)
      BY DEF HandshakeFails, ShakeInv, LocalInv, Shaking
    <2> QED BY <2>1, <2>2 DEF LocalInv, Shaking
  <1>2. LocalInv(Other(e))'
    <2>1. /\ hs'[Other(e)] = hs[Other(e)] /\ enc'[Other(e)] = enc[Other(e)]
          /\ dec'[Other(e)] = dec[Other(e)] /\ sending'[Other(e)] = sending[Other(e)]
          /\ in'[Other(e)] = in[Other(e)] /\ got'[Other(e)] = got[Other(e)]
          /\ deadline'[Other(e)] = deadline[Other(e)]
      BY OtherEnd DEF TypeOK, HandshakeFails
    <2> QED BY <2>1, OtherEnd, SameLocal
  <1>3. OrderInv'
    <2>1. CASE e = "viewer"
      BY <2>1, EndFacts, MaxFramesAssumption DEF ShakeInv, OrderInv, LocalInv, TypeOK, Trusted, Shaking, HandshakeFails
    <2>2. CASE e = "owner"
      BY <2>2, EndFacts, MaxFramesAssumption DEF ShakeInv, OrderInv, LocalInv, TypeOK, Trusted, Shaking, HandshakeFails
    <2> QED BY <2>1, <2>2, EndFacts
  <1> QED BY <1>1, <1>2, <1>3, EndFacts DEF ShakeInv

LEMMA WriteFailsShake ==
  ASSUME NEW e \in End, TypeOK, ShakeInv, FrameInv, WriteFails(e)
  PROVE  ShakeInv'
  <1>1. LocalInv(e)'
    <2>1. sending'[e] = {} /\ hs'[e] = "over" /\ UNCHANGED <<enc, dec, in, got, deadline>>
      BY DEF WriteFails, GiveUp, TypeOK
    <2> QED BY <2>1 DEF LocalInv, Shaking
  <1>2. LocalInv(Other(e))'
    <2>1. /\ hs'[Other(e)] = hs[Other(e)] /\ enc'[Other(e)] = enc[Other(e)]
          /\ dec'[Other(e)] = dec[Other(e)] /\ sending'[Other(e)] = sending[Other(e)]
          /\ in'[Other(e)] = in[Other(e)] /\ got'[Other(e)] = got[Other(e)]
          /\ deadline'[Other(e)] = deadline[Other(e)]
      BY OtherEnd DEF TypeOK, WriteFails, GiveUp
    <2> QED BY <2>1, OtherEnd, SameLocal
  <1>3. OrderInv'
    BY OverOrder DEF WriteFails, GiveUp
  <1> QED BY <1>1, <1>2, <1>3, EndFacts DEF ShakeInv

LEMMA ReadFailsShake ==
  ASSUME NEW e \in End, TypeOK, ShakeInv, FrameInv, ReadFails(e)
  PROVE  ShakeInv'
  <1>1. /\ hs[e] = "up" /\ hs' = [hs EXCEPT ![e] = "over"]
        /\ UNCHANGED <<pinned, enc, dec, sending, in, got, deadline>>
    BY DEF ReadFails, GiveUp
  <1>2. ASSUME NEW d \in End PROVE LocalInv(d)'
    <2>1. CASE d = e
      <3>1. hs'[d] = "over" /\ sending[d] \subseteq {enc[d] - 1}
        BY <1>1, <2>1 DEF TypeOK, ShakeInv, LocalInv
      <3> QED BY <1>1, <3>1 DEF LocalInv, Shaking
    <2>2. CASE d # e
      <3>1. hs'[d] = hs[d]
        BY <1>1, <2>2 DEF TypeOK
      <3> QED BY <1>1, <3>1, SameLocal
    <2> QED BY <2>1, <2>2
  <1>3. OrderInv'
    BY <1>1, OverOrder
  <1> QED BY <1>2, <1>3 DEF ShakeInv

LEMMA CloseShake ==
  ASSUME NEW e \in End, TypeOK, ShakeInv, FrameInv, Close(e)
  PROVE  ShakeInv'
  BY EndFacts DEF ShakeInv, OrderInv, LocalInv, TypeOK, Trusted, Shaking, Ended, Close

LEMMA OnCloseShake ==
  ASSUME NEW e \in End, TypeOK, ShakeInv, FrameInv, OnClose(e)
  PROVE  ShakeInv'
  BY EndFacts DEF ShakeInv, OrderInv, LocalInv, TypeOK, Trusted, Shaking, Ended, OnClose

LEMMA SendHelloShake ==
  ASSUME NEW e \in End, TypeOK, ShakeInv, FrameInv, SendHello(e)
  PROVE  ShakeInv'
  <1>1. LocalInv(e)'
    <2>a. enc'[e] = 1 /\ UNCHANGED <<dec, in, got, sending>>
      BY DEF SendHello, TypeOK
    <2>b. \/ hs'[e] = "read" /\ e = "viewer"
          \/ hs'[e] = "up" /\ e = "owner" /\ deadline'[e] = "off"
      BY DEF SendHello, Up, TypeOK, End
    <2>2. sending[e] = {} /\ got[e] = <<>> /\ Len(got[e]) = 0
      BY EmptySeq DEF SendHello, ShakeInv, LocalInv, Shaking
    <2>3. e = "viewer" => dec[e] = 0
      BY DEF SendHello, ShakeInv, OrderInv
    <2>4. e = "owner" => dec[e] = 1
      BY DEF SendHello, ShakeInv, OrderInv
    <2> QED BY <2>a, <2>b, <2>2, <2>3, <2>4 DEF LocalInv, Shaking
  <1>2. LocalInv(Other(e))'
    <2>1. /\ hs'[Other(e)] = hs[Other(e)] /\ enc'[Other(e)] = enc[Other(e)]
          /\ dec'[Other(e)] = dec[Other(e)] /\ sending'[Other(e)] = sending[Other(e)]
          /\ in'[Other(e)] = in[Other(e)] /\ got'[Other(e)] = got[Other(e)]
          /\ deadline'[Other(e)] = deadline[Other(e)]
      BY OtherEnd DEF TypeOK, SendHello, Up
    <2> QED BY <2>1, OtherEnd, SameLocal
  <1>3. OrderInv'
    <2>1. CASE e = "viewer"
      <3>1. /\ UNCHANGED <<pinned, dec>>
            /\ hs["viewer"] = "send" /\ hs'["viewer"] = "read" /\ hs'["owner"] = hs["owner"]
            /\ enc'["viewer"] = 1 /\ enc'["owner"] = enc["owner"]
        BY <2>1, EndFacts, MaxFramesAssumption DEF SendHello, Up, TypeOK
      <3> QED BY <2>1, <3>1, EndFacts DEF ShakeInv, OrderInv, LocalInv, Trusted
    <2>2. CASE e = "owner"
      <3>1. /\ UNCHANGED <<pinned, dec>>
            /\ hs["owner"] = "send" /\ hs'["owner"] = "up" /\ hs'["viewer"] = hs["viewer"]
            /\ enc'["owner"] = 1 /\ enc'["viewer"] = enc["viewer"]
        BY <2>2, EndFacts, MaxFramesAssumption DEF SendHello, Up, TypeOK
      <3> QED BY <2>2, <3>1, EndFacts DEF ShakeInv, OrderInv, LocalInv, Trusted
    <2> QED BY <2>1, <2>2, EndFacts
  <1> QED BY <1>1, <1>2, <1>3, EndFacts DEF ShakeInv

LEMMA ReadHelloShake ==
  ASSUME NEW e \in End, TypeOK, ShakeInv, FrameInv, ReadHello(e)
  PROVE  ShakeInv'
  <1>0. enc[Other(e)] >= 1 /\ enc[Other(e)] \in Nat
    <2>1. in[e] \in Seq(Frame) /\ in[e] # <<>>
      BY DEF ReadHello, TypeOK
    <2>2. Head(in[e]) \in Nat
      BY <2>1, TailFacts, MaxFramesAssumption DEF Frame
    <2>3. enc[Other(e)] \in Nat
      BY EndFacts, MaxFramesAssumption DEF TypeOK
    <2>4. Head(in[e]) < enc[Other(e)]
      BY <2>1, <2>3, BelowFacts DEF FrameInv
    <2> QED BY <2>2, <2>3, <2>4
  <1>1. LocalInv(e)'
    <2>a. dec'[e] = 1 /\ UNCHANGED <<enc, got, sending>>
      BY DEF ReadHello, TypeOK
    <2>b. \/ hs'[e] = "up" /\ e = "viewer" /\ deadline'[e] = "off"
          \/ hs'[e] = "send" /\ e = "owner"
      BY DEF ReadHello, Up, TypeOK, End
    <2>2. sending[e] = {} /\ got[e] = <<>> /\ Len(got[e]) = 0
      BY EmptySeq DEF ReadHello, ShakeInv, LocalInv, Shaking
    <2>3. e = "viewer" => enc[e] >= 1
      BY <1>0, EndFacts DEF ReadHello, ShakeInv, OrderInv
    <2>4. ~(enc[e] > 1)
      BY DEF ReadHello, ShakeInv, LocalInv
    <2> QED BY <2>a, <2>b, <2>2, <2>3, <2>4 DEF LocalInv, Shaking
  <1>2. LocalInv(Other(e))'
    <2>1. /\ hs'[Other(e)] = hs[Other(e)] /\ enc'[Other(e)] = enc[Other(e)]
          /\ dec'[Other(e)] = dec[Other(e)] /\ sending'[Other(e)] = sending[Other(e)]
          /\ in'[Other(e)] = in[Other(e)] /\ got'[Other(e)] = got[Other(e)]
          /\ deadline'[Other(e)] = deadline[Other(e)]
      BY OtherEnd DEF TypeOK, ReadHello, Up, HelloAccepted
    <2> QED BY <2>1, OtherEnd, SameLocal
  <1>3. OrderInv'
    <2>1. CASE e = "viewer"
      <3>1. /\ UNCHANGED <<pinned, enc>>
            /\ hs["viewer"] = "read" /\ hs'["viewer"] = "up" /\ hs'["owner"] = hs["owner"]
            /\ dec'["viewer"] = 1 /\ dec'["owner"] = dec["owner"]
        BY <2>1, EndFacts, MaxFramesAssumption DEF ReadHello, Up, HelloAccepted, TypeOK
      <3> QED BY <1>0, <2>1, <3>1, EndFacts DEF ShakeInv, OrderInv, LocalInv, Trusted
    <2>2. CASE e = "owner"
      <3>1. /\ UNCHANGED <<pinned, enc>>
            /\ hs["owner"] = "read" /\ hs'["owner"] = "send" /\ hs'["viewer"] = hs["viewer"]
            /\ dec'["owner"] = 1 /\ dec'["viewer"] = dec["viewer"]
            /\ Trusted
        BY <2>2, EndFacts, MaxFramesAssumption DEF ReadHello, Up, HelloAccepted, TypeOK
      <3>2. enc["viewer"] >= 1
        BY <1>0, <2>2, EndFacts
      <3>3. enc["owner"] \in Nat
        BY EndFacts, MaxFramesAssumption DEF TypeOK
      <3>4. enc["owner"] = 0
        BY <3>1, <3>3 DEF ShakeInv, OrderInv
      <3> QED BY <3>1, <3>2, <3>4 DEF ShakeInv, OrderInv, Trusted
    <2> QED BY <2>1, <2>2, EndFacts
  <1> QED BY <1>1, <1>2, <1>3, EndFacts DEF ShakeInv

LEMMA EncryptShake ==
  ASSUME NEW e \in End, TypeOK, ShakeInv, FrameInv, Encrypt(e)
  PROVE  ShakeInv'
  <1>1. LocalInv(e)'
    <2>1. /\ sending'[e] = {enc[e]} /\ enc'[e] = enc[e] + 1 /\ enc[e] \in Nat
          /\ hs[e] = "up" /\ UNCHANGED <<hs, dec, in, got, deadline>>
      BY MaxFramesAssumption DEF Encrypt, TypeOK
    <2>2. enc'[e] - 1 = enc[e] /\ enc'[e] >= 1
      BY <2>1
    <2> QED BY <2>1, <2>2 DEF ShakeInv, LocalInv, Shaking
  <1>2. LocalInv(Other(e))'
    <2>1. /\ hs'[Other(e)] = hs[Other(e)] /\ enc'[Other(e)] = enc[Other(e)]
          /\ dec'[Other(e)] = dec[Other(e)] /\ sending'[Other(e)] = sending[Other(e)]
          /\ in'[Other(e)] = in[Other(e)] /\ got'[Other(e)] = got[Other(e)]
          /\ deadline'[Other(e)] = deadline[Other(e)]
      BY OtherEnd DEF TypeOK, Encrypt
    <2> QED BY <2>1, OtherEnd, SameLocal
  <1>3. OrderInv'
    <2>1. CASE e = "viewer"
      <3>1. /\ UNCHANGED <<pinned, hs, dec>> /\ hs["viewer"] = "up" /\ enc["viewer"] \in Nat
            /\ enc'["viewer"] = enc["viewer"] + 1 /\ enc'["owner"] = enc["owner"]
        BY <2>1, EndFacts, MaxFramesAssumption DEF Encrypt, TypeOK
      <3> QED BY <2>1, <3>1, EndFacts DEF ShakeInv, OrderInv, LocalInv, Trusted
    <2>2. CASE e = "owner"
      <3>1. /\ UNCHANGED <<pinned, hs, dec>> /\ hs["owner"] = "up" /\ enc["owner"] \in Nat
            /\ enc'["owner"] = enc["owner"] + 1 /\ enc'["viewer"] = enc["viewer"]
        BY <2>2, EndFacts, MaxFramesAssumption DEF Encrypt, TypeOK
      <3> QED BY <2>2, <3>1, EndFacts DEF ShakeInv, OrderInv, LocalInv, Trusted
    <2> QED BY <2>1, <2>2, EndFacts
  <1> QED BY <1>1, <1>2, <1>3, EndFacts DEF ShakeInv

LEMMA SendFrameShake ==
  ASSUME NEW e \in End, TypeOK, ShakeInv, FrameInv, SendFrame(e)
  PROVE  ShakeInv'
  <1>1. LocalInv(e)'
    BY EndFacts, MaxFramesAssumption DEF ShakeInv, LocalInv, TypeOK, Shaking, SendFrame
  <1>2. LocalInv(Other(e))'
    <2>1. /\ hs'[Other(e)] = hs[Other(e)] /\ enc'[Other(e)] = enc[Other(e)]
          /\ dec'[Other(e)] = dec[Other(e)] /\ sending'[Other(e)] = sending[Other(e)]
          /\ in'[Other(e)] = in[Other(e)] /\ got'[Other(e)] = got[Other(e)]
          /\ deadline'[Other(e)] = deadline[Other(e)]
      BY OtherEnd DEF TypeOK, SendFrame
    <2> QED BY <2>1, OtherEnd, SameLocal
  <1>3. OrderInv'
    BY SameOrder DEF SendFrame
  <1> QED BY <1>1, <1>2, <1>3, EndFacts DEF ShakeInv

LEMMA ReadShake ==
  ASSUME NEW e \in End, TypeOK, ShakeInv, FrameInv, Read(e)
  PROVE  ShakeInv'
  <1>0. Len(got'[e]) = Len(got[e]) + 1 /\ Len(got[e]) \in Nat
    BY TailFacts, AppendFacts DEF Read, TypeOK
  <1>1. LocalInv(e)'
    <2>1. /\ hs[e] = "up" /\ dec'[e] = dec[e] + 1 /\ dec[e] \in Nat
          /\ UNCHANGED <<hs, enc, sending, deadline>>
      BY MaxFramesAssumption DEF Read, TypeOK
    <2>2. dec'[e] = Len(got'[e]) + 1
      BY <1>0, <2>1 DEF ShakeInv, LocalInv
    <2> QED BY <2>1, <2>2 DEF ShakeInv, LocalInv, Shaking
  <1>2. LocalInv(Other(e))'
    <2>1. /\ hs'[Other(e)] = hs[Other(e)] /\ enc'[Other(e)] = enc[Other(e)]
          /\ dec'[Other(e)] = dec[Other(e)] /\ sending'[Other(e)] = sending[Other(e)]
          /\ in'[Other(e)] = in[Other(e)] /\ got'[Other(e)] = got[Other(e)]
          /\ deadline'[Other(e)] = deadline[Other(e)]
      BY OtherEnd DEF TypeOK, Read
    <2> QED BY <2>1, OtherEnd, SameLocal
  <1>3. OrderInv'
    <2>1. CASE e = "viewer"
      <3>1. /\ UNCHANGED <<pinned, hs, enc>> /\ hs["viewer"] = "up" /\ dec["viewer"] \in Nat
            /\ dec'["viewer"] = dec["viewer"] + 1 /\ dec'["owner"] = dec["owner"]
        BY <2>1, EndFacts, MaxFramesAssumption DEF Read, TypeOK
      <3> QED BY <1>0, <2>1, <3>1, EndFacts DEF ShakeInv, OrderInv, LocalInv, Trusted
    <2>2. CASE e = "owner"
      <3>1. /\ UNCHANGED <<pinned, hs, enc>> /\ hs["owner"] = "up" /\ dec["owner"] \in Nat
            /\ dec'["owner"] = dec["owner"] + 1 /\ dec'["viewer"] = dec["viewer"]
        BY <2>2, EndFacts, MaxFramesAssumption DEF Read, TypeOK
      <3> QED BY <1>0, <2>2, <3>1, EndFacts DEF ShakeInv, OrderInv, LocalInv, Trusted
    <2> QED BY <2>1, <2>2, EndFacts
  <1> QED BY <1>1, <1>2, <1>3, EndFacts DEF ShakeInv

LEMMA EarlyMessageShake ==
  ASSUME NEW e \in End, TypeOK, ShakeInv, FrameInv, EarlyMessage(e)
  PROVE  ShakeInv'
  BY EndFacts DEF ShakeInv, OrderInv, LocalInv, TypeOK, Trusted, Shaking, Ended, EarlyMessage

LEMMA OnMessageShake ==
  ASSUME NEW e \in End, TypeOK, ShakeInv, FrameInv, OnMessage(e)
  PROVE  ShakeInv'
  <1>1. LocalInv(e)'
    <2>1. hs[e] # "none" /\ UNCHANGED <<hs, dec, enc, sending, got, deadline>>
      BY DEF OnMessage
    <2> QED BY <2>1 DEF ShakeInv, LocalInv
  <1>2. LocalInv(Other(e))'
    <2>1. /\ hs'[Other(e)] = hs[Other(e)] /\ enc'[Other(e)] = enc[Other(e)]
          /\ dec'[Other(e)] = dec[Other(e)] /\ sending'[Other(e)] = sending[Other(e)]
          /\ in'[Other(e)] = in[Other(e)] /\ got'[Other(e)] = got[Other(e)]
          /\ deadline'[Other(e)] = deadline[Other(e)]
      BY OtherEnd DEF TypeOK, OnMessage
    <2> QED BY <2>1, OtherEnd, SameLocal
  <1>3. OrderInv'
    BY SameOrder DEF OnMessage
  <1> QED BY <1>1, <1>2, <1>3, EndFacts DEF ShakeInv

LEMMA LinkFailsShake ==
  ASSUME TypeOK, ShakeInv, LinkFails
  PROVE  ShakeInv'
  BY DEF ShakeInv, OrderInv, LocalInv, Trusted, LinkFails

-----------------------------------------------------------------------------
(* Frames and their order.                                                 *)

\* What BelowFacts and RunFacts need of the types.
LEMMA Sizes ==
  ASSUME TypeOK, NEW e \in End
  PROVE  /\ in[e] \in Seq(Frame) /\ wire[e] \in Seq(Frame)
         /\ Len(in[e]) \in Nat /\ Len(wire[e]) \in Nat
         /\ enc[e] \in Nat /\ dec[e] \in Nat
         /\ enc[Other(e)] \in Nat /\ dec[Other(e)] \in Nat
  BY EndFacts, LenProperties, MaxFramesAssumption DEF TypeOK

\* No queue of frames changes, and no end has encrypted fewer.
LEMMA SameFrames ==
  ASSUME FrameInv, UNCHANGED <<in, wire, enc>>
  PROVE  FrameInv'
  BY DEF FrameInv

LEMMA SendHelloFrame ==
  ASSUME NEW e \in End, TypeOK, ShakeInv, FrameInv, SendHello(e)
  PROVE  FrameInv'
  <1>1. 0 \in Frame /\ in' = in /\ wire'[e] = wire[e]
        /\ wire'[Other(e)] \in {wire[Other(e)], Append(wire[Other(e)], 0)}
    BY EndFacts, MaxFramesAssumption DEF SendHello, Send, TypeOK, Frame
  <1>a. enc'[e] = 1 /\ enc'[Other(e)] = enc[Other(e)]
    BY OtherEnd DEF SendHello, TypeOK
  <1>b. enc[e] = 0
    BY EndFacts DEF SendHello, ShakeInv, OrderInv
  <1>2. enc'[e] = 1 /\ enc'[Other(e)] = enc[Other(e)] /\ enc[e] <= 1
    BY <1>a, <1>b
  <1>3. Below(in[Other(e)], 1) /\ Below(wire[Other(e)], 1)
    <2>1. Below(in[Other(e)], enc[e]) /\ Below(wire[Other(e)], enc[e])
      BY EndFacts DEF FrameInv
    <2> QED BY <1>2, <2>1, EndFacts, Sizes, BelowFacts
  <1>4. wire[Other(e)] \in Seq(Frame) /\ 1 \in Nat /\ 0 < 1
    BY EndFacts, Sizes
  <1>5. Below(wire'[Other(e)], 1)
    BY <1>1, <1>3, <1>4, BelowAppend
  <1> QED BY <1>1, <1>2, <1>3, <1>5, EndFacts DEF FrameInv

LEMMA ReadHelloFrame ==
  ASSUME NEW e \in End, TypeOK, ShakeInv, FrameInv, ReadHello(e)
  PROVE  FrameInv'
  <1>1. in[e] # <<>> /\ in'[e] = Tail(in[e]) /\ in'[Other(e)] = in[Other(e)] /\ UNCHANGED <<wire, enc>>
    BY OtherEnd DEF ReadHello, TypeOK
  <1>2. Below(Tail(in[e]), enc[Other(e)])
    BY <1>1, EndFacts, Sizes, BelowFacts DEF FrameInv
  <1> QED BY <1>1, <1>2, EndFacts DEF FrameInv

LEMMA EncryptFrame ==
  ASSUME NEW e \in End, TypeOK, ShakeInv, FrameInv, Encrypt(e)
  PROVE  FrameInv'
  <1>1. /\ enc'[e] = enc[e] + 1 /\ enc'[Other(e)] = enc[Other(e)] /\ UNCHANGED <<in, wire>>
    BY EndFacts DEF Encrypt, TypeOK
  <1>2. Below(in[Other(e)], enc[e] + 1) /\ Below(wire[Other(e)], enc[e] + 1)
    BY EndFacts, Sizes, BelowFacts DEF FrameInv
  <1> QED BY <1>1, <1>2, EndFacts DEF FrameInv

LEMMA SendFrameFrame ==
  ASSUME NEW e \in End, TypeOK, ShakeInv, FrameInv, SendFrame(e)
  PROVE  FrameInv'
  <1>1. PICK f \in sending[e] : Send(e, f)
    BY DEF SendFrame
  <1>2. /\ wire'[e] = wire[e] /\ UNCHANGED <<in, enc>>
        /\ wire'[Other(e)] \in {wire[Other(e)], Append(wire[Other(e)], f)}
    <2>1. UNCHANGED <<in, enc>>
      BY DEF SendFrame
    <2>2. wire' = wire \/ wire' = [wire EXCEPT ![Other(e)] = Append(@, f)]
      BY <1>1 DEF Send
    <2> QED BY <2>1, <2>2, OtherEnd DEF TypeOK
  <1>3. f \in Frame /\ f < enc[e]
    BY Sizes DEF TypeOK, ShakeInv, LocalInv
  <1>4. Below(wire'[Other(e)], enc[e])
    <2>1. Below(wire[Other(e)], enc[e]) /\ wire[Other(e)] \in Seq(Frame) /\ enc[e] \in Nat
      BY EndFacts, Sizes DEF FrameInv
    <2> QED BY <1>2, <1>3, <2>1, BelowAppend
  <1> QED BY <1>2, <1>4, EndFacts DEF FrameInv

LEMMA ReadFrame ==
  ASSUME NEW e \in End, TypeOK, ShakeInv, FrameInv, Read(e)
  PROVE  FrameInv'
  <1>1. in[e] # <<>> /\ in'[e] = Tail(in[e]) /\ in'[Other(e)] = in[Other(e)] /\ UNCHANGED <<wire, enc>>
    BY OtherEnd DEF Read, TypeOK
  <1>2. Below(Tail(in[e]), enc[Other(e)])
    BY <1>1, EndFacts, Sizes, BelowFacts DEF FrameInv
  <1> QED BY <1>1, <1>2, EndFacts DEF FrameInv

LEMMA EarlyMessageFrame ==
  ASSUME NEW e \in End, TypeOK, ShakeInv, FrameInv, EarlyMessage(e)
  PROVE  FrameInv'
  <1>1. wire[e] # <<>> /\ wire'[e] = Tail(wire[e]) /\ wire'[Other(e)] = wire[Other(e)]
        /\ UNCHANGED <<in, enc>>
    BY OtherEnd DEF EarlyMessage, TypeOK
  <1>2. Below(Tail(wire[e]), enc[Other(e)])
    BY <1>1, EndFacts, Sizes, BelowFacts DEF FrameInv
  <1> QED BY <1>1, <1>2, EndFacts DEF FrameInv

LEMMA OnMessageFrame ==
  ASSUME NEW e \in End, TypeOK, ShakeInv, FrameInv, OnMessage(e)
  PROVE  FrameInv'
  <1>1. /\ wire[e] # <<>> /\ wire'[e] = Tail(wire[e]) /\ wire'[Other(e)] = wire[Other(e)]
        /\ in'[e] \in {in[e], Append(in[e], Head(wire[e]))} /\ in'[Other(e)] = in[Other(e)]
        /\ UNCHANGED enc
    <2>1. /\ wire[e] # <<>> /\ UNCHANGED enc
          /\ wire'[e] = Tail(wire[e]) /\ wire'[Other(e)] = wire[Other(e)]
      BY OtherEnd DEF OnMessage, TypeOK
    <2>2. in' = in \/ in' = [in EXCEPT ![e] = Append(@, Head(wire[e]))]
      BY DEF OnMessage
    <2>3. in'[e] \in {in[e], Append(in[e], Head(wire[e]))} /\ in'[Other(e)] = in[Other(e)]
      BY <2>2, OtherEnd DEF TypeOK
    <2> QED BY <2>1, <2>3
  <1>2. Head(wire[e]) \in Frame /\ Head(wire[e]) < enc[Other(e)]
        /\ Below(Tail(wire[e]), enc[Other(e)])
    BY <1>1, EndFacts, Sizes, TailFacts, BelowFacts DEF FrameInv
  <1>3. Below(in'[e], enc[Other(e)])
    <2>1. Below(in[e], enc[Other(e)]) /\ in[e] \in Seq(Frame) /\ enc[Other(e)] \in Nat
      BY EndFacts, Sizes DEF FrameInv
    <2> QED BY <1>1, <1>2, <2>1, BelowAppend
  <1> QED BY <1>1, <1>2, <1>3, EndFacts DEF FrameInv

LEMMA LinkFailsFrame ==
  ASSUME TypeOK, FrameInv, LinkFails
  PROVE  FrameInv'
  <1>1. /\ UNCHANGED <<in, enc>>
        /\ \A e \in End : wire'[e] = <<>>
    BY DEF LinkFails
  <1> QED BY <1>1, EmptyFacts DEF FrameInv

LEMMA ShakeStep ==
  TypeOK /\ ShakeInv /\ FrameInv /\ [Next]_vars => ShakeInv' /\ FrameInv'
  <1> SUFFICES ASSUME TypeOK, ShakeInv, FrameInv, [Next]_vars PROVE ShakeInv' /\ FrameInv'
    OBVIOUS
  <1>1. CASE UNCHANGED vars
    BY <1>1 DEF vars, ShakeInv, OrderInv, LocalInv, FrameInv, Trusted
  <1>2. CASE LinkFails
    BY <1>2, LinkFailsShake, LinkFailsFrame
  <1>3. ASSUME NEW e \in End,
               \/ Open(e) \/ DeadlineFires(e) \/ HandshakeFails(e) \/ WriteFails(e)
               \/ ReadFails(e) \/ Close(e) \/ OnClose(e)
        PROVE  ShakeInv' /\ FrameInv'
    <2>1. UNCHANGED <<in, wire, enc>>
      BY <1>3 DEF Open, DeadlineFires, HandshakeFails, WriteFails, ReadFails, Close, OnClose
    <2> QED BY <1>3, <2>1, SameFrames, OpenShake, DeadlineFiresShake, HandshakeFailsShake,
               WriteFailsShake, ReadFailsShake, CloseShake, OnCloseShake
  <1>4. ASSUME NEW e \in End,
               \/ SendHello(e) \/ ReadHello(e) \/ Encrypt(e) \/ SendFrame(e) \/ Read(e)
               \/ EarlyMessage(e) \/ OnMessage(e)
        PROVE  ShakeInv' /\ FrameInv'
    BY <1>4, SendHelloShake, ReadHelloShake, EncryptShake, SendFrameShake, ReadShake,
       EarlyMessageShake, OnMessageShake, SendHelloFrame, ReadHelloFrame, EncryptFrame,
       SendFrameFrame, ReadFrame, EarlyMessageFrame, OnMessageFrame
  <1> QED BY <1>1, <1>2, <1>3, <1>4 DEF Next, Handshake, Writer, Reader, ReadLoop

\* What Flow(e) looks at is unchanged at e, and the other end is not up, or is up
\* as before.
LEMMA SameFlow ==
  ASSUME NEW e \in End, Flow(e),
         ctx'[e] = ctx[e], in'[e] = in[e], wire'[e] = wire[e], dec'[e] = dec[e],
         loop'[e] = loop[e], UNCHANGED link, enc'[Other(e)] = enc[Other(e)],
         sending'[Other(e)] = sending[Other(e)],
         hs'[Other(e)] = "up" => hs[Other(e)] = "up"
  PROVE  Flow(e)'
  BY DEF Flow, Count

LEMMA ClosedFlow ==
  ASSUME NEW e \in End, ctx'[e] = "closed"
  PROVE  Flow(e)'
  BY DEF Flow

LEMMA OpenFlow ==
  ASSUME NEW e \in End, TypeOK, ShakeInv, FrameInv, FlowInv, Open(e)
  PROVE  FlowInv'
  <1>1. \A d \in End : hs'[d] = "up" => hs[d] = "up"
    BY DEF Open, TypeOK
  <1> QED BY <1>1, EndFacts, SameFlow DEF FlowInv, Open

LEMMA DeadlineFiresFlow ==
  ASSUME NEW e \in End, TypeOK, ShakeInv, FrameInv, FlowInv, DeadlineFires(e)
  PROVE  FlowInv'
  <1> QED BY EndFacts, SameFlow DEF FlowInv, DeadlineFires

LEMMA SendHelloFlow ==
  ASSUME NEW e \in End, TypeOK, ShakeInv, FrameInv, FlowInv, SendHello(e)
  PROVE  FlowInv'
  <1>1. Flow(e)'
    <2>1. UNCHANGED <<ctx, in, dec, loop, link, sending>> /\ enc'[Other(e)] = enc[Other(e)]
      BY OtherEnd DEF SendHello, TypeOK
    <2>2. wire'[e] = wire[e]
      BY OtherEnd DEF SendHello, Send, TypeOK
    <2>3. hs'[Other(e)] = hs[Other(e)]
      BY OtherEnd DEF SendHello, Up, TypeOK
    <2> QED BY <2>1, <2>2, <2>3, SameFlow DEF FlowInv
  <1>2. Flow(Other(e))'
    <2>0. PICK o \in End : o = Other(e) /\ Other(o) = e /\ o # e
      BY EndFacts
    <2> SUFFICES Flow(o)'
      BY <2>0
    <2> SUFFICES ASSUME ctx[o] = "open" PROVE Flow(o)'
      BY <2>0 DEF Flow, SendHello
    <2>1. enc[e] = 0 /\ sending[e] = {} /\ o \in End /\ Other(o) = e
      BY <2>0, EndFacts DEF SendHello, ShakeInv, OrderInv, LocalInv, Shaking
    <2>2. dec[o] = 0 /\ Len(in[o]) = 0 /\ Len(wire[o]) = 0
      <3>1. Count(o) <= 0 /\ dec[o] \in Nat /\ Len(in[o]) \in Nat /\ Len(wire[o]) \in Nat
        BY <2>0, <2>1, Sizes DEF FlowInv, Flow
      <3> QED BY <2>0, <3>1 DEF Count
    <2>3. /\ UNCHANGED <<ctx, in, dec, loop, link, sending>> /\ enc'[e] = 1
          /\ wire'[o] = IF link = "up" /\ loop[o] = "running" THEN Append(wire[o], 0) ELSE wire[o]
      BY <2>0, <2>1, EndFacts DEF SendHello, Send, TypeOK
    <2>4. 0 \in Frame /\ wire[o] \in Seq(Frame) /\ Run(in[o], 0) /\ Run(wire[o], 0)
      BY <2>0, <2>1, <2>2, Sizes, MaxFramesAssumption DEF Frame, FlowInv, Flow
    <2>5. Run(Append(wire[o], 0), 0) /\ Len(Append(wire[o], 0)) = 1
      BY <2>0, <2>2, <2>4, AppendFacts, RunFacts
    <2> QED BY <2>0, <2>1, <2>2, <2>3, <2>4, <2>5 DEF Flow, Count
  <1> QED BY <1>1, <1>2, EndFacts DEF FlowInv

LEMMA ReadHelloFlow ==
  ASSUME NEW e \in End, TypeOK, ShakeInv, FrameInv, FlowInv, ReadHello(e)
  PROVE  FlowInv'
  <1>1. Flow(e)'
    <2> SUFFICES ASSUME ctx[e] = "open" PROVE Flow(e)'
      BY DEF Flow, ReadHello
    <2>1. /\ UNCHANGED <<ctx, wire, loop, link, sending, enc>> /\ hs'[Other(e)] = hs[Other(e)]
          /\ in[e] # <<>> /\ in'[e] = Tail(in[e]) /\ dec'[e] = 1
      BY OtherEnd DEF ReadHello, Up, TypeOK
    <2>2. dec[e] = 0
      BY DEF ReadHello, ShakeInv, LocalInv
    <2>3. Run(in[e], 0) /\ Run(wire[e], Len(in[e])) /\ Flow(e)
      BY <2>2, Sizes DEF FlowInv, Flow
    <2>4. Run(Tail(in[e]), 1) /\ Len(Tail(in[e])) = Len(in[e]) - 1
      BY <2>1, <2>3, Sizes, RunFacts, TailFacts
    <2>5. Len(in'[e]) = Len(in[e]) - 1 /\ Run(in'[e], 1)
      BY <2>1, <2>4
    <2>6. 1 + (Len(in[e]) - 1) = 0 + Len(in[e])
      BY Sizes
    <2>7. dec'[e] + Len(in'[e]) = dec[e] + Len(in[e])
      BY <2>1, <2>2, <2>5, <2>6
    <2> QED BY <2>1, <2>3, <2>5, <2>7 DEF Flow, Count
  <1>2. Flow(Other(e))'
    <2>0. PICK o \in End : o = Other(e) /\ Other(o) = e /\ o # e
      BY EndFacts
    <2> SUFFICES Flow(o)'
      BY <2>0
    <2>1. o \in End /\ Other(o) = e /\ Flow(o)
      BY <2>0, EndFacts DEF FlowInv
    <2>2. /\ UNCHANGED <<ctx, wire, loop, link, sending, enc>>
          /\ in'[o] = in[o] /\ dec'[o] = dec[o]
      BY <2>0, EndFacts DEF ReadHello, TypeOK
    <2>3. CASE e = "owner"
      <3>1. hs'[e] # "up"
        BY <2>0, <2>3 DEF ReadHello, TypeOK
      <3> QED BY <2>0, <2>1, <2>2, <3>1, SameFlow
    <2>4. CASE e = "viewer"
      <3>1. sending[e] = {} /\ enc[e] <= 1
        BY <2>0, Sizes DEF ReadHello, ShakeInv, LocalInv, Shaking
      <3>2. dec[o] >= 1
        <4>1. Below(in[e], enc[o]) /\ in[e] \in Seq(Frame) /\ in[e] # <<>>
          BY <2>0, Sizes DEF FrameInv, ReadHello
        <4>2. enc[o] \in Nat /\ Head(in[e]) \in Nat
          BY <2>0, <4>1, Sizes, TailFacts, MaxFramesAssumption DEF Frame
        <4>3. Head(in[e]) < enc[o]
          BY <2>0, <4>1, <4>2, BelowFacts
        <4>4. enc["owner"] >= 1
          BY <2>0, <2>4, <4>2, <4>3, EndFacts
        <4> QED BY <2>0, <2>4, <4>4, EndFacts DEF ShakeInv, OrderInv
      <3>3. /\ dec[o] \in Nat /\ Len(in[o]) \in Nat /\ Len(wire[o]) \in Nat /\ enc[e] \in Nat
        BY <2>0, <2>1, Sizes
      <3>4. ctx[o] = "open" => Count(o) = enc[e]
        BY <2>0, <2>1, <3>1, <3>2, <3>3 DEF Flow, Count
      <3> QED BY <2>0, <2>1, <2>2, <3>1, <3>4 DEF Flow, Count
    <2> QED BY <2>0, <2>3, <2>4, EndFacts
  <1> QED BY <1>1, <1>2, EndFacts DEF FlowInv

LEMMA HandshakeFailsFlow ==
  ASSUME NEW e \in End, TypeOK, ShakeInv, FrameInv, FlowInv, HandshakeFails(e)
  PROVE  FlowInv'
  <1>1. /\ UNCHANGED <<in, wire, dec, loop, link, enc, sending>>
        /\ ctx'[e] = "closed" /\ ctx'[Other(e)] = ctx[Other(e)]
        /\ hs'[e] = "failed" /\ hs'[Other(e)] = hs[Other(e)]
    BY OtherEnd DEF HandshakeFails, TypeOK
  <1> QED BY <1>1, EndFacts, ClosedFlow, SameFlow DEF FlowInv

LEMMA EncryptFlow ==
  ASSUME NEW e \in End, TypeOK, ShakeInv, FrameInv, FlowInv, Encrypt(e)
  PROVE  FlowInv'
  <1>1. /\ UNCHANGED <<hs, ctx, in, wire, dec, loop, link>>
        /\ sending[e] = {} /\ sending'[e] = {enc[e]} /\ enc'[e] = enc[e] + 1
        /\ sending'[Other(e)] = sending[Other(e)] /\ enc'[Other(e)] = enc[Other(e)]
    <2>1. UNCHANGED <<hs, ctx, in, wire, dec, loop, link>> /\ sending[e] = {}
      BY DEF Encrypt
    <2>2. sending'[e] = {enc[e]} /\ sending'[Other(e)] = sending[Other(e)]
      BY OtherEnd DEF Encrypt, TypeOK
    <2>3. enc'[e] = enc[e] + 1 /\ enc'[Other(e)] = enc[Other(e)]
      BY OtherEnd DEF Encrypt, TypeOK
    <2> QED BY <2>1, <2>2, <2>3
  <1>2. Flow(e)'
    BY <1>1, SameFlow DEF FlowInv
  <1>3. Flow(Other(e))'
    <2>0. PICK o \in End : o = Other(e) /\ Other(o) = e /\ o # e
      BY EndFacts
    <2> SUFFICES Flow(o)'
      BY <2>0
    <2>1. o \in End /\ Other(o) = e /\ Flow(o)
      BY <2>0, EndFacts DEF FlowInv
    <2>2. /\ dec[o] \in Nat /\ Len(in[o]) \in Nat /\ Len(wire[o]) \in Nat /\ enc[e] \in Nat
      BY <2>0, <2>1, Sizes
    <2>3. Count(o) \in Nat /\ Count(o)' = Count(o)
      BY <2>0, <1>1, <2>2 DEF Count
    <2>4. /\ Count(o) <= enc[e] => Count(o) <= enc[e] + 1
          /\ Count(o) = enc[e] => Count(o) = (enc[e] + 1) - 1
      BY <2>0, <2>2, <2>3
    <2>5. {enc[e]} # {}
      OBVIOUS
    <2> QED BY <2>0, <1>1, <2>1, <2>3, <2>4, <2>5 DEF Flow
  <1> QED BY <1>2, <1>3, EndFacts DEF FlowInv

LEMMA SendFrameFlow ==
  ASSUME NEW e \in End, TypeOK, ShakeInv, FrameInv, FlowInv, SendFrame(e)
  PROVE  FlowInv'
  <1>1. PICK f \in sending[e] : Send(e, f) /\ sending' = [sending EXCEPT ![e] = @ \ {f}]
    BY DEF SendFrame
  <1>2. /\ UNCHANGED <<hs, ctx, in, dec, enc, loop, link>> /\ wire'[e] = wire[e]
        /\ sending'[e] = sending[e] \ {f} /\ sending'[Other(e)] = sending[Other(e)]
        /\ wire'[Other(e)] = IF link = "up" /\ loop[Other(e)] = "running"
                             THEN Append(wire[Other(e)], f) ELSE wire[Other(e)]
    <2>1. UNCHANGED <<hs, ctx, in, dec, enc, loop, link>>
      BY DEF SendFrame
    <2>2. sending'[e] = sending[e] \ {f} /\ sending'[Other(e)] = sending[Other(e)]
      BY <1>1, OtherEnd DEF TypeOK
    <2>3. /\ wire'[e] = wire[e]
          /\ wire'[Other(e)] = IF link = "up" /\ loop[Other(e)] = "running"
                               THEN Append(wire[Other(e)], f) ELSE wire[Other(e)]
      BY <1>1, OtherEnd DEF Send, TypeOK
    <2> QED BY <2>1, <2>2, <2>3
  <1>3. f \in Frame /\ f = enc[e] - 1 /\ sending[e] = {f} /\ hs[e] = "up"
    BY DEF SendFrame, TypeOK, ShakeInv, LocalInv
  <1>4. Flow(e)'
    BY <1>2, SameFlow DEF FlowInv
  <1>5. Flow(Other(e))'
    <2>0. PICK o \in End : o = Other(e) /\ Other(o) = e /\ o # e
      BY EndFacts
    <2> SUFFICES Flow(o)'
      BY <2>0
    <2> SUFFICES ASSUME ctx[o] = "open" PROVE Flow(o)'
      BY <2>0, <1>2 DEF Flow
    <2>1. o \in End /\ Other(o) = e /\ Flow(o)
      BY <2>0, EndFacts DEF FlowInv
    <2>2. /\ dec[o] \in Nat /\ Len(in[o]) \in Nat /\ Len(wire[o]) \in Nat /\ enc[e] \in Nat
          /\ wire[o] \in Seq(Frame)
      BY <2>0, <2>1, Sizes
    <2>3. Run(in[o], dec[o]) /\ Run(wire[o], dec[o] + Len(in[o])) /\ Count(o) <= enc[e]
      BY <2>0, <2>1 DEF Flow
    <2>4. sending'[e] = {}
      BY <2>0, <1>2, <1>3
    <2>5. CASE link = "up" /\ loop[o] = "running"
      <3>1. Count(o) = f
        BY <2>0, <1>3, <2>1, <2>5 DEF Flow
      <3>2. Run(Append(wire[o], f), dec[o] + Len(in[o])) /\ Len(Append(wire[o], f)) = Len(wire[o]) + 1
        <4>1. f = (dec[o] + Len(in[o])) + Len(wire[o]) /\ dec[o] + Len(in[o]) \in Nat
          BY <2>2, <3>1 DEF Count
        <4>2. Run(Append(wire[o], f), dec[o] + Len(in[o]))
          BY <1>3, <2>2, <2>3, <4>1, RunFacts
        <4>3. Len(Append(wire[o], f)) = Len(wire[o]) + 1
          BY <1>3, <2>2, AppendFacts
        <4> QED BY <4>2, <4>3
      <3>3. Count(o)' = enc[e]
        <4>1. Count(o)' = dec[o] + Len(in[o]) + (Len(wire[o]) + 1)
          BY <2>0, <1>2, <2>5, <3>2 DEF Count
        <4>2. dec[o] + Len(in[o]) + Len(wire[o]) = enc[e] - 1
          BY <1>3, <3>1 DEF Count
        <4>3. dec[o] + Len(in[o]) + (Len(wire[o]) + 1) = (dec[o] + Len(in[o]) + Len(wire[o])) + 1
          <5>1. \A a, b, c \in Nat : a + b + (c + 1) = (a + b + c) + 1
            OBVIOUS
          <5>2. dec[o] \in Nat /\ Len(in[o]) \in Nat /\ Len(wire[o]) \in Nat
            BY <2>2
          <5> QED BY <5>1, <5>2
        <4>4. (enc[e] - 1) + 1 = enc[e]
          BY <2>2
        <4> QED BY <4>1, <4>2, <4>3, <4>4
      <3>4. enc[e] <= enc[e]
        BY <2>0, <2>2
      <3> QED BY <2>0, <1>2, <2>1, <2>3, <2>4, <2>5, <3>2, <3>3, <3>4 DEF Flow
    <2>6. CASE ~(link = "up" /\ loop[o] = "running")
      <3>1. wire'[o] = wire[o]
        BY <2>0, <1>2, <2>6
      <3> QED BY <2>0, <1>2, <2>1, <2>3, <2>6, <3>1 DEF Flow, Count
    <2> QED BY <2>0, <2>5, <2>6
  <1> QED BY <1>4, <1>5, EndFacts DEF FlowInv

LEMMA WriteFailsFlow ==
  ASSUME NEW e \in End, TypeOK, ShakeInv, FrameInv, FlowInv, WriteFails(e)
  PROVE  FlowInv'
  <1>1. /\ UNCHANGED <<in, wire, dec, loop, link, enc>>
        /\ ctx'[e] = "closed" /\ ctx'[Other(e)] = ctx[Other(e)]
        /\ hs'[e] = "over" /\ hs'[Other(e)] = hs[Other(e)]
        /\ sending'[Other(e)] = sending[Other(e)]
    <2>1. UNCHANGED <<in, wire, dec, loop, link, enc>>
      BY DEF WriteFails
    <2>2. sending'[Other(e)] = sending[Other(e)]
      BY OtherEnd DEF WriteFails, TypeOK
    <2>3. /\ ctx'[e] = "closed" /\ ctx'[Other(e)] = ctx[Other(e)]
          /\ hs'[e] = "over" /\ hs'[Other(e)] = hs[Other(e)]
      BY OtherEnd DEF WriteFails, GiveUp, TypeOK
    <2> QED BY <2>1, <2>2, <2>3
  <1>2. Flow(Other(e))'
    BY <1>1, EndFacts DEF FlowInv, Flow, Count
  <1> QED BY <1>1, <1>2, EndFacts, ClosedFlow DEF FlowInv

LEMMA ReadFlow ==
  ASSUME NEW e \in End, TypeOK, ShakeInv, FrameInv, FlowInv, Read(e)
  PROVE  FlowInv'
  <1>1. /\ UNCHANGED <<hs, ctx, wire, loop, link, sending, enc>>
        /\ in[e] # <<>> /\ in'[e] = Tail(in[e]) /\ dec'[e] = dec[e] + 1
        /\ in'[Other(e)] = in[Other(e)] /\ dec'[Other(e)] = dec[Other(e)]
    <2>1. UNCHANGED <<hs, ctx, wire, loop, link, sending, enc>> /\ in[e] # <<>>
      BY DEF Read
    <2>2. in'[e] = Tail(in[e]) /\ in'[Other(e)] = in[Other(e)]
      BY OtherEnd DEF Read, TypeOK
    <2>3. dec'[e] = dec[e] + 1 /\ dec'[Other(e)] = dec[Other(e)]
      BY OtherEnd DEF Read, TypeOK
    <2> QED BY <2>1, <2>2, <2>3
  <1>2. Flow(e)'
    <2> SUFFICES ASSUME ctx[e] = "open" PROVE Flow(e)'
      BY <1>1 DEF Flow
    <2>1. Run(in[e], dec[e]) /\ Flow(e)
      BY DEF FlowInv, Flow
    <2>2. Run(Tail(in[e]), dec[e] + 1) /\ Len(Tail(in[e])) = Len(in[e]) - 1
      BY <1>1, <2>1, Sizes, RunFacts, TailFacts
    <2>3. (dec[e] + 1) + (Len(in[e]) - 1) = dec[e] + Len(in[e])
      BY Sizes
    <2>4. dec'[e] + Len(in'[e]) = dec[e] + Len(in[e]) /\ Run(in'[e], dec'[e])
      BY <1>1, <2>2, <2>3
    <2> QED BY <1>1, <2>1, <2>4 DEF Flow, Count
  <1>3. Flow(Other(e))'
    BY <1>1, EndFacts, SameFlow DEF FlowInv
  <1> QED BY <1>2, <1>3, EndFacts DEF FlowInv

LEMMA ReadFailsFlow ==
  ASSUME NEW e \in End, TypeOK, ShakeInv, FrameInv, FlowInv, ReadFails(e)
  PROVE  FlowInv'
  <1>1. /\ UNCHANGED <<in, wire, dec, loop, link, enc, sending>>
        /\ ctx'[e] = "closed" /\ ctx'[Other(e)] = ctx[Other(e)]
        /\ hs'[e] = "over" /\ hs'[Other(e)] = hs[Other(e)]
    BY OtherEnd DEF ReadFails, GiveUp, TypeOK
  <1> QED BY <1>1, EndFacts, ClosedFlow, SameFlow DEF FlowInv

LEMMA CloseFlow ==
  ASSUME NEW e \in End, TypeOK, ShakeInv, FrameInv, FlowInv, Close(e)
  PROVE  FlowInv'
  <1>1. /\ UNCHANGED <<in, wire, dec, loop, link, enc, sending, hs>>
        /\ ctx'[e] = "closed" /\ ctx'[Other(e)] = ctx[Other(e)]
    BY OtherEnd DEF Close, TypeOK
  <1> QED BY <1>1, EndFacts, ClosedFlow, SameFlow DEF FlowInv

LEMMA EarlyMessageFlow ==
  ASSUME NEW e \in End, TypeOK, ShakeInv, FrameInv, FlowInv, EarlyMessage(e)
  PROVE  FlowInv'
  <1>1. /\ UNCHANGED <<hs, ctx, in, dec, loop, link, sending, enc>> /\ hs[e] = "none"
        /\ wire[e] # <<>> /\ wire'[e] = Tail(wire[e]) /\ wire'[Other(e)] = wire[Other(e)]
    BY OtherEnd DEF EarlyMessage, TypeOK
  <1>2. e = "owner"
    <2> SUFFICES ASSUME e = "viewer" PROVE FALSE
      BY EndFacts
    <2>1. enc["owner"] = 0
      BY <1>1, Sizes, EndFacts DEF ShakeInv, OrderInv
    <2>2. Below(wire[e], 0) /\ wire[e] \in Seq(Frame)
      BY <2>1, Sizes, EndFacts DEF FrameInv
    <2>3. Head(wire[e]) < 0 /\ Head(wire[e]) \in Nat
      BY <1>1, <2>2, BelowFacts, TailFacts, MaxFramesAssumption DEF Frame
    <2> QED BY <2>3
  <1>3. hs["viewer"] \notin {"up", "over"} /\ enc["viewer"] <= 1
    BY <1>1, <1>2, Sizes, EndFacts DEF ShakeInv, OrderInv, LocalInv
  <1>4. Flow(e)'
    <2> SUFFICES ASSUME ctx[e] = "open" PROVE Flow(e)'
      BY <1>1 DEF Flow
    <2>1. dec[e] = 0 /\ in[e] = <<>>
      BY <1>1 DEF ShakeInv, LocalInv
    <2>2. Flow(e) /\ Len(wire[e]) <= enc["viewer"] /\ enc["viewer"] \in Nat
      <3>1. Flow(e) /\ enc["viewer"] \in Nat /\ Other(e) = "viewer" /\ Len(in[e]) = 0
        BY <1>2, <2>1, Sizes, EndFacts, EmptyFacts DEF FlowInv
      <3>2. Count(e) <= enc["viewer"]
        BY <3>1 DEF Flow
      <3>3. Count(e) = Len(wire[e])
        BY <2>1, <3>1, Sizes DEF Count
      <3> QED BY <3>1, <3>2, <3>3
    <2>3. Len(wire'[e]) = 0
      <3>1. Len(Tail(wire[e])) = Len(wire[e]) - 1 /\ Len(wire[e]) \in Nat \ {0}
        BY <1>1, Sizes, TailFacts
      <3>2. Len(wire[e]) <= enc["viewer"] /\ enc["viewer"] <= 1 /\ enc["viewer"] \in Nat
        BY <1>3, <2>2
      <3>3. Len(wire[e]) = 1
        <4>1. \A a \in Nat \ {0}, b \in Nat : a <= b /\ b <= 1 => a = 1
          OBVIOUS
        <4>2. Len(wire[e]) \in Nat \ {0}
          BY <3>1
        <4> QED BY <3>2, <4>1, <4>2
      <3> QED BY <1>1, <3>1, <3>3
    <2>4. Run(wire'[e], dec[e] + Len(in[e])) /\ Run(in[e], dec[e])
      BY <2>3, <2>2 DEF Run, Flow
    <2>5. Count(e)' = 0
      BY <1>1, <2>1, <2>3, EmptyFacts DEF Count
    <2> QED BY <1>1, <1>2, <1>3, <2>2, <2>4, <2>5, EndFacts DEF Flow
  <1>5. Flow(Other(e))'
    BY <1>1, EndFacts, SameFlow DEF FlowInv
  <1> QED BY <1>4, <1>5, EndFacts DEF FlowInv

LEMMA OnMessageFlow ==
  ASSUME NEW e \in End, TypeOK, ShakeInv, FrameInv, FlowInv, OnMessage(e)
  PROVE  FlowInv'
  <1>1. /\ UNCHANGED <<hs, ctx, dec, loop, link, sending, enc>>
        /\ wire[e] # <<>> /\ wire'[e] = Tail(wire[e]) /\ wire'[Other(e)] = wire[Other(e)]
        /\ ctx[e] = "open" => in'[e] = Append(in[e], Head(wire[e]))
        /\ in'[Other(e)] = in[Other(e)]
    <2>1. /\ UNCHANGED <<hs, ctx, dec, loop, link, sending, enc>>
          /\ wire[e] # <<>> /\ wire'[e] = Tail(wire[e]) /\ wire'[Other(e)] = wire[Other(e)]
      BY OtherEnd DEF OnMessage, TypeOK
    <2>2. \/ in' = [in EXCEPT ![e] = Append(@, Head(wire[e]))]
          \/ ctx[e] = "closed" /\ in' = in
      BY DEF OnMessage
    <2>3. /\ ctx[e] = "open" => in'[e] = Append(in[e], Head(wire[e]))
          /\ in'[Other(e)] = in[Other(e)]
      BY <2>2, OtherEnd DEF TypeOK
    <2> QED BY <2>1, <2>3
  <1>2. Flow(e)'
    <2> SUFFICES ASSUME ctx[e] = "open" PROVE Flow(e)'
      BY <1>1 DEF Flow
    <2>1. Run(in[e], dec[e]) /\ Run(wire[e], dec[e] + Len(in[e])) /\ Flow(e)
      BY DEF FlowInv, Flow
    <2>2. /\ Head(wire[e]) = dec[e] + Len(in[e]) /\ Head(wire[e]) \in Frame
          /\ Run(Tail(wire[e]), (dec[e] + Len(in[e])) + 1)
          /\ Len(Tail(wire[e])) = Len(wire[e]) - 1
      BY <1>1, <2>1, Sizes, RunFacts, TailFacts
    <2>3. Run(in'[e], dec[e]) /\ Len(in'[e]) = Len(in[e]) + 1
      <3>1. in'[e] = Append(in[e], Head(wire[e]))
        BY <1>1
      <3>2. in[e] \in Seq(Frame) /\ dec[e] \in Nat
        BY Sizes
      <3>3. Run(Append(in[e], Head(wire[e])), dec[e])
        BY <2>1, <2>2, <3>2, RunFacts
      <3>4. Len(Append(in[e], Head(wire[e]))) = Len(in[e]) + 1
        BY <2>2, <3>2, AppendFacts
      <3> QED BY <3>1, <3>3, <3>4
    <2>4. /\ dec[e] + (Len(in[e]) + 1) = (dec[e] + Len(in[e])) + 1
          /\ dec[e] + (Len(in[e]) + 1) + (Len(wire[e]) - 1) = dec[e] + Len(in[e]) + Len(wire[e])
      <3>1. dec[e] \in Nat /\ Len(in[e]) \in Nat /\ Len(wire[e]) \in Nat
        BY Sizes
      <3>2. \A a, b, c \in Nat : /\ a + (b + 1) = (a + b) + 1
                                /\ a + (b + 1) + (c - 1) = a + b + c
        OBVIOUS
      <3> QED BY <3>1, <3>2
    <2>5. Run(wire'[e], dec'[e] + Len(in'[e])) /\ Count(e)' = Count(e)
      BY <1>1, <2>2, <2>3, <2>4 DEF Count
    <2> QED BY <1>1, <2>1, <2>3, <2>5 DEF Flow
  <1>3. Flow(Other(e))'
    BY <1>1, EndFacts, SameFlow DEF FlowInv
  <1> QED BY <1>2, <1>3, EndFacts DEF FlowInv

LEMMA OnCloseFlow ==
  ASSUME NEW e \in End, TypeOK, ShakeInv, FrameInv, FlowInv, OnClose(e)
  PROVE  FlowInv'
  <1>1. /\ UNCHANGED <<hs, in, wire, dec, link, enc, sending>>
        /\ loop'[e] = "ended" /\ loop'[Other(e)] = loop[Other(e)]
        /\ ctx'[e] \in {ctx[e], "closed"} /\ ctx'[Other(e)] = ctx[Other(e)]
    BY OtherEnd DEF OnClose, TypeOK
  <1>2. Flow(e)'
    BY <1>1 DEF FlowInv, Flow, Count
  <1>3. Flow(Other(e))'
    BY <1>1, EndFacts, SameFlow DEF FlowInv
  <1> QED BY <1>2, <1>3, EndFacts DEF FlowInv

LEMMA LinkFailsFlow ==
  ASSUME TypeOK, FlowInv, LinkFails
  PROVE  FlowInv'
  <1> SUFFICES ASSUME NEW e \in End PROVE Flow(e)'
    BY DEF FlowInv
  <1>1. /\ UNCHANGED <<hs, ctx, in, dec, loop, enc, sending>>
        /\ wire'[e] = <<>> /\ link' = "down"
    BY DEF LinkFails
  <1>2. Count(e)' <= Count(e) /\ Count(e)' \in Nat /\ Count(e) \in Nat
    BY <1>1, Sizes, EmptyFacts DEF Count
  <1>3. ctx[e] = "open" => Count(e)' <= enc[Other(e)]
    BY <1>2, Sizes DEF FlowInv, Flow
  <1> QED BY <1>1, <1>3, EmptyFacts DEF FlowInv, Flow

LEMMA InvInit == Init => Inv
  <1> SUFFICES ASSUME Init PROVE Inv
    OBVIOUS
  <1>1. TypeOK
    BY TypeInit
  <1>2. ShakeInv
    BY EndFacts DEF Init, ShakeInv, OrderInv, LocalInv, Shaking
  <1>3. FrameInv
    BY EndFacts, EmptyFacts DEF Init, FrameInv
  <1>4. \A e \in End : Count(e) = 0
    BY EmptyFacts DEF Init, Count
  <1>5. FlowInv
    BY <1>4, EndFacts, EmptyFacts DEF Init, FlowInv, Flow
  <1> QED BY <1>1, <1>2, <1>3, <1>5 DEF Inv

LEMMA InvStep == Inv /\ [Next]_vars => Inv'
  <1> SUFFICES ASSUME Inv, [Next]_vars PROVE Inv'
    OBVIOUS
  <1> USE DEF Inv
  <1>1. TypeOK' /\ ShakeInv' /\ FrameInv'
    BY TypeStep, ShakeStep
  <1>2. FlowInv'
    <2>1. CASE UNCHANGED vars
      BY <2>1 DEF vars, FlowInv, Flow, Count
    <2>2. CASE LinkFails
      BY <2>2, LinkFailsFlow
    <2>3. ASSUME NEW e \in End,
                 \/ Open(e) \/ DeadlineFires(e) \/ Handshake(e) \/ Encrypt(e)
                 \/ Writer(e) \/ Reader(e) \/ Close(e) \/ ReadLoop(e)
          PROVE  FlowInv'
      BY <2>3, OpenFlow, DeadlineFiresFlow, SendHelloFlow, ReadHelloFlow, HandshakeFailsFlow,
         EncryptFlow, SendFrameFlow, WriteFailsFlow, ReadFlow, ReadFailsFlow, CloseFlow,
         EarlyMessageFlow, OnMessageFlow, OnCloseFlow
      DEF Handshake, Writer, Reader, ReadLoop
    <2> QED BY <2>1, <2>2, <2>3 DEF Next
  <1> QED BY <1>1, <1>2

THEOREM InvCorrect == Spec => []Inv
  BY InvInit, InvStep, PTL DEF Spec

-----------------------------------------------------------------------------
(* What yamux may rely on.                                                 *)

\* No session that is up ends by itself: an open Conn decrypts what it reads, and
\* its deadline is off (doHandshake's deferred SetDeadline, Write's sendMu).
THEOREM NoSpuriousEndCorrect == Spec => NoSpuriousEnd
  <1>1. Inv /\ [Next]_vars =>
          [\A e \in End : hs[e] = "up" /\ hs'[e] = "over" =>
             ctx[e] = "closed" \/ link = "down"]_vars
    <2> SUFFICES ASSUME Inv, Next, NEW e \in End, hs[e] = "up", hs'[e] = "over"
                 PROVE  ctx[e] = "closed" \/ link = "down"
      OBVIOUS
    <2>1. WriteFails(e) \/ ReadFails(e)
      <3>1. ~LinkFails
        BY DEF LinkFails
      <3>2. ASSUME NEW d \in End,
                   \/ Open(d) \/ DeadlineFires(d) \/ Handshake(d) \/ Encrypt(d)
                   \/ SendFrame(d) \/ Read(d) \/ Close(d) \/ ReadLoop(d)
            PROVE  FALSE
        BY <3>2 DEF Inv, TypeOK, Open, DeadlineFires, Handshake, SendHello, ReadHello,
                    HandshakeFails, Up, Encrypt, SendFrame, Read, Close, ReadLoop,
                    EarlyMessage, OnMessage, OnClose
      <3>3. ASSUME NEW d \in End, WriteFails(d) \/ ReadFails(d)
            PROVE  d = e
        BY <3>3 DEF Inv, TypeOK, WriteFails, ReadFails, GiveUp
      <3> QED BY <3>1, <3>2, <3>3 DEF Next, Writer, Reader
    <2>2. deadline[e] # "fired"
      BY DEF Inv, ShakeInv, LocalInv
    <2>3. ctx[e] = "open" /\ in[e] # <<>> => Head(in[e]) = dec[e]
      BY Sizes, RunFacts DEF Inv, FlowInv, Flow
    <2>4. ctx[e] \in {"open", "closed"}
      BY DEF Inv, TypeOK
    <2> QED BY <2>1, <2>2, <2>3, <2>4 DEF WriteFails, ReadFails, Interrupted
  <1> QED BY <1>1, InvCorrect, PTL DEF Spec, NoSpuriousEnd

-----------------------------------------------------------------------------
(* Nobody waits unwatched.                                                 *)

\* A Conn made after the read loop had ended never gets a message, so that its
\* handshake cannot succeed; any other Conn was closed when the loop ended.
Late(e) ==
  /\ hs[e] \in Shaking => deadline[e] # "off"
  /\ hs[e] \in Ended => ctx[e] = "closed"
  /\ loop[e] = "ended" /\ ctx[e] = "open" =>
       in[e] = <<>> /\ wire[e] = <<>> /\ dec[e] = 0 /\ hs[e] # "up"

LateInv == \A e \in End : Late(e)

LEMMA NextLate == Inv /\ LateInv /\ [Next]_vars => LateInv'
  <1> SUFFICES ASSUME Inv, LateInv, [Next]_vars, NEW d \in End PROVE Late(d)'
    BY DEF LateInv
  <1>t. TypeOK /\ ShakeInv
    BY DEF Inv
  <1>d. Late(d)
    BY DEF LateInv
  <1>w. ASSUME NEW e \in End, NEW f, Send(e, f), wire'[d] # wire[d]
        PROVE  loop[d] = "running"
    BY <1>t, <1>w, OtherEnd DEF Send, TypeOK
  <1>1. CASE UNCHANGED vars
    BY <1>1, <1>d DEF vars, Late
  <1>2. CASE LinkFails
    BY <1>2, <1>d DEF LinkFails, Late
  <1>3. ASSUME NEW e \in End, e # d,
               \/ Open(e) \/ DeadlineFires(e) \/ Handshake(e) \/ Encrypt(e)
               \/ Writer(e) \/ Reader(e) \/ Close(e) \/ ReadLoop(e)
        PROVE  Late(d)'
    <2>1. /\ hs'[d] = hs[d] /\ deadline'[d] = deadline[d] /\ ctx'[d] = ctx[d]
          /\ loop'[d] = loop[d] /\ in'[d] = in[d] /\ dec'[d] = dec[d]
      BY <1>t, <1>3 DEF TypeOK, Open, DeadlineFires, Handshake, SendHello, ReadHello, HandshakeFails,
                        Up, Encrypt, Writer, SendFrame, WriteFails, GiveUp, Reader, Read, ReadFails,
                        Close, ReadLoop, EarlyMessage, OnMessage, OnClose
    <2>2. wire'[d] = wire[d] \/ loop[d] = "running"
      <3>1. CASE SendHello(e) \/ SendFrame(e)
        BY <1>w, <3>1 DEF SendHello, SendFrame
      <3>2. CASE ~(SendHello(e) \/ SendFrame(e))
        BY <1>t, <1>3, <3>2 DEF TypeOK, Open, DeadlineFires, Handshake, ReadHello, HandshakeFails,
                                Encrypt, Writer, WriteFails, Reader, Read, ReadFails,
                                Close, ReadLoop, EarlyMessage, OnMessage, OnClose
      <3> QED BY <3>1, <3>2
    <2> QED BY <1>d, <2>1, <2>2 DEF Late
  <1>4. ASSUME Open(d) \/ DeadlineFires(d) \/ Encrypt(d) \/ Close(d) PROVE Late(d)'
    BY <1>t, <1>d, <1>4 DEF Late, TypeOK, Open, DeadlineFires, Encrypt, Close, Shaking, Ended
  <1>5. ASSUME SendHello(d) \/ SendFrame(d) PROVE Late(d)'
    <2>1. wire'[d] = wire[d] \/ loop[d] = "running"
      BY <1>w, <1>5 DEF SendHello, SendFrame
    <2>2. /\ ctx' = ctx /\ loop' = loop /\ in' = in /\ dec' = dec
          /\ hs'[d] \notin Ended /\ (hs'[d] \in Shaking => deadline'[d] = deadline[d])
          /\ hs'[d] \in Shaking => hs[d] \in Shaking
      BY <1>t, <1>5 DEF TypeOK, SendHello, SendFrame, Up, Shaking, Ended
    <2>3. hs'[d] = "up" => hs[d] = "up" \/ dec[d] # 0
      BY <1>t, <1>5, EndFacts DEF TypeOK, SendHello, SendFrame, Up, ShakeInv, OrderInv
    <2> QED BY <1>d, <2>1, <2>2, <2>3 DEF Late
  <1>6. ASSUME ReadHello(d) \/ Read(d) PROVE Late(d)'
    <2>1. /\ in[d] # <<>> /\ ctx' = ctx /\ loop' = loop
          /\ hs'[d] \notin Ended /\ (hs'[d] \in Shaking => deadline'[d] = deadline[d] /\ hs[d] \in Shaking)
      BY <1>t, <1>6 DEF TypeOK, ReadHello, Read, Up, Shaking, Ended
    <2> QED BY <1>d, <2>1 DEF Late
  <1>7. ASSUME HandshakeFails(d) \/ WriteFails(d) \/ ReadFails(d) PROVE Late(d)'
    BY <1>t, <1>7 DEF Late, TypeOK, HandshakeFails, WriteFails, ReadFails, GiveUp, Shaking
  <1>8. ASSUME EarlyMessage(d) \/ OnMessage(d) PROVE Late(d)'
    <2>1. loop'[d] = "running" /\ UNCHANGED <<hs, deadline, ctx>>
      BY <1>8 DEF EarlyMessage, OnMessage
    <2> QED BY <1>d, <2>1 DEF Late
  <1>9. ASSUME OnClose(d) PROVE Late(d)'
    <2>1. UNCHANGED <<hs, deadline, in, wire, dec>> /\ wire[d] = <<>>
      BY <1>9 DEF OnClose
    <2>2. hs[d] # "none" => ctx'[d] = "closed"
      BY <1>t, <1>9 DEF TypeOK, OnClose
    <2>3. hs[d] = "none" => in[d] = <<>> /\ dec[d] = 0
      BY <1>t DEF ShakeInv, LocalInv
    <2> QED BY <1>d, <2>1, <2>2, <2>3 DEF Late, Shaking, Ended
  <1> QED BY <1>1, <1>2, <1>3, <1>4, <1>5, <1>6, <1>7, <1>8, <1>9
          DEF Next, Handshake, Writer, Reader, ReadLoop

LEMMA LateFacts == Inv /\ LateInv => Watched
  BY DEF Inv, TypeOK, LateInv, Late, Watched

\* No half-open session: a handshake ends by its deadline, and an end that is up
\* has a read loop, or a closed Conn, to tell it that the other is over.
THEOREM WatchedCorrect == Spec => []Watched
  <1>1. Init => LateInv
    BY EndFacts DEF Init, LateInv, Late, Shaking, Ended
  <1> QED BY <1>1, InvInit, InvStep, NextLate, LateFacts, PTL DEF Spec

-----------------------------------------------------------------------------
(* SecureChannel implements Pipe.                                          *)

Phases == [e \in End |-> Phase(e)]
SentCounts == [e \in End |-> IF enc[e] = 0 THEN 0 ELSE enc[e] - 1]

LEMMA PipeVars == P!pipe = <<Trusted, Phases, SentCounts, got>>
  BY DEF P!pipe, Phases, SentCounts

LEMMA PipeInit == Init => P!Init
  <1> SUFFICES ASSUME Init PROVE P!Init
    OBVIOUS
  <1>1. Trusted \in BOOLEAN
    BY Zenon DEF Trusted
  <1>2. \A e \in End : Phase(e) = "none"
    BY DEF Init, Phase, Ended
  <1>3. \A e \in End : enc[e] = 0
    BY DEF Init
  <1>4. got = [e \in End |-> <<>>]
    BY DEF Init
  <1> QED BY <1>1, <1>2, <1>3, <1>4 DEF P!Init

\* A step that only one end's handshake or session takes.
LEMMA PhaseStep ==
  ASSUME NEW e \in End, hs'[Other(e)] = hs[Other(e)]
  PROVE  Phases' = [Phases EXCEPT ![e] = Phase(e)']
  <1>1. Phase(Other(e))' = Phase(Other(e))
    BY DEF Phase, Ended
  <1> QED BY <1>1, EndFacts DEF Phases

LEMMA SamePhase ==
  ASSUME NEW e \in End, hs'[Other(e)] = hs[Other(e)], Phase(e)' = Phase(e)
  PROVE  Phases' = Phases
  <1>1. Phase(Other(e))' = Phase(Other(e))
    BY DEF Phase, Ended
  <1> QED BY <1>1, EndFacts DEF Phases

LEMMA SameTrust == ASSUME UNCHANGED pinned PROVE Trusted' = Trusted
  BY DEF Trusted

\* Steps that yamux does not see.
LEMMA HiddenStep ==
  ASSUME UNCHANGED pinned, Phases' = Phases, SentCounts' = SentCounts, UNCHANGED got
  PROVE  UNCHANGED P!pipe
  BY SameTrust, PipeVars DEF P!pipe, Phases, SentCounts

LEMMA StopStep ==
  ASSUME NEW e \in End, TypeOK, HandshakeFails(e) \/ WriteFails(e) \/ ReadFails(e)
  PROVE  P!Stop(e)
  <1>1. UNCHANGED <<pinned, enc, got>> /\ hs'[e] \in Ended /\ hs'[Other(e)] = hs[Other(e)]
    <2>1. UNCHANGED <<pinned, enc, got>>
      BY DEF HandshakeFails, WriteFails, ReadFails
    <2>2. hs' = [hs EXCEPT ![e] = "failed"] \/ hs' = [hs EXCEPT ![e] = "over"]
      BY DEF HandshakeFails, WriteFails, ReadFails, GiveUp
    <2> QED BY <2>1, <2>2, OtherEnd DEF Ended, TypeOK
  <1>2. Phase(e)' = "over"
    BY <1>1 DEF Phase, Ended
  <1>3. Phases' = [Phases EXCEPT ![e] = "over"]
    BY <1>1, <1>2, PhaseStep
  <1> QED BY <1>1, <1>3, SameTrust DEF P!Stop, Phases

LEMMA SendHelloPipe ==
  ASSUME NEW e \in End, Inv, SendHello(e)
  PROVE  P!Establish(e) \/ UNCHANGED P!pipe
  <1>1. /\ UNCHANGED <<pinned, got>> /\ hs'[Other(e)] = hs[Other(e)] /\ hs[e] = "send"
        /\ enc'[Other(e)] = enc[Other(e)] /\ enc'[e] = 1
        /\ hs'[e] = IF e = "owner" THEN "up" ELSE "read"
    BY OtherEnd DEF SendHello, Up, Inv, TypeOK
  <1>2. enc[e] = 0
    BY <1>1, EndFacts DEF Inv, ShakeInv, OrderInv
  <1>3. SentCounts' = SentCounts
    BY <1>1, <1>2, EndFacts DEF SentCounts
  <1>4. Phase(e) = "none"
    BY <1>1 DEF Phase, Ended
  <1>5. CASE e = "owner"
    <2>1. Phase(e)' = "up" /\ Phases[e] = "none"
      BY <1>1, <1>4, <1>5 DEF Phase, Phases, Ended
    <2>2. Phases' = [Phases EXCEPT ![e] = "up"]
      BY <1>1, <2>1, PhaseStep
    <2>3. Trusted /\ Trusted' = Trusted
      BY <1>1, <1>5, SameTrust DEF Inv, ShakeInv, OrderInv
    <2> QED BY <1>1, <1>3, <1>5, <2>1, <2>2, <2>3 DEF P!Establish, Phases, SentCounts
  <1>6. CASE e # "owner"
    <2>1. Phase(e)' = "none"
      BY <1>1, <1>6 DEF Phase, Ended
    <2> QED BY <1>1, <1>3, <1>4, <2>1, SamePhase, HiddenStep
  <1> QED BY <1>5, <1>6

LEMMA ReadHelloPipe ==
  ASSUME NEW e \in End, Inv, ReadHello(e)
  PROVE  P!Establish(e) \/ UNCHANGED P!pipe
  <1>1. /\ UNCHANGED <<pinned, enc, got>> /\ hs'[Other(e)] = hs[Other(e)] /\ hs[e] = "read"
        /\ hs'[e] = IF e = "viewer" THEN "up" ELSE "send"
        /\ in[e] # <<>>
    BY OtherEnd DEF ReadHello, Up, Inv, TypeOK
  <1>2. SentCounts' = SentCounts
    BY <1>1 DEF SentCounts
  <1>3. Phase(e) = "none"
    BY <1>1 DEF Phase, Ended
  <1>4. CASE e = "viewer"
    <2>1. Phase(e)' = "up" /\ Phases[e] = "none"
      BY <1>1, <1>3, <1>4 DEF Phase, Phases, Ended
    <2>2. Phases' = [Phases EXCEPT ![e] = "up"]
      BY <1>1, <2>1, PhaseStep
    <2>3. enc["owner"] >= 1
      <3>1. Below(in[e], enc["owner"]) /\ in[e] \in Seq(Frame) /\ enc["owner"] \in Nat
        BY <1>4, EndFacts, Sizes DEF Inv, FrameInv
      <3>2. Head(in[e]) < enc["owner"] /\ Head(in[e]) \in Nat
        BY <1>1, <3>1, BelowFacts, TailFacts, MaxFramesAssumption DEF Frame
      <3> QED BY <3>1, <3>2
    <2>4. Trusted /\ hs["owner"] \in {"up", "over"}
      BY <2>3 DEF Inv, ShakeInv, OrderInv
    <2>5. Phase("owner") # "none"
      BY <2>4 DEF Phase, Ended
    <2>6. \A r \in End \ {e} : Phases[r] # "none"
      BY <1>4, <2>5, EndFacts DEF Phases, End
    <2>7. Trusted' = Trusted
      BY <1>1, SameTrust
    <2> QED BY <1>1, <1>2, <2>1, <2>2, <2>4, <2>6, <2>7 DEF P!Establish, Phases, SentCounts
  <1>5. CASE e # "viewer"
    <2>1. Phase(e)' = "none"
      BY <1>1, <1>5 DEF Phase, Ended
    <2> QED BY <1>1, <1>2, <1>3, <2>1, SamePhase, HiddenStep
  <1> QED BY <1>4, <1>5

LEMMA EncryptPipe ==
  ASSUME NEW e \in End, Inv, Encrypt(e)
  PROVE  P!Write(e)
  <1>1. /\ UNCHANGED <<pinned, hs, got>> /\ hs[e] = "up"
        /\ enc' = [enc EXCEPT ![e] = @ + 1] /\ enc[e] \in Nat \ {0}
    BY DEF Encrypt, Inv, TypeOK
  <1>2. Phases' = Phases /\ Phases[e] = "up" /\ Trusted' = Trusted
    BY <1>1, SameTrust DEF Phases, Phase, Ended
  <1>3. SentCounts' = [SentCounts EXCEPT ![e] = @ + 1]
    <2>1. enc'[e] = enc[e] + 1 /\ enc'[Other(e)] = enc[Other(e)]
      BY <1>1, EndFacts DEF Inv, TypeOK
    <2>2. SentCounts'[e] = SentCounts[e] + 1 /\ SentCounts'[Other(e)] = SentCounts[Other(e)]
      BY <1>1, <2>1, EndFacts DEF SentCounts
    <2> QED BY <2>2, EndFacts DEF SentCounts
  <1> QED BY <1>1, <1>2, <1>3 DEF P!Write, Phases, SentCounts

LEMMA ReadPipe ==
  ASSUME NEW e \in End, Inv, Read(e)
  PROVE  P!Read(e)
  <1>1. /\ UNCHANGED <<pinned, hs, enc>> /\ hs[e] = "up" /\ in[e] # <<>>
        /\ Head(in[e]) = dec[e] /\ got' = [got EXCEPT ![e] = Append(@, dec[e])]
    BY DEF Read
  <1>2. Phases' = Phases /\ Phases[e] = "up" /\ Trusted' = Trusted /\ SentCounts' = SentCounts
    BY <1>1, SameTrust DEF Phases, Phase, Ended, SentCounts
  <1>3. dec[e] = Len(got[e]) + 1
    BY <1>1 DEF Inv, ShakeInv, LocalInv
  <1>4. Len(got[e]) < SentCounts[Other(e)]
    <2>1. Below(in[e], enc[Other(e)]) /\ in[e] \in Seq(Frame) /\ enc[Other(e)] \in Nat
      BY Sizes DEF Inv, FrameInv
    <2>2. dec[e] < enc[Other(e)]
      BY <1>1, <2>1, BelowFacts
    <2>3. Len(got[e]) \in Nat
      BY LenProperties DEF Inv, TypeOK
    <2>4. SentCounts[Other(e)] = IF enc[Other(e)] = 0 THEN 0 ELSE enc[Other(e)] - 1
      BY EndFacts DEF SentCounts
    <2> QED BY <1>3, <2>1, <2>2, <2>3, <2>4
  <1>5. \E o \in End \ {e} : Len(got[e]) < SentCounts[o]
    BY <1>4, EndFacts
  <1>6. got' = [got EXCEPT ![e] = Append(@, Len(@) + 1)]
    BY <1>1, <1>3
  <1> QED BY <1>1, <1>2, <1>5, <1>6 DEF P!Read, Phases, SentCounts

LEMMA PipeStep == Inv /\ [Next]_vars => [P!Next]_(P!pipe)
  <1> SUFFICES ASSUME Inv, [Next]_vars PROVE P!Next \/ UNCHANGED P!pipe
    OBVIOUS
  <1>0. TypeOK
    BY DEF Inv
  <1>1. CASE UNCHANGED <<pinned, hs, enc, got>>
    <2>1. Phases' = Phases /\ SentCounts' = SentCounts
      BY <1>1 DEF Phases, Phase, SentCounts
    <2> QED BY <1>1, <2>1, HiddenStep
  <1>2. ASSUME NEW e \in End, Open(e)
        PROVE  UNCHANGED P!pipe
    <2>1. UNCHANGED <<pinned, enc, got>> /\ hs'[Other(e)] = hs[Other(e)]
          /\ hs[e] = "none" /\ hs'[e] \in {"send", "read"}
      BY <1>2, EndFacts DEF Open, Inv, TypeOK
    <2>2. Phase(e)' = Phase(e)
      BY <2>1 DEF Phase, Ended
    <2>3. Phases' = Phases /\ SentCounts' = SentCounts
      BY <2>1, <2>2, SamePhase DEF SentCounts
    <2> QED BY <2>1, <2>3, HiddenStep
  <1>3. ASSUME NEW e \in End, Handshake(e) \/ WriteFails(e) \/ ReadFails(e)
        PROVE  P!Next \/ UNCHANGED P!pipe
    BY <1>0, <1>3, SendHelloPipe, ReadHelloPipe, StopStep DEF Handshake, P!Next
  <1>4. ASSUME NEW e \in End, Encrypt(e) \/ Read(e)
        PROVE  P!Next
    BY <1>4, EncryptPipe, ReadPipe DEF P!Next
  <1>5. ASSUME NEW e \in End, DeadlineFires(e) \/ SendFrame(e) \/ Close(e) \/ ReadLoop(e)
        PROVE  UNCHANGED <<pinned, hs, enc, got>>
    BY <1>5 DEF DeadlineFires, SendFrame, Close, ReadLoop, EarlyMessage, OnMessage, OnClose
  <1>6. UNCHANGED vars \/ LinkFails => UNCHANGED <<pinned, hs, enc, got>>
    BY DEF vars, LinkFails
  <1> QED BY <1>1, <1>2, <1>3, <1>4, <1>5, <1>6 DEF Next, Writer, Reader

\* What secure.Client and secure.Server give to yamux is Pipe, whatever the
\* handshakes, the queues and the deadlines do: both pins are right before either
\* end is up, the viewer is up only after the owner, and each end reads what the
\* other wrote, in order and without gaps.
THEOREM PipeCorrect == Spec => ImplementsPipe
  BY PipeInit, PipeStep, InvCorrect, PTL DEF Spec, ImplementsPipe, P!Spec

=============================================================================
