-------------------------------- MODULE Pipe --------------------------------
(***************************************************************************)
(* What a tunnel's two ends get from secure.Client and secure.Server, said *)
(* without handshake, frames, queues or deadlines: an authenticated pipe   *)
(* in either direction.  A chunk is named by its position in what its      *)
(* sender wrote.  SecureChannel implements this specification.             *)
(***************************************************************************)
EXTENDS Naturals, Sequences

CONSTANTS End,        \* the two ends
          Initiator   \* the one that dials

VARIABLES trusted,  \* each end's pinned key is the key the other end holds
          phase,    \* phase[e]: "none" (no Conn yet), "up", "over"
          sent,     \* sent[e]: how many chunks e wrote
          got       \* got[e]: the chunks e read, in the order it read them

pipe == <<trusted, phase, sent, got>>

Init ==
  /\ trusted \in BOOLEAN
  /\ phase = [e \in End |-> "none"]
  /\ sent = [e \in End |-> 0]
  /\ got = [e \in End |-> <<>>]

\* Nobody is up with a stranger, and the initiator only after the responder.
Establish(e) ==
  /\ trusted /\ phase[e] = "none"
  /\ e = Initiator => \A r \in End \ {e} : phase[r] # "none"
  /\ phase' = [phase EXCEPT ![e] = "up"]
  /\ UNCHANGED <<trusted, sent, got>>

Write(e) ==
  /\ phase[e] = "up"
  /\ sent' = [sent EXCEPT ![e] = @ + 1]
  /\ UNCHANGED <<trusted, phase, got>>

\* The next chunk, no other: none is lost, repeated or overtaken on the way to
\* an end that is up.
Read(e) ==
  /\ phase[e] = "up"
  /\ \E o \in End \ {e} : Len(got[e]) < sent[o]
  /\ got' = [got EXCEPT ![e] = Append(@, Len(@) + 1)]
  /\ UNCHANGED <<trusted, phase, sent>>

Stop(e) ==
  /\ phase' = [phase EXCEPT ![e] = "over"]
  /\ UNCHANGED <<trusted, sent, got>>

Next == \E e \in End : Establish(e) \/ Write(e) \/ Read(e) \/ Stop(e)

Spec == Init /\ [][Next]_pipe

=============================================================================
