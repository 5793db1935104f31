----------------------------- MODULE Supervisor -----------------------------
(***************************************************************************)
(* What viewerSession and ownerSession both promise to keep up, said       *)
(* without PeerConnections, handshakes, callbacks, locks or channels: one  *)
(* tunnel after the other, each of an epoch of its own, and no request for *)
(* another one ever lost.  ViewerSession and OwnerSession implement it.    *)
(***************************************************************************)
EXTENDS Naturals

VARIABLES epoch,   \* how many tunnels have been begun
          tunnel,  \* the current one: "coming", "up", "lost"; or "crashed"
          asked    \* somebody has asked for another one, or is about to

supervisor == <<epoch, tunnel, asked>>

Init == epoch = 0 /\ tunnel = "lost" /\ asked = TRUE

\* Only a new epoch answers a request; requests made before that are one.
Build ==
  /\ tunnel # "crashed" /\ asked
  /\ epoch' = epoch + 1 /\ tunnel' = "coming" /\ asked' = FALSE

\* Once an epoch at most.
ComesUp ==
  /\ tunnel = "coming"
  /\ tunnel' = "up"
  /\ UNCHANGED <<epoch, asked>>

\* A tunnel that is lost does not come back: another one is asked for with that.
Lose ==
  /\ tunnel \in {"coming", "up"}
  /\ tunnel' = "lost" /\ asked' = TRUE
  /\ UNCHANGED epoch

Ask ==
  /\ tunnel # "crashed"
  /\ asked' = TRUE
  /\ UNCHANGED <<epoch, tunnel>>

\* The process dies of a panic.
Crash ==
  /\ tunnel' = "crashed" /\ asked' = FALSE
  /\ UNCHANGED epoch

Next == Build \/ ComesUp \/ Lose \/ Ask \/ Crash

Spec == Init /\ [][Next]_supervisor

\* What is lost is asked for.
LostIsAsked == tunnel = "lost" => asked

=============================================================================
