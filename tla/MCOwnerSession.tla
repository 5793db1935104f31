--------------------------- MODULE MCOwnerSession ---------------------------
(* Two epochs, and two streams for a backlog of one.                       *)
EXTENDS OwnerSession
=============================================================================
