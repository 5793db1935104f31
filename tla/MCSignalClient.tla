--------------------------- MODULE MCSignalClient ---------------------------
(* Two goroutines that send, beside the main one and the receiver.         *)
EXTENDS SignalClient
=============================================================================
