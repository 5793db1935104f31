-------------------------- MODULE MCViewerSession --------------------------
(* Small instances of ViewerSession for TLC. *)
EXTENDS ViewerSession, TLC

\* Proxies are interchangeable: no property names one.
Symmetry == Permutations(Proxy)
=============================================================================
