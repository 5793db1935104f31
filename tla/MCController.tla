---------------------------- MODULE MCController ----------------------------
(* Two requests at a time; two owners and one client, or one and two.      *)
EXTENDS Controller
=============================================================================
