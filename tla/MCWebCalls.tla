----------------------------- MODULE MCWebCalls -----------------------------
(* Two backend calls and one slot call, across a death of the Worker. *)
EXTENDS WebBridge
=============================================================================
