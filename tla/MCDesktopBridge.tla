--------------------------- MODULE MCDesktopBridge ---------------------------
(* A view with calls in progress and with subscriptions. *)
EXTENDS DesktopBridge, TLC
Symmetries == Permutations(Modules) \cup Permutations(Events)
=============================================================================
