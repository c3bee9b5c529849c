---------------------------- MODULE MCWebRuntime ----------------------------
(* Two modules; the application calls again from up to two calls deep. *)
EXTENDS WebRuntime, TLC
Symmetries == Permutations(Modules)
=============================================================================
