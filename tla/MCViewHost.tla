------------------------------ MODULE MCViewHost ------------------------------
(* A host that starts two children, one after the other. *)
EXTENDS ViewHost
=============================================================================
