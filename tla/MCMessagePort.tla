---------------------------- MODULE MCMessagePort ----------------------------
(* One loopback pair: an application at one end, a device at the other. *)
EXTENDS PortDevice
TwoThenOne == [m \in Messages |-> IF m = 1 THEN 2 ELSE 1]
=============================================================================
