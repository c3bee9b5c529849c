-------------------------- MODULE CallbackContract --------------------------
(***************************************************************************)
(* What every asynchronous entry point of the runtime promises the QML     *)
(* that handed it a callback.  logos.request() and both forms of           *)
(* logos.callModuleAsync() implement it, each with its own machinery.      *)
(*                                                                         *)
(* A request is idle until it is made.  It then waits until its callback   *)
(* is invoked (answered) or can no longer be invoked (dropped), and both   *)
(* of these are final: no callback runs twice, and none runs after the     *)
(* requester was told, or had reason to believe, that it is gone.          *)
(***************************************************************************)
CONSTANT Requests

VARIABLE status

Init == status = [r \in Requests |-> "idle"]

\* A call is made.  An entry point that may refuse on the spot answers within
\* the call; one handed no function has nobody to answer.
Ask(r, now) ==
  /\ status[r] = "idle"
  /\ now \in {"waiting", "answered", "dropped"}
  /\ status' = [status EXCEPT ![r] = now]

Answer(r) ==
  /\ status[r] = "waiting"
  /\ status' = [status EXCEPT ![r] = "answered"]

\* A reload, a destroyed engine or a destroyed bridge drops many at once.
Drop(S) ==
  /\ \A r \in S : status[r] = "waiting"
  /\ status' = [r \in Requests |-> IF r \in S THEN "dropped" ELSE status[r]]

Next ==
  \/ \E r \in Requests, now \in {"waiting", "answered", "dropped"} : Ask(r, now)
  \/ \E r \in Requests : Answer(r)
  \/ \E S \in SUBSET Requests : Drop(S)

Spec == Init /\ [][Next]_status
=============================================================================
