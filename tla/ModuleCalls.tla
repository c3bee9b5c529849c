---------------------------- MODULE ModuleCalls ----------------------------
(***************************************************************************)
(* LogosQmlBridge::callModuleAsync (src/LogosQmlBridge.cpp 365-473): a QML *)
(* call to a backend module that may still be starting.  Three parties may *)
(* answer one call - its timer, the transport's verdict on the module, and *)
(* the module's reply - and a latch shared by their lambdas decides.       *)
(*                                                                         *)
(* The transport and the module are external: LogosAPIClient calls the     *)
(* whenObjectAvailable callback at most once, at any time or never, and    *)
(* answers an invocation at most once, at any time or never.  All lambdas  *)
(* run on the GUI thread, one at a time, so each is one action.            *)
(***************************************************************************)
EXTENDS Naturals

CONSTANTS Calls    \* the calls QML makes, each with a latch of its own

VARIABLES
  alive,       \* the bridge: owns the timers, guards the lambdas with QPointer
  asked,       \* calls made
  callable,    \* calls whose callback is a function
  deadline,    \* "call": timeoutMs > 0; "wait": 0 asked for, fallback armed
  timers,      \* armed single-shot timers
  held,        \* calls whose whenObjectAvailable callback has not come
  inFlight,    \* calls dispatched and not answered by the client
  fired,       \* the latches
  payload,     \* history: what the latch let through
  calls,       \* history: invocations of the QML callback
  dispatches   \* history: invokeRemoteMethodAsync per call

callVars == <<asked, callable, deadline>>
vars == <<alive, callVars, timers, held, inFlight, fired, payload, calls, dispatches>>

-----------------------------------------------------------------------------
\* Answers given before anything is armed: view module, no LogosAPI, no client.
Refusals == {"view module", "no API", "not connected"}
Replies  == {"result", "source unavailable", "invalid response"}
Payloads == Refusals \cup Replies \cup {"timeout", "not reachable"}

TypeOK ==
  /\ alive \in BOOLEAN
  /\ asked \subseteq Calls
  /\ callable \subseteq asked
  /\ deadline \in [Calls -> {"none", "call", "wait"}]
  /\ timers \subseteq asked
  /\ held \subseteq asked
  /\ inFlight \subseteq asked
  /\ fired \subseteq asked
  /\ payload \in [Calls -> Payloads \cup {"none"}]
  /\ calls \in [Calls -> Nat]
  /\ dispatches \in [Calls -> Nat]

Init ==
  /\ alive = TRUE
  /\ asked = {}
  /\ callable = {}
  /\ deadline = [c \in Calls |-> "none"]
  /\ timers = {}
  /\ held = {}
  /\ inFlight = {}
  /\ fired = {}
  /\ payload = [c \in Calls |-> "none"]
  /\ calls = [c \in Calls |-> 0]
  /\ dispatches = [c \in Calls |-> 0]

-----------------------------------------------------------------------------
\* Latched, gone wrong: no latch.
Latched_Never(c) == FALSE

\* invokeCallback: the first payload wins and the callback, if it is a
\* function, runs here and now.  `functions` are the calls that passed one.
Latched(c) == c \in fired

InvokeCallback(c, text, functions) ==
  IF Latched(c)
  THEN UNCHANGED <<fired, payload, calls>>
  ELSE /\ fired' = fired \cup {c}
       /\ payload' = [payload EXCEPT ![c] = text]
       /\ calls' = [calls EXCEPT ![c] = @ + (IF c \in functions THEN 1 ELSE 0)]

\* ArmTimer, gone wrong: no fallback for timeoutMs 0.
ArmTimer_OnlyDeadlines(c, kind) == IF kind = "call" THEN timers \cup {c} ELSE timers

\* A wait always gets a timer: the caller's deadline or the fallback.
ArmTimer(c, kind) == timers \cup {c}

Ask(c, isFunction) ==
  /\ alive
  /\ c \notin asked
  /\ asked' = asked \cup {c}
  /\ callable' = IF isFunction THEN callable \cup {c} ELSE callable

\* callModuleAsync() up to its three early returns.
Refuse(c, isFunction, why) ==
  /\ Ask(c, isFunction)
  /\ InvokeCallback(c, why, callable')
  /\ UNCHANGED <<alive, deadline, timers, held, inFlight, dispatches>>

\* callModuleAsync() past them: a timer, then the wait for the module.
HoldCall(c, isFunction, kind) ==
  /\ Ask(c, isFunction)
  /\ deadline' = [deadline EXCEPT ![c] = kind]
  /\ timers' = ArmTimer(c, kind)
  /\ held' = held \cup {c}
  /\ UNCHANGED <<alive, inFlight, fired, payload, calls, dispatches>>

\* Either timer, whatever the call is doing by then.
TimerFires(c) ==
  /\ alive
  /\ c \in timers
  /\ timers' = timers \ {c}
  /\ InvokeCallback(c, "timeout", callable)
  /\ UNCHANGED <<alive, callVars, held, inFlight, dispatches>>

-----------------------------------------------------------------------------
\* MayDispatch, gone wrong: the wait does not look at the latch.
MayDispatch_StaleWait(c) == alive

\* The whenObjectAvailable callback: nothing once the bridge is gone, nothing
\* once the caller was answered, otherwise an error or the dispatch.
MayDispatch(c) == alive /\ ~Latched(c)

Dispatch(c) ==
  /\ dispatches' = [dispatches EXCEPT ![c] = @ + 1]
  /\ inFlight' = inFlight \cup {c}
  /\ UNCHANGED <<fired, payload, calls>>

\* ReportUnreachable, gone wrong: the error branch falls through to the dispatch.
ReportUnreachable_AndSends(c) ==
  /\ InvokeCallback(c, "not reachable", callable)
  /\ dispatches' = [dispatches EXCEPT ![c] = @ + 1]
  /\ inFlight' = inFlight \cup {c}

ReportUnreachable(c) ==
  /\ InvokeCallback(c, "not reachable", callable)
  /\ UNCHANGED <<inFlight, dispatches>>

ObjectAvailable(c, ready) ==
  /\ c \in held
  /\ held' = held \ {c}
  /\ IF ~MayDispatch(c) THEN UNCHANGED <<inFlight, fired, payload, calls, dispatches>>
     ELSE IF ready THEN Dispatch(c) ELSE ReportUnreachable(c)
  /\ UNCHANGED <<alive, callVars, timers>>

\* The client's answer to the invocation; it does not need the bridge.
Reply(c, outcome) ==
  /\ c \in inFlight
  /\ inFlight' = inFlight \ {c}
  /\ InvokeCallback(c, outcome, callable)
  /\ UNCHANGED <<alive, callVars, timers, held, dispatches>>

\* ~LogosQmlBridge(): its timers go with it; the lambdas the client holds stay.
DestroyBridge ==
  /\ alive
  /\ alive' = FALSE
  /\ timers' = {}
  /\ UNCHANGED <<callVars, held, inFlight, fired, payload, calls, dispatches>>

Next ==
  \/ \E c \in Calls, f \in BOOLEAN, why \in Refusals : Refuse(c, f, why)
  \/ \E c \in Calls, f \in BOOLEAN, kind \in {"call", "wait"} : HoldCall(c, f, kind)
  \/ \E c \in Calls : TimerFires(c)
  \/ \E c \in Calls, ready \in BOOLEAN : ObjectAvailable(c, ready)
  \/ \E c \in Calls, outcome \in Replies : Reply(c, outcome)
  \/ DestroyBridge

Spec == Init /\ [][Next]_vars

\* A running event loop fires an armed timer.  Nothing is assumed of the
\* transport or of the module.
Fairness == \A c \in Calls : WF_vars(TimerFires(c))

FairSpec == Spec /\ Fairness

-----------------------------------------------------------------------------
\* A module is only ever sent a call whose view still waits for the answer, on
\* behalf of a bridge that still exists, and is sent it once: a call is not
\* idempotent, so a held one dies with the deadline that answered its caller.
DispatchOnlyWhileWaiting ==
  [][\A c \in Calls :
       dispatches'[c] # dispatches[c] =>
         alive /\ payload[c] = "none" /\ dispatches'[c] = 1]_vars

\* "Module not reachable" is only said of a call that was never sent.
UnreachableMeansUnsent ==
  \A c \in Calls : payload[c] = "not reachable" => dispatches[c] = 0

\* A call waits as long as someone may still invoke its callback.
StatusOf(c) ==
  IF c \notin asked THEN "idle"
  ELSE IF calls[c] > 1 THEN "answered again"
  ELSE IF calls[c] = 1 THEN "answered"
  ELSE IF c \in callable \ fired /\ (alive \/ c \in inFlight) THEN "waiting"
  ELSE "dropped"
Status == [c \in Calls |-> StatusOf(c)]

Contract == INSTANCE CallbackContract WITH Requests <- Calls, status <- Status

\* Whoever answers first - refusal, timer, transport or module - is the only
\* one whose payload reaches QML.
ImplementsContract == Contract!Spec

\* "No timeout" cannot become "no callback": while the bridge lives every call
\* is answered, even one whose module never appears or never replies.
EveryCallAnswered ==
  \A c \in Calls : (c \in callable /\ alive) ~> (calls[c] > 0 \/ ~alive)

\* LogosQmlBridge.cpp 53-55 and 446-447: with timeoutMs 0 the fallback "bounds
\* only the WAIT, never the method", so once the method was sent no timeout is
\* reported for it.
FallbackBoundsOnlyTheWait ==
  \A c \in Calls :
    deadline[c] = "wait" /\ payload[c] = "timeout" => dispatches[c] = 0
=============================================================================
