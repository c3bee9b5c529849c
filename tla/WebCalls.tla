------------------------------ MODULE WebCalls ------------------------------
(***************************************************************************)
(* Backend calls in the Web container: LogosWebBridge (the page's QML      *)
(* runtime, src/LogosWebBridge.cpp 140-279) holds and dispatches them over *)
(* a replica of LogosWebCallRouter (src/LogosWebCallRouter.cpp), which the *)
(* module's Worker hosts and which answers by request id.                  *)
(*                                                                         *)
(* Between the two is QtRO over a message port (external).  Requests are    *)
(* told apart by id alone, so what is on its way to the Worker is a count  *)
(* of copies per id, and what comes back a set of ids, whose emissions are *)
(* counted; a Worker's death empties both.  The next Worker's router is    *)
(* another object: its books are empty and it has no handler yet.  The     *)
(* replica, once initialised, stays so, and signals `initialized` again    *)
(* when the new source is found.  A source that has no callCompleted is    *)
(* dispatched to like any other, but nothing it answers is heard.          *)
(***************************************************************************)
EXTENDS Naturals

CONSTANTS MaxCalls,     \* bound: calls the view makes
          MaxRestarts   \* bound: Workers that die

ASSUME WebAssumptions == MaxCalls \in Nat /\ MaxRestarts \in Nat

VARIABLES
  \* LogosWebBridge
  alive,
  hasNode,          \* m_node, given to the constructor; null is legal
  connected,        \* the runtime connected the node to the page's port
  router,           \* m_router: "none", "acquired", "initialized"
  routerConnected,  \* m_routerConnected
  nextRequestId,    \* m_nextRequestId
  pending,          \* m_pending
  timers,           \* armed timeouts
  \* the wire
  toWorker,         \* copies of call() on their way
  toPage,           \* callCompleted on its way
  \* the Worker's LogosWebCallRouter and the host behind its handler
  linked,           \* the replica is attached to a live source
  hasHandler,       \* m_handler
  inFlight,         \* m_inFlight
  hosted,           \* calls the host was given by its handler
  restarts,
  \* history
  calls,            \* invocations of each request's callback
  executed,         \* handler invocations per request
  completions,      \* callCompleted emissions per request
  lost              \* dispatched calls a Worker took with it, or answered unheard

bridgeVars == <<alive, hasNode, connected, router, routerConnected, nextRequestId, pending, timers>>
wireVars   == <<toWorker, toPage>>
workerVars == <<linked, hasHandler, inFlight, hosted, restarts>>
vars == <<bridgeVars, wireVars, workerVars, calls, executed, completions, lost>>

-----------------------------------------------------------------------------
Ids == 1..MaxCalls
PendingCall == [id : Ids, callable : BOOLEAN, dispatched : BOOLEAN]

TypeOK ==
  /\ alive \in BOOLEAN
  /\ hasNode \in BOOLEAN
  /\ connected \in BOOLEAN
  /\ router \in {"none", "acquired", "initialized"}
  /\ routerConnected \in BOOLEAN
  /\ nextRequestId \in 0..MaxCalls
  /\ pending \subseteq PendingCall
  /\ timers \subseteq Ids
  /\ toWorker \in [Ids -> Nat]
  /\ toPage \subseteq Ids
  /\ linked \in BOOLEAN
  /\ hasHandler \in BOOLEAN
  /\ inFlight \subseteq Ids
  /\ hosted \subseteq Ids
  /\ restarts \in 0..MaxRestarts
  /\ calls \in [Ids -> Nat]
  /\ executed \in [Ids -> Nat]
  /\ completions \in [Ids -> Nat]
  /\ lost \subseteq Ids

Init ==
  /\ alive = TRUE
  /\ hasNode \in BOOLEAN
  /\ connected = FALSE
  /\ router = "none"
  /\ routerConnected = FALSE
  /\ nextRequestId = 0
  /\ pending = {}
  /\ timers = {}
  /\ toWorker = [i \in Ids |-> 0]
  /\ toPage = {}
  /\ linked = FALSE
  /\ hasHandler = FALSE
  /\ inFlight = {}
  /\ hosted = {}
  /\ restarts = 0
  /\ calls = [i \in Ids |-> 0]
  /\ executed = [i \in Ids |-> 0]
  /\ completions = [i \in Ids |-> 0]
  /\ lost = {}

-----------------------------------------------------------------------------
Entries(i) == {p \in pending : p.id = i}
Held(p)    == ~p.dispatched
Ready      == router = "initialized"

Sent(p)              == [p EXCEPT !.dispatched = TRUE]
MarkSent(entries, S) == (entries \ S) \cup {Sent(p) : p \in S}
Send(wire, S)        == [i \in Ids |-> wire[i] + (IF \E p \in S : p.id = i THEN 1 ELSE 0)]

\* Erase, gone wrong: the entry survives its answer.
Erase_Kept(entries, i) == entries

\* deliver(): erase, then call; an id that is not pending is a no-op.
Erase(entries, i) == {p \in entries : p.id # i}

Deliver(entries, i) ==
  /\ pending' = Erase(entries, i)
  /\ calls' = [calls EXCEPT ![i] =
                 @ + (IF \E p \in entries : p.id = i /\ p.callable THEN 1 ELSE 0)]

\* connectToBackend(): the runtime's node learns of the page's port.  A name that
\* is empty, or the one it has, changes nothing, and neither does a refusal.
ConnectToBackend ==
  /\ hasNode /\ ~connected
  /\ connected' = TRUE
  /\ UNCHANGED <<alive, hasNode, router, routerConnected, nextRequestId, pending, timers,
                 wireVars, workerVars, calls, executed, completions, lost>>

\* ToDrain, gone wrong: what was held is never sent.
ToDrain_Nothing(entries) == {}

ToDrain(entries) == {p \in entries : Held(p)}

\* onRouterInitialized(): callCompleted is connected once, then what was held is
\* sent.  When the source has no such signal the handler returns at that.
OnRouterInitialized(entries, connects) ==
  IF connects
  THEN [entries |-> MarkSent(entries, ToDrain(entries)), wire |-> Send(toWorker, ToDrain(entries))]
  ELSE [entries |-> entries, wire |-> toWorker]

\* The signal, when a source is found: the first, or a new Worker's.
RouterInitialized(connects) ==
  LET after == OnRouterInitialized(pending, connects)
  IN /\ router # "none" /\ connected /\ ~linked
     /\ linked' = TRUE
     /\ router' = "initialized"
     /\ routerConnected => connects
     /\ routerConnected' = connects
     /\ pending' = after.entries
     /\ toWorker' = after.wire
     /\ UNCHANGED <<alive, hasNode, connected, nextRequestId, timers, toPage, hasHandler,
                    inFlight, hosted, restarts, calls, executed, completions, lost>>

-----------------------------------------------------------------------------
\* Without a node, or with one that acquires nothing, the call is answered now.
Refuse(p) ==
  /\ ~hasNode \/ router = "none"
  /\ Deliver(pending \cup {p}, p.id)
  /\ UNCHANGED <<router, routerConnected, linked, toWorker, lost>>

\* The router is acquired, its source not known yet.
Hold(p) ==
  /\ hasNode /\ ~Ready
  /\ router' = "acquired"
  /\ pending' = pending \cup {p}
  /\ UNCHANGED <<routerConnected, linked, toWorker, lost, calls>>

\* Due, gone wrong: the call is sent although ensureRouter() may have.
Due_Unchecked(entries, i) == {p \in entries : p.id = i}

\* The entry is looked up again: it may be dispatched by now.
Due(entries, i) == {p \in entries : p.id = i /\ Held(p)}

\* The end of callModuleAsync() once the replica is initialised.  dispatch() is a
\* remoted call; a replica whose source is gone sends nothing.
DispatchDue(entries, wire, i) ==
  LET due == Due(entries, i)
  IN /\ pending' = MarkSent(entries, due)
     /\ \/ linked' /\ toWorker' = Send(wire, due) /\ UNCHANGED lost
        \/ ~linked' /\ toWorker' = wire /\ lost' = lost \cup {p.id : p \in due}
     /\ UNCHANGED calls

DispatchNow(p) ==
  /\ hasNode /\ Ready
  /\ UNCHANGED <<router, routerConnected, linked>>
  /\ DispatchDue(pending \cup {p}, toWorker, p.id)

\* ensureRouter() acquires a router whose source is known: the replica is
\* initialised, and its handler run, before the call goes on.
AcquireKnown(p, connects) ==
  LET after == OnRouterInitialized(pending \cup {p}, connects)
  IN /\ hasNode /\ router = "none" /\ connected
     /\ router' = "initialized" /\ linked' = TRUE /\ routerConnected' = connects
     /\ DispatchDue(after.entries, after.wire, p.id)

NextId == nextRequestId + 1

\* callModuleAsync(): record, arm the timeout, then refuse, hold or dispatch.
CallModuleAsync(callable, timed) ==
  LET p == [id |-> NextId, callable |-> callable, dispatched |-> FALSE]
  IN /\ alive /\ nextRequestId < MaxCalls
     /\ nextRequestId' = NextId
     /\ timers' = IF timed THEN timers \cup {NextId} ELSE timers
     /\ \/ Refuse(p)
        \/ Hold(p)
        \/ DispatchNow(p)
        \/ \E connects \in BOOLEAN : AcquireKnown(p, connects)
     /\ UNCHANGED <<alive, hasNode, connected, toPage, hasHandler, inFlight, hosted, restarts,
                    executed, completions>>

\* The timeout of a call, answered or not by then.
TimerFires(i) ==
  /\ i \in timers
  /\ timers' = timers \ {i}
  /\ Deliver(pending, i)
  /\ UNCHANGED <<alive, hasNode, connected, router, routerConnected, nextRequestId, wireVars,
                 workerVars, executed, completions, lost>>

\* onCallCompleted(), where the signal is connected.
CompletionArrives(i) ==
  /\ i \in toPage
  /\ toPage' = toPage \ {i}
  /\ \/ routerConnected /\ Deliver(pending, i) /\ UNCHANGED lost
     \/ ~routerConnected /\ lost' = lost \cup {i} /\ UNCHANGED <<pending, calls>>
  /\ UNCHANGED <<alive, hasNode, connected, router, routerConnected, nextRequestId, timers,
                 toWorker, workerVars, executed, completions>>

\* ~LogosWebBridge: its children go, the replica and the timers among them, and
\* no callback is called.
DestroyBridge ==
  /\ alive
  /\ alive' = FALSE
  /\ router' = "none" /\ routerConnected' = FALSE /\ linked' = FALSE
  /\ pending' = {} /\ timers' = {} /\ toPage' = {}
  /\ UNCHANGED <<hasNode, connected, nextRequestId, toWorker, hasHandler, inFlight, hosted,
                 restarts, calls, executed, completions, lost>>

-----------------------------------------------------------------------------
\* InBooks, gone wrong: complete() does not look at m_inFlight.
InBooks_Unchecked(i, books) == TRUE

\* complete(): only a call in flight is answered, and only once.  The signal
\* goes to whatever replica is attached.
InBooks(i, books) == i \in books

Complete(i, books) ==
  IF InBooks(i, books)
  THEN /\ inFlight' = books \ {i}
       /\ completions' = [completions EXCEPT ![i] = @ + 1]
       /\ toPage' = IF linked THEN toPage \cup {i} ELSE toPage
  ELSE inFlight' = books /\ UNCHANGED <<completions, toPage>>

\* Unhandled, gone wrong: a call without a handler is not answered.
Unhandled_Dropped(i) == inFlight' = inFlight \cup {i} /\ UNCHANGED <<completions, toPage>>

\* A call the host has no handler for is answered with an error on the spot.
Unhandled(i) == Complete(i, inFlight \cup {i})

\* call(): booked, then handed to the host, or answered for want of one.
CallArrives(i) ==
  /\ toWorker[i] > 0
  /\ toWorker' = [toWorker EXCEPT ![i] = @ - 1]
  /\ IF hasHandler
     THEN /\ inFlight' = inFlight \cup {i}
          /\ hosted' = hosted \cup {i}
          /\ executed' = [executed EXCEPT ![i] = @ + 1]
          /\ UNCHANGED <<completions, toPage>>
     ELSE Unhandled(i) /\ UNCHANGED <<hosted, executed>>
  /\ UNCHANGED <<bridgeVars, linked, hasHandler, restarts, calls, lost>>

SetHandler ==
  /\ ~hasHandler
  /\ hasHandler' = TRUE
  /\ UNCHANGED <<bridgeVars, wireVars, linked, inFlight, hosted, restarts, calls, executed,
                 completions, lost>>

\* The host answers a call it was given, perhaps not for the first time.
HostCompletes(i) ==
  /\ i \in hosted
  /\ Complete(i, inFlight)
  /\ UNCHANGED <<bridgeVars, toWorker, linked, hasHandler, hosted, restarts, calls, executed,
                 lost>>

\* The Worker dies, and with it all that it had and all that was on the wire.
\* Its successor is found again by RouterInitialized.
WorkerDies ==
  /\ restarts < MaxRestarts
  /\ restarts' = restarts + 1
  /\ lost' = lost \cup {i \in Ids : toWorker[i] > 0} \cup toPage \cup inFlight
  /\ linked' = FALSE
  /\ hasHandler' = FALSE
  /\ inFlight' = {} /\ hosted' = {} /\ toPage' = {}
  /\ toWorker' = [i \in Ids |-> 0]
  /\ UNCHANGED <<bridgeVars, calls, executed, completions>>

Next ==
  \/ ConnectToBackend
  \/ \E callable, timed \in BOOLEAN : CallModuleAsync(callable, timed)
  \/ \E connects \in BOOLEAN : RouterInitialized(connects)
  \/ \E i \in Ids : TimerFires(i)
  \/ \E i \in Ids : CompletionArrives(i)
  \/ \E i \in Ids : CallArrives(i)
  \/ DestroyBridge
  \/ SetHandler
  \/ \E i \in Ids : HostCompletes(i)
  \/ WorkerDies

Spec == Init /\ [][Next]_vars

\* Both event loops turn, QtRO finds a source that is there once the node is
\* connected, the wire delivers, and the host answers each call it was given.
\* Nothing obliges the page to connect, or a source to have the signal.
Fairness ==
  /\ WF_vars(\E connects \in BOOLEAN : RouterInitialized(connects))
  /\ \A i \in Ids :
       /\ WF_vars(TimerFires(i))
       /\ WF_vars(CallArrives(i))
       /\ WF_vars(CompletionArrives(i))
       /\ WF_vars(HostCompletes(i) /\ i \in inFlight)

FairSpec == Spec /\ Fairness

-----------------------------------------------------------------------------
\* The host executes a call at most once, although the turn that asks may drain it
\* before it is sent, and a restarted Worker makes the bridge drain its calls
\* again; and the routers of all Workers together answer it at most once, however
\* often a host completes it.
ExecutedAtMostOnce == \A i \in Ids : executed[i] <= 1 /\ completions[i] <= 1

\* Once the bridge hears the router no call is left behind: whatever was held
\* until then has been sent, and nothing is held after.  (An initialised replica
\* is not enough: while its source has no callCompleted, held calls stay held.)
NothingHeldBack == routerConnected => \A p \in pending : ~Held(p)

\* A call waits while its entry holds a callback.
StatusOf(i) ==
  IF i > nextRequestId THEN "idle"
  ELSE IF calls[i] > 1 THEN "answered again"
  ELSE IF calls[i] = 1 THEN "answered"
  ELSE IF \E p \in Entries(i) : p.callable THEN "waiting" ELSE "dropped"
Status == [i \in Ids |-> StatusOf(i)]

Contract == INSTANCE CallbackContract WITH Requests <- Ids, status <- Status

\* Reply, timeout and refusal race, and exactly one of them reaches QML.
ImplementsContract == Contract!Spec

\* A call with a timeout ends in any case.  Without one it ends too, unless a Worker
\* took it along or answered it unheard, the page never connects the node, or the
\* source the replica found has no callCompleted.
MayWaitForEver(i) ==
  i \notin timers /\ (i \in lost \/ ~connected \/ (Ready /\ ~routerConnected))

EveryCallEnds ==
  \A i \in Ids : StatusOf(i) = "waiting" ~> (StatusOf(i) # "waiting" \/ MayWaitForEver(i))
=============================================================================
