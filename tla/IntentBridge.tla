---------------------------- MODULE IntentBridge ----------------------------
(***************************************************************************)
(* The app-to-app intent half of LogosQmlBridge (src/LogosQmlBridge.cpp    *)
(* 110-290): bridges that record a QML callback, hand the request to a     *)
(* router, and invoke the callback from the event loop when a result       *)
(* comes back, while the host may reload or destroy engines and bridges.   *)
(*                                                                         *)
(* Everything runs on one GUI thread, so an action is a run of code that   *)
(* calls out to nobody the model leaves free.  Where the code does call    *)
(* out - to the router, or into QML - the action pushes a frame on         *)
(* `stack`, and whoever is on top may call back in before the frame        *)
(* returns.  The event loop turns only when the stack is empty.            *)
(*                                                                         *)
(* The router is external (an implementation of LogosIntentRouter): it may *)
(* answer any request, at any time, any number of times, or answer ids     *)
(* that were never asked.  Its books, `tracking`, are what the interface   *)
(* tells it: see LogosIntentRouter.h 25-53.                                *)
(***************************************************************************)
EXTENDS Naturals, Sequences

CONSTANTS Bridges, Routers, Engines,
          Requests,        \* request ids; QUuid::createUuid never repeats one
          NoRouter, NoEngine, NoBridge,
          MaxGeneration,   \* bound: hot reloads per bridge
          MaxDepth         \* bound: calls nested in one event-loop turn

ASSUME IntentAssumptions ==
  /\ NoRouter \notin Routers
  /\ NoEngine \notin Engines
  /\ NoBridge \notin Bridges
  /\ MaxGeneration \in Nat
  /\ MaxDepth \in Nat

VARIABLES
  alive,         \* bridges not yet destroyed
  engineOf,      \* qjsEngine(bridge)
  shownTo,       \* engines whose QML holds the bridge, the one it is bound to or not
  liveEngines,   \* engines whose QPointer is not null
  generation,    \* m_intentGeneration
  pending,       \* m_pendingIntents of all bridges
  intentRouter,  \* m_intentRouter
  posted,        \* queued deliveries, in event-loop order
  stack,         \* frames of QML and of router code, innermost first
  tracking,      \* the routers' books: requests routed and still open
  steady,        \* bridges whose router never changed under open requests
  origin,        \* history: which bridge and engine asked, and which one it was bound to
  calls,         \* history: invocations of each request's callback
  valueEngine,   \* history: engine the callback's argument was built in
  cancelled      \* history: requests outstanding at a reload or destruction

hostVars    == <<alive, engineOf, shownTo, liveEngines, intentRouter>>
historyVars == <<origin, calls, valueEngine, cancelled>>
vars == <<hostVars, generation, pending, posted, stack, tracking, steady, historyVars>>

-----------------------------------------------------------------------------
\* The record request() makes: the caller's callback (whether it is a function,
\* and its home, the engine it came from), the engine the bridge was bound to,
\* and the generation it was made in.
PendingIntent ==
  [id : Requests, bridge : Bridges, callable : BOOLEAN, home : Engines,
   engine : Engines \cup {NoEngine}, generation : Nat]

\* A frame of some bridge's QML, in the engine it runs in, or of a router.
Frame ==
  [kind : {"js"}, who : Bridges, engine : Engines]
    \cup [kind : {"router"}, who : Routers]

Origin ==
  [bridge : Bridges \cup {NoBridge}, engine : Engines \cup {NoEngine},
   bound : Engines \cup {NoEngine}]
NotAsked == [bridge |-> NoBridge, engine |-> NoEngine, bound |-> NoEngine]
OriginOf(p) == [bridge |-> p.bridge, engine |-> p.home, bound |-> p.engine]
Track    == [router : Routers, id : Requests, bridge : Bridges]

TypeOK ==
  /\ alive \subseteq Bridges
  /\ engineOf \in [Bridges -> Engines \cup {NoEngine}]
  /\ shownTo \in [Bridges -> SUBSET Engines]
  /\ liveEngines \subseteq Engines
  /\ generation \in [Bridges -> Nat]
  /\ pending \subseteq PendingIntent
  /\ intentRouter \in [Bridges -> Routers \cup {NoRouter}]
  /\ posted \in Seq(PendingIntent)
  /\ stack \in Seq(Frame)
  /\ tracking \subseteq Track
  /\ steady \subseteq Bridges
  /\ origin \in [Requests -> Origin]
  /\ calls \in [Requests -> Nat]
  /\ valueEngine \in [Requests -> Engines \cup {NoEngine}]
  /\ cancelled \subseteq Requests

Init ==
  /\ alive = Bridges
  /\ engineOf = [b \in Bridges |-> NoEngine]
  /\ shownTo = [b \in Bridges |-> {}]
  /\ liveEngines = Engines
  /\ generation = [b \in Bridges |-> 0]
  /\ pending = {}
  /\ intentRouter = [b \in Bridges |-> NoRouter]
  /\ posted = <<>>
  /\ stack = <<>>
  /\ tracking = {}
  /\ steady = Bridges
  /\ origin = [r \in Requests |-> NotAsked]
  /\ calls = [r \in Requests |-> 0]
  /\ valueEngine = [r \in Requests |-> NoEngine]
  /\ cancelled = {}

-----------------------------------------------------------------------------
JsFrame(b, e)  == [kind |-> "js", who |-> b, engine |-> e]
RouterFrame(m) == [kind |-> "router", who |-> m]

AtLoop     == stack = <<>>
InJs(b)    == stack # <<>> /\ b \in alive
                /\ Head(stack).kind = "js" /\ Head(stack).who = b
InRouter   == stack # <<>> /\ Head(stack).kind = "router"
HostMayAct == AtLoop \/ InRouter   \* the router is host code

Push(f) == Len(stack) < MaxDepth /\ stack' = <<f>> \o stack

\* The application's QML runs: an input event, a timer, Component.onCompleted.
\* An engine the bridge was rebound from keeps running until it is destroyed.
EnterJs(b, e) ==
  /\ AtLoop
  /\ b \in alive /\ e \in shownTo[b]
  /\ Push(JsFrame(b, e))
  /\ UNCHANGED <<hostVars, generation, pending, posted, tracking, steady, historyVars>>

\* The innermost frame returns to its caller, which does nothing more: every
\* function below makes its outward call last.
Return ==
  /\ stack # <<>>
  /\ stack' = Tail(stack)
  /\ UNCHANGED <<hostVars, generation, pending, posted, tracking, steady, historyVars>>

-----------------------------------------------------------------------------
Entries(b) == {p \in pending : p.bridge = b}

\* Erase, gone wrong: the entry survives its answer.
Erase_Kept(entries, p) == entries

\* The entry leaves the map before anything can invoke its callback.
Erase(entries, p) == entries \ {p}

\* A function, whose engine still lives: a QJSValue outlives its engine as undefined.
IsCallable(p) == p.callable /\ p.home \in liveEngines

\* PostDelivery, gone wrong: the callback is invoked on the caller's stack.
PostDelivery_Inline(p) ==
  /\ IsCallable(p) /\ p.engine \in liveEngines
  /\ calls' = [calls EXCEPT ![p.id] = @ + 1]
  /\ valueEngine' = [valueEngine EXCEPT ![p.id] = p.engine]
  /\ UNCHANGED posted

\* deliverIntentResult, from the entry it erased: nothing to call, engine
\* gone, or else one delivery queued on the bridge.
PostDelivery(p) ==
  /\ posted' = IF IsCallable(p) /\ p.engine \in liveEngines
               THEN Append(posted, p) ELSE posted
  /\ UNCHANGED <<calls, valueEngine>>

\* FailIntentLocally, gone wrong: an unrouted request is recorded and never failed.
FailIntentLocally_Forgets(p) ==
  /\ pending' = pending \cup {p}
  /\ UNCHANGED <<posted, calls, valueEngine>>

\* failIntentLocally(..., "unavailable"), of the entry request() just made.
FailIntentLocally(p) ==
  /\ pending' = Erase(pending \cup {p}, p)
  /\ PostDelivery(p)

\* request(): a fresh id, the entry recorded before routing, then either the
\* local failure or the router, which may answer inside this very call.  The
\* callback is of the engine that calls; what is recorded is qjsEngine(this).
Request(b, r, callable) ==
  LET p == [id |-> r, bridge |-> b, callable |-> callable, home |-> Head(stack).engine,
            engine |-> engineOf[b], generation |-> generation[b]]
      m == intentRouter[b]
  IN /\ InJs(b)
     /\ origin[r] = NotAsked
     /\ origin' = [origin EXCEPT ![r] = OriginOf(p)]
     /\ \/ /\ m = NoRouter
           /\ FailIntentLocally(p)
           /\ UNCHANGED <<tracking, stack>>
        \/ /\ m # NoRouter
           /\ pending' = pending \cup {p}
           /\ tracking' = tracking \cup {[router |-> m, id |-> r, bridge |-> b]}
           /\ Push(RouterFrame(m))
           /\ UNCHANGED <<posted, calls, valueEngine>>
     /\ UNCHANGED <<hostVars, generation, steady, cancelled>>

\* respond(): forwarded verbatim, whoever asked; nothing without a router.
Respond(b) ==
  /\ InJs(b)
  /\ intentRouter[b] # NoRouter
  /\ Push(RouterFrame(intentRouter[b]))
  /\ UNCHANGED <<hostVars, generation, pending, posted, tracking, steady, historyVars>>

\* deliverIntentRequest(): intentRequested is emitted synchronously, so the
\* provider's QML, in whichever engine connected to it, runs inside the
\* router's call.
DeliverIntentRequest(b, e) ==
  /\ HostMayAct
  /\ b \in alive /\ e \in shownTo[b]
  /\ Push(JsFrame(b, e))
  /\ UNCHANGED <<hostVars, generation, pending, posted, tracking, steady, historyVars>>

\* deliverIntentResult(): an unknown or already answered id is a no-op.
\* Answering closes the request in the router's books.
DeliverIntentResult(b, r) ==
  /\ HostMayAct
  /\ b \in alive
  /\ tracking' = {t \in tracking : ~(t.id = r /\ t.bridge = b)}
  /\ \/ \E p \in Entries(b) :
          /\ p.id = r
          /\ pending' = Erase(pending, p)
          /\ PostDelivery(p)
     \/ /\ \A p \in Entries(b) : p.id # r
        /\ UNCHANGED <<pending, posted, calls, valueEngine>>
  /\ UNCHANGED <<hostVars, generation, stack, steady, origin, cancelled>>

-----------------------------------------------------------------------------
\* Deliverable, gone wrong: a queued delivery ignores the reload it straddled.
Deliverable_AnyGeneration(p) ==
  p.bridge \in alive /\ p.engine \in liveEngines /\ IsCallable(p)

\* What the queued delivery checks before it touches the callback.  Qt drops
\* the queued calls of a destroyed object; here they stay and do nothing.
Deliverable(p) ==
  /\ p.bridge \in alive
  /\ p.generation = generation[p.bridge]
  /\ p.engine \in liveEngines
  /\ IsCallable(p)

\* ValueEngine, gone wrong: the argument is built in the bridge's present engine.
ValueEngine_OfBridge(p) == engineOf[p.bridge]

\* The argument is built in the engine recorded with the request, not in the
\* bridge's present one.
ValueEngine(p) == p.engine

\* One queued delivery takes its turn; the callback's QML then runs.  Handed a
\* value of another engine, Qt may refuse to enter it.
RunPosted ==
  LET p == Head(posted)
  IN /\ AtLoop
     /\ posted # <<>>
     /\ posted' = Tail(posted)
     /\ \/ /\ Deliverable(p)
           /\ calls' = [calls EXCEPT ![p.id] = @ + 1]
           /\ valueEngine' = [valueEngine EXCEPT ![p.id] = ValueEngine(p)]
           /\ \/ Push(JsFrame(p.bridge, p.home))
              \/ valueEngine'[p.id] # p.home /\ UNCHANGED stack
        \/ /\ ~Deliverable(p)
           /\ UNCHANGED <<calls, valueEngine, stack>>
     /\ UNCHANGED <<hostVars, generation, pending, tracking, steady, origin, cancelled>>

-----------------------------------------------------------------------------
\* Requests of b whose callback has not run: what a reload or a destruction
\* must silence for good.
Outstanding(b) == {r \in Requests : origin[r].bridge = b /\ calls[r] = 0}

\* NextGeneration, gone wrong: the generation only moves when something is pending.
NextGeneration_IfPending(b) == IF Entries(b) = {} THEN generation[b] ELSE generation[b] + 1

NextGeneration(b) == generation[b] + 1

\* KeptAfterAbandon, gone wrong: the router is not told of a reload.
KeptAfterAbandon_Untold(b) == tracking

\* The entries a router's books keep after intentsAbandoned(b, ids).
KeptAfterAbandon(b) ==
  {t \in tracking : ~(t.router = intentRouter[b] /\ t.bridge = b
                       /\ \E p \in Entries(b) : p.id = t.id)}

\* abandonPendingIntents(): the generation moves even when nothing is pending;
\* the map is cleared before the router hears of it.
AbandonPendingIntents(b) ==
  /\ HostMayAct
  /\ b \in alive
  /\ generation[b] < MaxGeneration
  /\ generation' = [generation EXCEPT ![b] = NextGeneration(b)]
  /\ cancelled' = cancelled \cup Outstanding(b)
  /\ pending' = pending \ Entries(b)
  /\ IF Entries(b) # {} /\ intentRouter[b] # NoRouter
     THEN tracking' = KeptAfterAbandon(b) /\ Push(RouterFrame(intentRouter[b]))
     ELSE UNCHANGED <<tracking, stack>>
  /\ UNCHANGED <<hostVars, posted, steady, origin, calls, valueEngine>>

\* ~LogosQmlBridge(): pending requests are dropped without a word to QML; the
\* router in place is told once, its pointer nulled first.
DestroyBridge(b) ==
  LET m == intentRouter[b]
  IN /\ AtLoop
     /\ b \in alive
     /\ alive' = alive \ {b}
     /\ cancelled' = cancelled \cup Outstanding(b)
     /\ pending' = pending \ Entries(b)
     /\ intentRouter' = [intentRouter EXCEPT ![b] = NoRouter]
     /\ IF m # NoRouter
        THEN /\ tracking' = {t \in tracking : ~(t.router = m /\ t.bridge = b)}
             /\ Push(RouterFrame(m))
        ELSE UNCHANGED <<tracking, stack>>
     /\ UNCHANGED <<engineOf, shownTo, liveEngines, generation, posted, steady,
                    origin, calls, valueEngine>>

\* setIntentRouter(): nobody is told.  A router replaced under open requests
\* keeps them in its books, and nothing here will ever close them.
SetIntentRouter(b, m) ==
  /\ HostMayAct
  /\ b \in alive
  /\ m # intentRouter[b]
  /\ intentRouter' = [intentRouter EXCEPT ![b] = m]
  /\ steady' = IF \E t \in tracking : t.bridge = b THEN steady \ {b} ELSE steady
  /\ UNCHANGED <<alive, engineOf, shownTo, liveEngines, generation, pending, posted,
                 stack, tracking, historyVars>>

\* The host's engines: a (re)load binds the bridge to an engine, while those it
\* was shown to before live on, and an engine dies at the loop with whatever
\* order the host chose relative to abandoning.
BindEngine(b, e) ==
  /\ AtLoop
  /\ b \in alive /\ e \in liveEngines /\ e # engineOf[b]
  /\ engineOf' = [engineOf EXCEPT ![b] = e]
  /\ shownTo' = [shownTo EXCEPT ![b] = @ \cup {e}]
  /\ UNCHANGED <<alive, liveEngines, intentRouter, generation, pending, posted, stack,
                 tracking, steady, historyVars>>

DestroyEngine(e) ==
  /\ AtLoop
  /\ e \in liveEngines
  /\ liveEngines' = liveEngines \ {e}
  /\ engineOf' = [b \in Bridges |-> IF engineOf[b] = e THEN NoEngine ELSE engineOf[b]]
  /\ shownTo' = [b \in Bridges |-> shownTo[b] \ {e}]
  /\ UNCHANGED <<alive, intentRouter, generation, pending, posted, stack,
                 tracking, steady, historyVars>>

-----------------------------------------------------------------------------
Next ==
  \/ \E b \in Bridges, e \in Engines : EnterJs(b, e)
  \/ Return
  \/ \E b \in Bridges, r \in Requests, callable \in BOOLEAN : Request(b, r, callable)
  \/ \E b \in Bridges : Respond(b)
  \/ \E b \in Bridges, e \in Engines : DeliverIntentRequest(b, e)
  \/ \E b \in Bridges, r \in Requests : DeliverIntentResult(b, r)
  \/ RunPosted
  \/ \E b \in Bridges : AbandonPendingIntents(b)
  \/ \E b \in Bridges : DestroyBridge(b)
  \/ \E b \in Bridges, m \in Routers \cup {NoRouter} : SetIntentRouter(b, m)
  \/ \E b \in Bridges, e \in Engines : BindEngine(b, e)
  \/ \E e \in Engines : DestroyEngine(e)

Spec == Init /\ [][Next]_vars

\* A router answers a request its books hold open.
RouterAnswers(r) ==
  \E t \in tracking : t.id = r /\ t.bridge \in alive /\ DeliverIntentResult(t.bridge, r)

\* Every handler returns to the event loop, the loop serves its queue, and the
\* router answers what it has open (basecamp's broker times requests out).
Fairness ==
  /\ []<>AtLoop
  /\ SF_vars(RunPosted)
  /\ \A r \in Requests : SF_vars(RouterAnswers(r))

FairSpec == Spec /\ Fairness

-----------------------------------------------------------------------------
\* No intent callback is invoked twice, however often and however late the
\* router answers (deliverIntentResult erases before it queues).
FiresAtMostOnce == \A r \in Requests : calls[r] <= 1

\* Once a reload or the destructor has silenced a request, its callback never
\* runs: not from the map, and not from a delivery that was already queued when
\* abandonPendingIntents() bumped the generation.
NoCallAfterAbandon ==
  [][\A r \in Requests : calls'[r] # calls[r] => r \notin cancelled]_vars

\* "ALWAYS ASYNCHRONOUSLY": a callback starts from the event loop, never on the
\* stack of the request(), the respond() or the host call that answered it.
AlwaysAsync == [][calls' # calls => AtLoop]_vars

\* Asked by QML of an engine the bridge was not bound to.
Strayed(r) == origin[r].bound # origin[r].engine

\* A callback is only called while the engine it came from is alive, and on a
\* value built in that engine, whatever engine the bridge is bound to by then -
\* unless the request was made from an engine the bridge was no longer bound to,
\* and even then on a value of a live engine.
OwnLiveEngine ==
  [][\A r \in Requests :
       calls'[r] # calls[r] =>
         /\ origin[r].engine \in liveEngines
         /\ valueEngine'[r] \in liveEngines
         /\ valueEngine'[r] = origin[r].engine \/ Strayed(r)]_vars

\* As long as a bridge's router is not replaced under open requests, the
\* router's books and m_pendingIntents agree: what the bridge still waits for,
\* the router still owes, and what the bridge gave up on, the router was told.
\* A destroyed bridge is in nobody's books.
BooksBalance ==
  \A b \in steady :
    {t.id : t \in {u \in tracking : u.bridge = b}} = {p.id : p \in Entries(b)}

\* Why these hold, as one inductive invariant.  Where a live entry may be: an
\* entry belongs to the bridge and engine that asked, is the only one of its id,
\* has not been called or cancelled, and is of its bridge's current generation.
EntriesSound ==
  \A p \in pending :
    /\ origin[p.id] = OriginOf(p)
    /\ calls[p.id] = 0
    /\ p.id \notin cancelled
    /\ p.bridge \in alive
    /\ p.generation = generation[p.bridge]
    /\ \A q \in pending : q.id = p.id => q = p

\* A queued delivery is the only trace of its request, and a cancelled one is
\* recognisable: its bridge is gone or has moved to a later generation.
PostedSound ==
  \A i \in 1..Len(posted) :
    LET p == posted[i]
    IN /\ origin[p.id] = OriginOf(p)
       /\ calls[p.id] = 0
       /\ p.generation <= generation[p.bridge]
       /\ p.id \in cancelled =>
            p.bridge \notin alive \/ p.generation < generation[p.bridge]
       /\ \A q \in pending : q.id # p.id
       /\ \A j \in 1..Len(posted) : posted[j].id = p.id => i = j

\* A request that was never made has no history.
HistorySound ==
  \A r \in Requests :
    /\ calls[r] <= 1
    /\ origin[r].bridge = NoBridge =>
         origin[r] = NotAsked /\ calls[r] = 0 /\ r \notin cancelled

DeliveryInv == TypeOK /\ EntriesSound /\ PostedSound /\ HistorySound

\* The callback contract, as seen from this module's state: a request waits
\* while an entry or a queued delivery may still invoke its callback.
CanDeliver(p) == IsCallable(p) /\ p.engine \in liveEngines /\ p.id \notin cancelled
Waits(r) ==
  \/ \E p \in pending : p.id = r /\ CanDeliver(p)
  \/ \E i \in 1..Len(posted) : posted[i].id = r /\ CanDeliver(posted[i])
StatusOf(r) ==
  IF origin[r] = NotAsked THEN "idle"
  ELSE IF calls[r] > 1 THEN "answered again"
  ELSE IF calls[r] = 1 THEN "answered"
  ELSE IF Waits(r) THEN "waiting" ELSE "dropped"
Status == [r \in Requests |-> StatusOf(r)]

Contract == INSTANCE CallbackContract WITH status <- Status

\* Every step of the bridges is a step of the callback contract: asked once,
\* then answered once or dropped for good.
ImplementsContract == Contract!Spec

\* A request whose callback can still be invoked does not wait for ever.
EveryRequestEnds == \A r \in Requests : StatusOf(r) = "waiting" ~> StatusOf(r) # "waiting"
=============================================================================
