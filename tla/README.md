# A verification of logos-view-module-runtime

TLA+ models of the runtime that embeds the QML views of Logos modules in a host
application, the TLC runs that check them, and TLAPS proofs of what matters
most. Every definition is translated from the source, and `PROJECT.json` names
the lines each one stands for.

- [The system](#the-system)
- [Modules and the code](#modules-and-the-code)
- [Runs](#runs)
- [Disagreements found](#disagreements-found)
- [Fairness](#fairness)
- [Proofs](#proofs)
- [Not modelled](#not-modelled)
- [Plan](#plan)

## The system

A view (QML) sees one object, `logos`. Behind it stand two containers:

- On the desktop, `LogosQmlBridge` reaches *backend modules* through
  `LogosAPIClient` (an IPC transport of another repository), and *view modules*
  through Qt Remote Objects (QtRO) over a local socket. A view module's own
  process is `ui-host`, spawned and stopped by `ViewModuleHost`.
- In the Web container everything is in a page. `LogosWebRuntime` holds the views
  and `LogosWebBridge` is their `logos`. Module code runs in Workers, and QtRO
  packets cross message ports (`LogosMessagePort`, `LogosMessagePortDevice`,
  `LogosMessagePortTransport`). Calls to native modules leave the page through
  `LogosWebCallRouter`.

All of a container's C++ and QML runs on one GUI thread. What makes it hard is
not parallelism but *re-entrancy and time*: callbacks come later, out of order or
never, a signal's slot may call back into the object that emitted it, a view may
be hot-reloaded between two turns of the event loop, and a child process or a
Worker may die at any step.

| Component | State it keeps | Operations | What makes it correct |
|---|---|---|---|
| Intent bridge (`LogosQmlBridge.cpp` 73-290) | open requests with callback, engine and generation; router; generation counter | `request`, `respond`, `deliverIntentRequest`, `deliverIntentResult`, `abandonPendingIntents`, `setIntentRouter`, destructor | a callback runs at most once, from the event loop, while its engine lives, on a value of that engine, never after a reload silenced it; the router's books and the bridge's agree |
| Module calls (365-473) | per call: a latch, a timer, what the transport holds | `callModuleAsync` and the lambdas it leaves behind | one answer per call; nothing is executed for a caller that was answered; no call without an answer |
| View-module caches (536-673, 799-902) | sockets, factory plugins, nodes, replicas, models | `module`, `model`, `setViewModuleSocket`, `setViewReplicaPlugin`, crash, replay | every cached object belongs to the registered socket and plugin; readiness edges agree with readiness |
| Event subscriptions (675-780) | subscription id per module and event, beside the client's own registry | `onModuleEvent`, its late verdict, `pendingEventSubscriptions` | one live subscription per event; `true` is never a silent failure; what waits is listed |
| `watch()` (475-532, and `LogosWebBridge.cpp` 305-342) | a watcher per unfinished slot call | `watch`, a call finishing, destruction | every outcome is told once, to the right callback, however early the call finished |
| Intent vocabulary (`LogosIntent.h`) | none | name rules, error codes, canonical payloads | a name of the grammar and a payload within bounds are accepted, nothing else is; a provider cannot claim a broker's code |
| View module host (`ViewModuleHost.cpp`) | process handle, token server, stdout buffer | `spawn`, `stop`, destructor, four handlers | one child at a time; READY heard once; a responsive child is never killed |
| `ui-host` (`ui-host/main.cpp`) | signal pipe, parent pid, plugin | start-up, token handshake, serving, unload | ends with its parent; unwinds on SIGTERM; the plugin gets its grace period |
| Loopback message port (`LogosMessagePort.cpp`) | open, started, backlog; queued lambdas | `post`, `start`, `close`, deletion | nothing lost, doubled or reordered; `closed()` once and last |
| Port device and transport (`LogosMessagePortDevice.cpp`, `LogosMessagePortTransport.cpp`) | published ports by name; the client's device; the host's pending ports | `publish`, `withdraw`, `connectToServer`, `listen`, `configureNewConnection`; `readData`, `writeData`, `close` | a port has one holder; no null connection; a client recovers with a fresh port; the bytes read are those written |
| Web bridge and call router (`LogosWebBridge.cpp`, `LogosWebCallRouter.cpp`) | pending calls; router replica; calls in flight | `callModuleAsync`, router initialisation, timer, reply; `call`, `complete` | a call is executed and answered at most once, through Worker restarts too |
| Web runtime (`LogosWebRuntime.cpp`, `LogosWebBridge.cpp` 51-122) | views and their order, last error; replicas; bridge and node | `installModuleView`, `removeModuleView`, `module`, `connectToBackend`, destructor | a view on record is alive, none is lost track of, each gets its backend; users are destroyed before what they use |
| Emscripten port, plugin interfaces, QML shells, build | | | see [Not modelled](#not-modelled) |

How they interact: QML calls the bridge, and the bridge calls the router or the
transport, either of which may call back before it returns. `ViewModuleHost`
signals the owner, who tells the bridge a new socket or a crash. The page
publishes ports by name, QtRO's node and host take them, and the web bridge sees
the result as a router replica that becomes initialised, perhaps more than once.

## Modules and the code

`CallbackContract` is the abstract specification of every asynchronous entry
point: a request is idle, waits, and is then answered or dropped, both for good.
`IntentBridge`, `ModuleCalls` and `WebCalls` each implement it
(`Contract == INSTANCE CallbackContract WITH ...`), by three different machines.
`PortDevice` extends `MessagePort`. `WebBridge` composes `WebCalls` with `Watch`, and
`DesktopBridge` composes `ModuleCalls` with `EventSubscriptions`: one bridge, which
dies once for both. `MCx` instantiates `x` for TLC, `x_proofs` holds the proofs
about it.

**`IntentBridge`**. `pending` is `m_pendingIntents`, `posted` the lambdas queued
by `deliverIntentResult()`, `generation` is `m_intentGeneration`, `tracking` the
books of a router that does what `LogosIntentRouter.h` asks of it. Code that
calls out (to the router, or into QML) pushes a frame on `stack`, and whoever is
on top may call any operation before it returns; `AtLoop` is the empty stack. A
router may answer anything at any time, ids it was never given included. A frame of
QML names the engine it runs in. `BindEngine` binds the bridge to another engine
and leaves the old one running (`shownTo`), so an entry has two engines: `home`,
where its callback comes from, and `engine`, what `request()` recorded. They
differ when QML of an engine the bridge has been rebound from makes a request;
such a request has *strayed*.

**`ModuleCalls`**. One action per lambda of `callModuleAsync`: the refusals, the
wait with its timer (the call's deadline, or the 30 s fallback), the verdict of
`whenObjectAvailable`, the reply. `fired` is the latch. The transport may
answer at any time or never, but each callback at most once.

**`EventSubscriptions`**. `record` is `m_eventSubscriptions`; the client's side is
`state` (its answer to `eventSubscriptionState()`), `attached` (callbacks on a
live handle) and `verdicts` (an `armed=false` it has still to report). The
client may arm, lose, abandon or cancel a subscription at any time. Three
histories name what the code does not promise: `robbed`, a record erased by the
verdict of an older id, `severed`, an armed subscription cancelled by others, and
`stillborn`, one that was abandoned before `onEventWhenAvailable()` returned its
id. That last one is recorded all the same, and the view is told true.

**`IntentVocabulary`**. The pure functions of `LogosIntent.h` as operators; a loop
is a recursive function of the place it has come to (`Scanned`, `CutUp`, `Spent`).
Characters are their classes, a payload is the walk over its values in the order
the code visits them. `WellFormed` and `WithinBounds` say what the header's
comments promise, without those passes.

**`ViewModules`**. The maps of `LogosQmlBridge` by module name, and the objects they
point at: `socketOf` and `made` say what a node or a replica is, `doomed` that
`deleteLater()` was called. A doomed replica still speaks until `LoopTurns`, as it
does in the code when a slot runs a nested event loop. `heard` is the last
readiness edge the view got and who gave it; `Reload` forgets it, and the loop
of `replayViewModuleState()` runs one module per step. Between two steps a slot of
the edge just emitted may do anything: drop the caches of other modules, which
the loop then does not visit, or build them, which it visits or has passed,
depending on where they are in the map. Only dropping the module that the
iterator is at (`visiting`), and a reload or another replay inside a replay, are
excluded. QtRO's part is small:
replicas on one node share a connection, which may change state at any time.

**`MessagePort`**. Both ends of a loopback pair. `loop` holds the queued lambdas
of `post()`, `start()` and `close()`; `emitting` is the backlog loop of a late
`start()`, during which a slot may post, close or delete. Messages are numbered
per sender. Deleting the port that is emitting is excluded: the code then uses a
null `QPointer`, and nothing can be said.

**`PortDevice`**. A `LogosMessagePortDevice` on some ends of the pair, its slots run
by the port's signals in the same step. A byte is a message and a place in it,
`buffer` and `readPos` are the members of those names, and `Read` may come
between any two steps, in the middle of a backlog too.

**`PortTransport`**. Channels with a client end and a host end, and one name for
each side. `registry` is `PortRegistry::m_ports`, `device` the client io's
device, `pending` and `announced` the server's ports and its queued
`newConnection` emissions, `served` the ends with a server io. An end closes by
itself (`Close`) and its peer hears of it later (`PeerHears`). Messages are left
to `MessagePort`. `Wrapped` are the ends behind a `LogosEmscriptenMessagePort`,
which `Adopt` publishes and which nobody closes.

**`WebCalls`**. The web bridge and the Worker's router. Between them, `toWorker` counts
the copies of each call on their way, so a call sent twice is seen, and `toPage`
is a set, since its emissions are counted (QtRO and the event loops may be slow by
any amount). The bridge has its node from the start, or never (`hasNode`; null is
legal); `ConnectToBackend` only connects that node to the page's port, and calls
made before are held. `OnRouterInitialized` runs in two places: when a source is found
(`RouterInitialized`), and inside `callModuleAsync()` when the router acquired
there is known already (`AcquireKnown`), in which case the new call is drained with
the others and looked up again (`Due`). When the source has no `callCompleted`, it
returns without draining, and `routerConnected` stays false; calls are sent to such
a source, and what it answers is not heard. `WorkerDies` takes the router, its
handler and the wire; the successor is found again. `DestroyBridge` may come at
any time; a destroyed bridge answers nothing.

**`Watch`**, in **`WebBridge`** next to `WebCalls`. A slot call and its `watch()` are
two steps, between which QtRO may finish the call. `told` counts what each of
the two callbacks heard. The two bridges have the same `watch()`.

**`WebRuntime`**. `runtime` is in the root context, so QML may install and remove
views from a view's `onCompleted` and `onDestruction` and from every slot: the
calls in progress are a `stack` of frames, each at a point where foreign code
runs. `views` and `listed` are `m_views` and `m_order`, `live` and `contexts` what
was created and not yet destroyed, `replica` is `m_replicas`. `usurped` names the
modules that a handler installed past an outer install of the same name. The
destructor is three steps (views, bridge, node) and what `~QObject` finds left.

**`ViewHost`**. `ViewModuleHost` and its children. A child goes through the phases
of `main()`: forked, guarding (parent pid read), handling (signal handlers, token
handshake), loading (plugin, `initLogos`), serving (`app.exec()`), unloading,
gone. `stopping` is a `stop()` that blocks its thread: only the signals of its
own process are delivered meanwhile. Time is in seconds, advanced by `Tick`,
which waits for whatever a responsive process does at once, so the budgets 3, 2
and 1 of the code are compared as numbers. `Stick` lets plugin code hold the
child's main thread for as long as it likes.

Operators named `X_Something`, commented "X, gone wrong", are plausible bugs of
the code that `X` models: a missing erase, a reset forgotten, a budget too big.
No specification uses them. Each property of a passing run is violated when one
of them replaces the definition it varies, so none of them holds by the shape of
the model; `PROJECT.json` lists the pairs.

## Runs

Each takes `tlc -config X.cfg M`. All but the last column is in `PROJECT.json`.

| Run | Checks | Bounds, and why they are enough |
|---|---|---|
| `intent_bridge` | `FiresAtMostOnce`, `NoCallAfterAbandon`, `AlwaysAsync`, `OwnLiveEngine`, `BooksBalance`, the contract, `EveryRequestEnds` | one bridge, one router that is set, removed and set again, two engines, two requests, one reload, four nested calls. Two requests are needed for answers out of order and for a reload between them, two engines for a rebinding; removing the router leaves open requests in its books, as replacing it does; four frames hold view, router, view, router. The proofs lift every bound of the safety properties. 325,192 distinct states |
| `module_calls` | `UnreachableMeansUnsent`, `DispatchOnlyWhileWaiting`, the contract, `EveryCallAnswered` | two calls, next to one subscription. Calls share only the bridge, so two show what its destruction does to both, and the subscription what it does to the other half. The proofs lift the bounds |
| `message_port` | `NothingLostOrDoubled`, `OrderedUnlessOvertaken`, `StreamInOrder`, `CloseComesLast`, `NothingAfterClosed`, `CloseIsHeard`, `PostsAreHeard` | a device at one end; two posts in each direction, one of two bytes and one of one, read one or two at a time: a message in a backlog and one overtaking it, a read that ends inside a message and one that drains the buffer, closes that cross. The proofs lift every bound for the safety properties |
| `port_transport` | `OneHolder`, `AnnouncedOnce`, `ClientRecovers` | two channels: the second replaces, or outlives, the first; one end of one is wrapped. The proofs lift the bounds |
| `view_modules` | `CachesCoherent`, `OnlyTheDroppedMislead` | two view modules, since a slot of the one's edge may do anything to the other while a replay is under way; one model, two sockets and plugins to replace each other, two nodes and two replicas: cached and dropped, of one module or of two. The proofs lift every bound. 274,355 states |
| `event_subscriptions` | `OneSubscriptionPerEvent`, `AcceptedIsTracked`, `PendingIsListed` | two modules with two events each, three subscriptions: an older one, the younger whose record its verdict erases, and the one made after that; two events of a module, since a client lists by module. The proofs lift every bound. 832,016 states |
| `web_calls` | `ExecutedAtMostOnce`, `NothingHeldBack`, the contract, `EveryCallEnds`, `EveryOutcomeIsTold` | two calls, one Worker death, one slot call, with and without a node, with sources that have the signal and that do not: a call may be held, drained, sent, lost and drained past, next to one that is in another of those states. Slot calls share only the bridge. The proofs lift every bound of the safety properties. 592,136 states |
| `web_runtime` | `InstalledIsAlive`, `NothingStray`, `BackendReachesView`, `UsersGoFirst` | two modules, three views, handlers that call again from up to three frames deep: an install that replaces a view whose `onDestruction` installs the same module needs all three. The proofs lift every bound |
| `view_host` | `TypeOK`, `OneChild`, `ReadyIsHeard`, `KillsOnlyTheUnresponsive`, `OrphansEnd` | two children: the second may start inside the `stop()` of the first. The proofs lift the bound |
| `module_calls_fallback`, `message_port_order`, `port_transport_browser` | one claim of the documentation each, violated | see below |

The vocabulary has no state. `MCIntentBridge` states it as assumptions, which the
run `intent_bridge` evaluates: `NamesFollowTheGrammar` (every string of up to six
characters, and every string of letters and dots up to past the length limit),
`ProvidersClaimNoMore` and `PayloadsAreBounded` (walks up to past the limit of
values, with each of the limits scaled down and exceeded by one). All three are
proved for every input.

`TypeOK` is proved of every module with state; `view_host` evaluates it too.
Deadlock is not checked: all of these systems may come to rest (every request answered, both ports
closed, the host destroyed).

## Disagreements found

Each has a run whose counterexample shows it, and an entry in `PROJECT.json`
that quotes the text it contradicts.

1. **The fallback timeout caps the method** (`FallbackBoundsOnlyTheWait`).
   `callModuleAsync(..., 0)` arms a 30 s timer that answers "timeout" even when
   the method was sent, although it is said to bound "only the WAIT, never the
   method".
2. **A late `start()` reorders** (`Ordered`). A message still in the event loop
   when `start()` queues the backlog is heard before the backlog. QtRO starts a
   port as soon as its device exists, which keeps the window small.
3. **In the browser a respawned Worker's port is never taken**
   (`FreshPortIsTaken`). Death "the page turns into close()", but the image
   exports no way to call it, and adopted ports are leaked. The client keeps an
   open device on the dead Worker's channel, and the fresh port stays published.

Observed while modelling, without a run of their own:

- `request()` records `qjsEngine(this)` (`LogosQmlBridge.cpp` 158). QML of an engine the
  bridge has been rebound from therefore has its callback called on a value of the
  new engine, or, once that one is gone, not at all, although the delivery is said to
  build its argument in "the callback's OWN engine" (262-267). It takes a host that
  lets the old engine run on after the rebinding; nothing here excludes that.
  `OwnLiveEngine` says of such a request (`Strayed`) only that both engines live.
- The record of an event subscription is made after `onEventWhenAvailable()` returned
  (763). If the client gives the subscription up inside that call, its verdict comes
  first and erases nothing: the dead id is recorded, and `onModuleEvent()` returns
  true. A second call finds the record stale and subscribes again, but nothing tells
  the view to make one. Whether the client ever reports so early is not decided
  here. `AcceptedIsTracked` excepts such a subscription (`stillborn`).
- A port that closes while it lies in the registry makes a device that never
  hears of it (`LogosMessagePortTransport.cpp` 121): `closed()` was emitted
  before. Its client stops retrying. This is why `ClientRecovers` promises no
  live port.
- SIGTERM while `initLogos()` runs an event loop is lost (`ui-host/main.cpp` 130):
  the notifier eats the byte, `quit()` does nothing, `app.exec()` then starts.
  `KillsOnlyTheUnresponsive` excepts that child.
- `setViewModuleSocket()` and `setViewReplicaPlugin()` drop a Valid replica without
  an edge (`LogosQmlBridge.cpp` 637, 650), unlike `notifyViewModuleCrashed()`;
  `OnlyTheDroppedMislead` allows it.
- A verdict `armed=false` erases the record by key, so a late one robs a younger
  subscription, and the next call subscribes again (`LogosQmlBridge.cpp` 750-755).
  Cancelling an armed subscription leaves its callback attached. Events can then
  be doubled; `OneSubscriptionPerEvent` names both cases.
- `installModuleView()` of a name, from the `onDestruction` of the view it
  replaces, lists the module twice and leaks a view (`LogosWebRuntime.cpp` 149);
  `NothingStray` excepts it. By the same re-entrancy the returned view may be
  gone (166), a nested success clears the error of a failing outer install, and
  the destructor's loop (77-78) must not be re-entered.
- When a router's source has no `callCompleted`, the web bridge says so in its log and
  drains nothing (`LogosWebBridge.cpp` 168-173). What was held stays held, yet new
  calls are sent (249), although no answer can be heard. Those without a timeout wait
  for ever; `EveryCallEnds` excepts them.
- `connectToBackend()` remembers the port name before `connectToNode()` may refuse it
  (`LogosWebRuntime.cpp` 98-99): asking again with the same name then answers true
  and connects nothing.
- `watch()` tells a failed call that finished before as `onSuccess(undefined)`, one
  that finishes later as `onError`. Of such a call `EveryOutcomeIsTold` says only that it
  is told once.

## Fairness

- `IntentBridge`: handlers return (`[]<>AtLoop`), the loop serves its queue, and
  the router answers what it holds open (strong fairness, because a nested call
  may disable it for a while). The last is the router's duty: the host's broker
  times requests out, as `LogosIntentRouter.h` expects.
- `ModuleCalls`: only that an armed timer fires. Nothing is assumed of transport
  or module, and calls end all the same.
- `MessagePort`: the event loop turns.
- `PortTransport`: the node's retry timer ticks, both loops turn, and a peer's
  close is heard. `ClientRecovers` promises no more than that a waiting client
  without a device takes the port it is handed.
- `ViewModules`, `EventSubscriptions` and `WebRuntime` are checked for safety only:
  what their liveness would need is the client's and QtRO's to promise.
- `WebCalls`: both loops turn, the wire delivers, a source that is there is
  found once the node is connected, and the host answers what it was given. The
  page is not obliged to connect the node, nor a source to have the signal. A
  call without a timeout that was lost with its Worker, was asked of a node that is
  never connected, or whose router cannot be heard never ends, and `EveryCallEnds` says so.
- `ViewHost`: the operating system runs a child's start, the watchdog's thread
  and its own SIGKILL, and a connection to nobody fails. No plugin is assumed to
  give its thread back.

## Proofs

`tlapm` checks these for every value of the constants, resting only on the named
assumptions of each module (the null values are not members of the sets they
stand beside or of one another, bounds are naturals).

| Module | Theorems | Argument |
|---|---|---|
| `IntentBridge_proofs` (bridge) | `TypeCorrect`, `DeliverySafe`, `AtMostOnce`, `Asynchronous`, `Silence`, `OwnEngine`, `Balanced`, `KeepsContract` | `DeliveryInv`. That callbacks run at most once is not inductive: one has to know where a request's one trace may be. `EntriesSound` says a live entry belongs to its asker, is uncalled, uncancelled, of the current generation and alone; `PostedSound` says a queued delivery excludes an entry and is recognisably stale once its request was cancelled; `HistorySound` says a request never made has no past. The action properties then follow from the invariant, one action at a time; `OwnEngine` also from what an entry remembers of its caller, which may run in any engine that holds the bridge. `Balanced` needs `BooksSound`: what is owed to a steady bridge is owed by its present router and is on record. The refinement needs `PostedFresh`: a queued delivery that nobody cancelled is for a living bridge of the present generation, so the only ones refused are those whose request was already dropped |
| `IntentBridge_proofs` (vocabulary) | `NamesFollowTheGrammar`, `PayloadsWithinBounds`, `ProvidersClaimNoMore` | What each pass knows after `i` steps: a scan, whether the characters so far are fine (`ScanKnows`); `split()`, that the last segment is what follows the last separator, and that the others are segments of the grammar exactly if the characters before are fine (`CutKnows`); the budget, its sums and whether the values so far are within bounds (`BudgetKnows`) |
| `DesktopBridge_proofs` (calls) | `CallTypes`, `CallsSound`, `Unsent`, `SentWhileWaiting`, `KeepsContract` | `CallInv`, `TypeOK` with `LatchSound` (the latch is set exactly when a payload went through, and then the callback ran once if it is callable) and `SendSound` (nothing is sent twice; a held call was not sent, nor one answered as unreachable, which is no longer held either). The refinement maps each call on its own: a step moves one call along the contract and leaves the others |
| `DesktopBridge_proofs` (subscriptions) | `SubscriptionsSound`, `SubscriptionTypes`, `Undoubled`, `NeverSilent`, `Diagnosed` | `SubInv`. `RecordSound` says that what is tracked of a key is what its record names; it survives a subscription only because ids are fresh (`IdsSound`: ids to come are unknown, unattached and have no verdict), and a verdict only because it names an id that is tracked no more (`VerdictsSound`), so that what it robs it also counts. A stillborn subscription is on record and not tracked, and `NeverSilent` excepts it |
| `PortTransport_proofs` | `TransportSound`, `TransportTypes`, `TakenNotBorrowed`, `NeverANullConnection` | `TransportInv`. `OneHolder` survives a publication only if the two names hold ends of their own sides (`Labelled`), and a connection only if the client's hand is empty (`IdleIsEmpty`) |
| `ViewModules_proofs` | `ViewsSound`, `ViewTypes`, `Coherence`, `Readiness` | `ViewInv`. `CachesCoherent` survives a crash only if no two modules share a node (`NodeSound`) and a new object only if nothing remembers its predecessor (`PoolSound`). That only dropped replicas mislead needs `HeardSound`: the cached replica, when it spoke last, spoke the truth, and silence or a crash last means not ready, or a reload whose replay is still to come |
| `ViewHost_proofs` | `HostSound`, `HostTypes`, `OneChildPerHost`, `ReadyIsAnnounced`, `KillsAreExcused` | `HostInv`. `ChildrenSound`: only the child started last may live, and in a living host only `m_process`. `HearingSound`: an exit is announced once, and only of the present process, and `readyEmitted` is about it, so the next child's READY is neither lost nor told twice. `GraceSound` is arithmetic: a child that was signalled and reacts has spent less of its grace than `stop()` of its budget, so the wait outlasts it; the others are excused (their plugin held the thread) or lost the signal in `initLogos()` |
| `WebCalls_proofs` (calls) | `CallsAreSound`, `WebTypes`, `NotTwice`, `NothingLeftBehind`, `KeepsContract` | `CallInv`. A held call was never sent and a fresh id is nowhere; a call on the wire is one copy in one place and not executed yet; one in the router's books was executed and is not answered. A turn that asks may drain first and dispatch after; what it dispatches then must still be held (`DueSent`), so no call is sent by both. That nothing is left behind needs `HearingIsReady`: a router that is heard is initialised, so nothing is held any more. For the refinement, `AnswerInv` ties the callback to the entry |
| `WebCalls_proofs` (watched slot calls) | `WatchersSound`, `OutcomesAreTold` | `WatchInv`, of the composed `BridgeSpec`: a slot call that was watched and still runs has its watcher unless the bridge is gone, and until it is over nothing was told of it; one that nobody made is unwatched |
| `MessagePort_proofs` (port) | `PortsSound`, `PortTypes`, `ClosedIsLast`, `PortsInOrder`, `NothingIsLost`, `KeepsOrder`, `ClosesLast` | `PortInv`: a port has emitted `closed()` exactly if it is closed, and then once. `OrderInv` follows a message from its post to its slot. `LoopSound` says that the loop holds each direction's messages in their order, and no close ahead of them; `KeptSound` where a message waits before and after `start()`; `ArrivedSound` and `NoGap` that what has arrived is older than what is under way; `InOrder` that a port that was never overtaken hears in order, because its backlog is older than the loop. A close is in the loop behind every message it must not overtake, which is all that `CloseComesLast` needs |
| `MessagePort_proofs` (device) | `DevicesSound`, `DeviceTypes`, `StreamIsInOrder` | `DeviceInv`: what was read and what is still unread are together the bytes of the messages heard. It is a step of a recursive function, `Stream`, per message |
| `WebRuntime_proofs` | `RuntimeSound`, `RuntimeTypes`, `Alive`, `NoStray`, `Reached`, `Teardown` | `RuntimeInv`. The point is that a call in progress has its view to itself: the view of a frame that will still look at it is of the frame's module and not on record, alive while it is being installed, and no two frames share one. So whatever handlers do between two steps of an install, the view it adopts is still there; and where two views could come under one name, the inner call left the module in `usurped` |

The conclusions of these theorems that are also run are named in the table of
runs; the strengthenings live in the proof modules.

Every safety property and action property that a run checks is stated by a
theorem, and so is each refinement of the contract. Recursive functions
(`Stream`, and the passes of the vocabulary) are reasoned about without the
library's induction theorems, which take operators: the least number at which a
claim fails (`Least`, from the well-foundedness of the naturals) has a predecessor
at which it holds. `FoldExists` shows that way that such a function exists for
any step, once for all passes.

Only model-checked: the liveness properties (`EveryRequestEnds`,
`EveryCallAnswered`, `CloseIsHeard`, `PostsAreHeard`, `ClientRecovers`,
`EveryCallEnds`, `OrphansEnd`). Liveness under fairness and `ENABLED` are beyond the
prover.

## Not modelled

- *`callModule`, `serializeResultForTesting`, the refused synchronous call of the web
  bridge*: one sequential function each, over the transport's answer.
- *`isReservedName()`* (a prefix test), and conversions between JavaScript values
  and variants.
- *`describeItem()`*, which only reads the scene.
- *A view that destroys the runtime, or a handler that calls into a runtime being
  destroyed; the module at which `replayViewModuleState()`'s loop stands
  dropped; a port
  deleted by a slot of its own backlog*: undefined behaviour, excluded by guards.
- *A reload, or a second replay, from a slot of a replay*: legal, but nothing in the
  repository does it, and the model's loop is one.
- *`doDisconnectFromServer()`, a server closed without being destroyed, a port
  deleted while it is published*.
- *Windows' branch of `stop()`* (`WM_QUIT`), and which objects `ui-host` remotes.
- *Emscripten port* beyond adoption: queueing and order are the browser's, and the
  rest is embind glue.
- *Plugin interfaces, QML shells, build and packaging*: no behaviour of their own.
- *External*: QtRO (node, replicas, source io), `LogosAPIClient`, the router, QML
  engines, `QProcess`, the operating system. Each is modelled from how the
  code uses it, with as much freedom as that use allows; the entries marked
  external in `PROJECT.json` say which definitions those are.

## Plan

Done in this order: the asynchronous entry points and their contract, the port and
its transport, `ViewModules` and `ViewHost`; then `EventSubscriptions`,
`WebRuntime` with the web bridge's replicas, `PortDevice`, `Watch` and
`IntentVocabulary`; the proofs, first of what the intent bridge and the calls
promise, last of the ports' order, `ViewHost`, `Watch` and the vocabulary;
`DesktopBridge`.

Worth having next: the server's close and the explicit disconnect in
`PortTransport`, with its proofs; a port that is a first-in first-out channel as
an abstract specification, which `MessagePort` refines as long as nobody
overtakes; Windows' `stop()`.
