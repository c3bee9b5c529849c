---------------------------- MODULE ViewModules ----------------------------
(***************************************************************************)
(* The per-view-module caches of LogosQmlBridge (src/LogosQmlBridge.cpp    *)
(* 536-673 and 799-902): what module() and model() build on demand, what   *)
(* the host's calls drop, and what the view hears of readiness.            *)
(*                                                                         *)
(* A dropped object is not a deleted one: deleteLater() leaves it to the   *)
(* event loop, and a slot that runs a nested loop (a synchronous           *)
(* callModule) keeps it longer.  Until then its stateChanged is connected, *)
(* and it speaks under the module's name.                                  *)
(*                                                                         *)
(* Slots of viewModuleReadyChanged may call back; they run here as steps   *)
(* between the bridge's own.  Only replayViewModuleState() has state       *)
(* across an emission, an iterator of a map: it is a loop of steps.  A     *)
(* slot may drop and make caches of other modules meanwhile; to drop the   *)
(* one the iterator stands at is undefined in the code, and excluded.      *)
(***************************************************************************)
CONSTANTS Modules, Models,   \* names the view asks for
          Sockets, Plugins,  \* what the host registers
          Nodes, Replicas,   \* bound: objects that exist at one time
          None,              \* null, or no entry
          Nobody,            \* heard from no one since the view was built
          Crash,             \* heard from notifyViewModuleCrashed()
          Gone               \* heard from a replica since deleted

Made == [module : Modules, node : Nodes, plugin : Plugins]

ASSUME ViewAssumptions ==
  /\ None \notin Modules \cup Sockets \cup Plugins \cup Nodes \cup Replicas \cup Made
  /\ Nodes \cap Replicas = {}
  /\ {Nobody, Crash, Gone} \cap (Replicas \cup {None}) = {}
  /\ Gone \notin {Nobody, Crash}

VARIABLES
  sockets,    \* m_viewModuleSockets
  plugins,    \* m_replicaPluginPaths
  factories,  \* m_factories and m_factoryLoaders: the plugin each came from
  nodes,      \* m_replicaNodes
  replicas,   \* m_replicas
  models,     \* m_modelReplicas: the node each was acquired on
  \* the objects
  socketOf,   \* of a node: where it connects; None, no such node
  made,       \* of a replica: module, node and plugin; None, no such replica
  valid,      \* replicas whose state() is Valid
  doomed,     \* deleteLater() was called
  \* the view
  heard,      \* the last viewModuleReadyChanged: its value and its speaker
  unheard,    \* modules a rebuilt view awaits replay of
  replaying,  \* what replayViewModuleState() has yet to visit
  visiting    \* the module whose edge it is emitting

cacheVars  == <<sockets, plugins, factories, nodes, replicas, models>>
objectVars == <<socketOf, made, valid, doomed>>
replayVars == <<unheard, replaying, visiting>>
viewVars   == <<heard, replayVars>>
vars == <<cacheVars, objectVars, viewVars>>

-----------------------------------------------------------------------------
Edge == [ready : BOOLEAN, by : Replicas \cup {Nobody, Crash, Gone}]

TypeOK ==
  /\ sockets \in [Modules -> Sockets \cup {None}]
  /\ plugins \in [Modules -> Plugins \cup {None}]
  /\ factories \in [Modules -> Plugins \cup {None}]
  /\ nodes \in [Modules -> Nodes \cup {None}]
  /\ replicas \in [Modules -> Replicas \cup {None}]
  /\ models \in [Modules -> [Models -> Nodes \cup {None}]]
  /\ socketOf \in [Nodes -> Sockets \cup {None}]
  /\ made \in [Replicas -> Made \cup {None}]
  /\ valid \subseteq Replicas
  /\ doomed \subseteq Nodes \cup Replicas
  /\ heard \in [Modules -> Edge]
  /\ unheard \subseteq Modules
  /\ replaying \subseteq Modules
  /\ visiting \in Modules \cup {None}

Init ==
  /\ sockets = [m \in Modules |-> None]
  /\ plugins = [m \in Modules |-> None]
  /\ factories = [m \in Modules |-> None]
  /\ nodes = [m \in Modules |-> None]
  /\ replicas = [m \in Modules |-> None]
  /\ models = [m \in Modules |-> [x \in Models |-> None]]
  /\ socketOf = [n \in Nodes |-> None]
  /\ made = [r \in Replicas |-> None]
  /\ valid = {}
  /\ doomed = {}
  /\ heard = [m \in Modules |-> [ready |-> FALSE, by |-> Nobody]]
  /\ unheard = {}
  /\ replaying = {}
  /\ visiting = None

\* Replicas acquired on node n, dropped ones included.
On(n) == {r \in Replicas : made[r] # None /\ made[r].node = n}

\* isViewModuleReady()
Ready(m) == replicas[m] \in valid

\* emit viewModuleReadyChanged(m, ready), by a replica or by the crash.
Emit(m, ready, by) == heard' = [heard EXCEPT ![m] = [ready |-> ready, by |-> by]]

-----------------------------------------------------------------------------
\* loadFactory(m): cached, or loaded from the registered plugin if it can be.
LoadFactory(m) ==
  \/ UNCHANGED factories
  \/ /\ factories[m] = None
     /\ factories' = [factories EXCEPT ![m] = plugins[m]]

\* getOrCreateNode(m): cached, or new if a socket is registered.
GetOrCreateNode(m) ==
  \/ /\ nodes[m] # None \/ sockets[m] = None
     /\ UNCHANGED <<nodes, socketOf>>
  \/ /\ nodes[m] = None /\ sockets[m] # None
     /\ \E n \in Nodes :
          /\ socketOf[n] = None
          /\ socketOf' = [socketOf EXCEPT ![n] = sockets[m]]
          /\ nodes' = [nodes EXCEPT ![m] = n]

\* Acquire, gone wrong: a replica that is Valid from the start is not announced.
Acquire_Silent(m, n, r) ==
  /\ made[r] = None
  /\ made' = [made EXCEPT ![r] = [module |-> m, node |-> n, plugin |-> factories'[m]]]
  /\ replicas' = [replicas EXCEPT ![m] = r]
  /\ valid' = IF On(n) \cap valid # {} THEN valid \cup {r} ELSE valid
  /\ UNCHANGED heard

\* A new replica r on node n.  QtRO lets the replicas of a name on one node share
\* their connection, so r is Valid at once if an older one is: nobody will
\* say so later, and module() does.
Acquire(m, n, r) ==
  /\ made[r] = None
  /\ made' = [made EXCEPT ![r] = [module |-> m, node |-> n, plugin |-> factories'[m]]]
  /\ replicas' = [replicas EXCEPT ![m] = r]
  /\ IF On(n) \cap valid # {}
     THEN valid' = valid \cup {r} /\ Emit(m, TRUE, r)
     ELSE UNCHANGED <<valid, heard>>

\* The replay finds a replica that is cached while it goes on, or has passed it.
Replaying == replaying # {} \/ visiting # None

MayVisit(m) ==
  \/ UNCHANGED replaying
  \/ Replaying /\ replaying' = replaying \cup {m}

\* module(m) without a cached replica: it needs a factory, then a node, and
\* the factory may still answer null.  What was made on the way stays.
Module(m) ==
  /\ replicas[m] = None
  /\ LoadFactory(m)
  /\ \/ /\ factories'[m] = None
        /\ UNCHANGED <<nodes, socketOf, replicas, made, valid, heard, replaying>>
     \/ /\ factories'[m] # None
        /\ GetOrCreateNode(m)
        /\ \/ UNCHANGED <<replicas, made, valid, heard, replaying>>
           \/ /\ nodes'[m] # None
              /\ \E r \in Replicas : Acquire(m, nodes'[m], r)
              /\ MayVisit(m)
  /\ UNCHANGED <<sockets, plugins, models, doomed, unheard, visiting>>

\* model(m, x) without a cached one; acquireModel may answer null.
Model(m, x) ==
  /\ models[m][x] = None
  /\ GetOrCreateNode(m)
  /\ \/ UNCHANGED models
     \/ models' = [models EXCEPT ![m][x] = nodes'[m]]
  /\ UNCHANGED <<sockets, plugins, factories, replicas, made, valid, doomed, viewVars>>

-----------------------------------------------------------------------------
\* m is no longer among the replicas a replay visits, nor is one owed to it.
Unvisit(m) ==
  /\ visiting # m
  /\ replaying' = replaying \ {m}
  /\ unheard' = unheard \ {m}
  /\ UNCHANGED visiting

\* dropViewModuleCaches(m)
DropViewModuleCaches(m) ==
  /\ Unvisit(m)
  /\ doomed' = doomed \cup ({replicas[m], nodes[m]} \ {None})
  /\ replicas' = [replicas EXCEPT ![m] = None]
  /\ models' = [models EXCEPT ![m] = [x \in Models |-> None]]
  /\ factories' = [factories EXCEPT ![m] = None]
  /\ nodes' = [nodes EXCEPT ![m] = None]

SetViewModuleSocket(m, s) ==
  /\ sockets[m] # s
  /\ DropViewModuleCaches(m)
  /\ sockets' = [sockets EXCEPT ![m] = s]
  /\ UNCHANGED <<plugins, socketOf, made, valid, heard>>

\* SetViewReplicaPlugin, gone wrong: the cached factory is kept.
SetViewReplicaPlugin_KeepsFactory(m, p) ==
  /\ plugins[m] # p
  /\ Unvisit(m)
  /\ doomed' = doomed \cup ({replicas[m]} \ {None})
  /\ replicas' = [replicas EXCEPT ![m] = None]
  /\ plugins' = [plugins EXCEPT ![m] = p]
  /\ \E loaded \in {p, None} :
       factories' = [factories EXCEPT ![m] = IF @ # None THEN @ ELSE loaded]
  /\ UNCHANGED <<sockets, nodes, models, socketOf, made, valid, heard>>

\* Node and models stay; the new factory is loaded at once, if it can be.
SetViewReplicaPlugin(m, p) ==
  /\ plugins[m] # p
  /\ Unvisit(m)
  /\ doomed' = doomed \cup ({replicas[m]} \ {None})
  /\ replicas' = [replicas EXCEPT ![m] = None]
  /\ plugins' = [plugins EXCEPT ![m] = p]
  /\ \E loaded \in {p, None} : factories' = [factories EXCEPT ![m] = loaded]
  /\ UNCHANGED <<sockets, nodes, models, socketOf, made, valid, heard>>

NotifyViewModuleCrashed(m) ==
  /\ DropViewModuleCaches(m)
  /\ Emit(m, FALSE, Crash)
  /\ UNCHANGED <<sockets, plugins, socketOf, made, valid>>

-----------------------------------------------------------------------------
\* QtRO: the connection of node n changes state.  Its replicas hear it in the
\* order they were made, the cached one last, and each emits its edge.
StateChanges(n, ready) ==
  /\ valid' = IF ready THEN valid \cup On(n) ELSE valid \ On(n)
  /\ \E r \in On(n) :
       /\ \A q \in On(n) : replicas[made[q].module] = q => r = q
       /\ Emit(made[r].module, ready, r)
  /\ UNCHANGED <<cacheVars, socketOf, made, doomed, replayVars>>

\* The event loop deletes what was left to it.
LoopTurns ==
  /\ doomed # {}
  /\ socketOf' = [n \in Nodes |-> IF n \in doomed THEN None ELSE socketOf[n]]
  /\ made' = [r \in Replicas |-> IF r \in doomed THEN None ELSE made[r]]
  /\ valid' = valid \ doomed
  /\ doomed' = {}
  /\ heard' = [m \in Modules |->
                 IF heard[m].by \in doomed THEN [heard[m] EXCEPT !.by = Gone] ELSE heard[m]]
  /\ UNCHANGED <<cacheVars, replayVars>>

\* A hot reload builds the view anew: it has heard nothing.
Reload ==
  /\ ~Replaying
  /\ heard' = [m \in Modules |-> [ready |-> FALSE, by |-> Nobody]]
  /\ unheard' = {m \in Modules : replicas[m] # None}
  /\ UNCHANGED <<cacheVars, objectVars, replaying, visiting>>

\* replayViewModuleState(), called: it will visit every cached replica.
ReplayViewModuleState ==
  /\ ~Replaying
  /\ replaying' = {m \in Modules : replicas[m] # None}
  /\ unheard' = unheard \cap replaying'
  /\ UNCHANGED <<cacheVars, objectVars, heard, visiting>>

\* ReplayNext, gone wrong: the replica is not asked for its state.
ReplayNext_Blind(m) ==
  /\ m \in replaying
  /\ Emit(m, TRUE, replicas[m])
  /\ visiting' = m
  /\ replaying' = replaying \ {m}
  /\ unheard' = unheard \ {m}
  /\ UNCHANGED <<cacheVars, objectVars>>

\* One turn of its loop.  Slots run if there is an edge to emit; the model lets
\* them run after a silent turn too.
ReplayNext(m) ==
  /\ m \in replaying
  /\ IF Ready(m) THEN Emit(m, TRUE, replicas[m]) ELSE UNCHANGED heard
  /\ visiting' = IF Ready(m) THEN m ELSE None
  /\ replaying' = replaying \ {m}
  /\ unheard' = unheard \ {m}
  /\ UNCHANGED <<cacheVars, objectVars>>

\* And the end of it.
ReplayEnds ==
  /\ replaying = {} /\ visiting # None
  /\ visiting' = None
  /\ UNCHANGED <<cacheVars, objectVars, heard, unheard, replaying>>

Next ==
  \/ \E m \in Modules :
       \/ Module(m)
       \/ \E x \in Models : Model(m, x)
       \/ \E s \in Sockets : SetViewModuleSocket(m, s)
       \/ \E p \in Plugins : SetViewReplicaPlugin(m, p)
       \/ NotifyViewModuleCrashed(m)
       \/ ReplayNext(m)
  \/ \E n \in Nodes, ready \in BOOLEAN : StateChanges(n, ready)
  \/ LoopTurns
  \/ Reload
  \/ ReplayViewModuleState
  \/ ReplayEnds

Spec == Init /\ [][Next]_vars

-----------------------------------------------------------------------------
\* What module m has cached exists, is not waiting to be deleted, and belongs
\* together: the node connects to the registered socket, the factory is of the
\* registered plugin, replica and models are on that node, and the replica is
\* of that factory's making.
Coherent(m) ==
  /\ nodes[m] # None => nodes[m] \notin doomed /\ socketOf[nodes[m]] = sockets[m]
  /\ factories[m] # None => factories[m] = plugins[m]
  /\ replicas[m] # None =>
       /\ replicas[m] \notin doomed
       /\ nodes[m] # None /\ factories[m] # None
       /\ made[replicas[m]] = [module |-> m, node |-> nodes[m], plugin |-> factories[m]]
  /\ \A x \in Models : models[m][x] # None => models[m][x] = nodes[m]

\* Every object is cached or waits to be deleted.
NoLeak ==
  /\ \A n \in Nodes : socketOf[n] # None => n \in doomed \/ \E m \in Modules : nodes[m] = n
  /\ \A r \in Replicas : made[r] # None => r \in doomed \/ replicas[made[r].module] = r

\* The caches of a view module are coherent whatever the host registers, in
\* whatever order, and however often the module crashes; and dropping them
\* leaks nothing.
CachesCoherent == (\A m \in Modules : Coherent(m)) /\ NoLeak

\* If the last readiness edge a view heard is wrong, a replica that is no longer the
\* module's gave it: the cached replica, the crash notification and, after a
\* reload, the replay never leave a view misinformed.
OnlyTheDroppedMislead ==
  \A m \in Modules \ unheard :
    heard[m].ready # Ready(m) => heard[m].by \notin {replicas[m], Crash, Nobody}
=============================================================================
