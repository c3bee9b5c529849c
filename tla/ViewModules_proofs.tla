-------------------------- MODULE ViewModules_proofs --------------------------
(***************************************************************************)
(* ViewModules for any number of view modules, models and objects: the     *)
(* caches stay coherent, nothing leaks, and only a dropped replica         *)
(* misleads a view.                                                        *)
(***************************************************************************)
EXTENDS ViewModules, TLAPS

\* A node is made for a registered socket, and for one module.
NodeSound(m) ==
  /\ nodes[m] # None => sockets[m] # None
  /\ \A k \in Modules : nodes[m] # None /\ nodes[k] = nodes[m] => k = m

\* Only what exists waits to be deleted or is Valid, so an object made anew is
\* neither.
PoolSound ==
  /\ \A n \in Nodes : socketOf[n] = None => n \notin doomed
  /\ \A r \in Replicas : made[r] = None => r \notin doomed /\ r \notin valid

\* Who spoke last to the view of module m, and how that relates to readiness.
HeardSound(m) ==
  /\ heard[m].by \in Replicas =>
       made[heard[m].by] # None /\ made[heard[m].by].module = m
  /\ heard[m].by = replicas[m] => heard[m].ready = Ready(m)
  /\ heard[m].by \in {Crash, Nobody} => ~heard[m].ready
  /\ heard[m].by \in {Crash, Nobody} /\ Ready(m) => m \in unheard

\* The inductive invariant.
ViewInv ==
  /\ TypeOK
  /\ CachesCoherent
  /\ PoolSound
  /\ \A m \in Modules : NodeSound(m) /\ HeardSound(m)

-----------------------------------------------------------------------------
LEMMA InitInv == Init => ViewInv
BY ViewAssumptions
   DEF Init, ViewInv, TypeOK, Edge, Made, CachesCoherent, Coherent, NoLeak, PoolSound,
       NodeSound, HeardSound, Ready

\* A cached replica is there, alive, and knows its module.
LEMMA CachedReplica ==
  ASSUME ViewInv, NEW k \in Modules, replicas[k] # None
  PROVE  /\ replicas[k] \in Replicas \ doomed
         /\ made[replicas[k]] \in Made \ {None}
         /\ made[replicas[k]].module = k
<1>1. TypeOK /\ Coherent(k)
  BY DEF ViewInv, CachesCoherent
<1>2. nodes[k] \in Nodes /\ factories[k] \in Plugins
  BY <1>1 DEF TypeOK, Coherent
<1> QED
  BY <1>1, <1>2, ViewAssumptions DEF TypeOK, Coherent, Made

\* getOrCreateNode() disturbs no node in use; one it makes is new to everybody.
LEMMA NodeEffect ==
  ASSUME ViewInv, NEW m \in Modules, GetOrCreateNode(m)
  PROVE  /\ nodes' \in [Modules -> Nodes \cup {None}]
         /\ socketOf' \in [Nodes -> Sockets \cup {None}]
         /\ \A k \in Modules : nodes[k] # None =>
              nodes'[k] = nodes[k] /\ socketOf'[nodes[k]] = socketOf[nodes[k]]
         /\ \A k \in Modules : nodes'[k] # nodes[k] =>
              /\ k = m
              /\ nodes'[k] \in Nodes \ doomed
              /\ sockets[k] # None /\ socketOf'[nodes'[k]] = sockets[k]
              /\ \A j \in Modules : nodes[j] # nodes'[k]
         /\ \A p \in Nodes : socketOf'[p] # socketOf[p] => p = nodes'[m] /\ p \notin doomed
<1>0. nodes \in [Modules -> Nodes \cup {None}] /\ socketOf \in [Nodes -> Sockets \cup {None}]
  BY DEF ViewInv, TypeOK
<1>1. CASE nodes[m] = None /\ sockets[m] # None
  <2>1. PICK n \in Nodes : /\ socketOf[n] = None
                           /\ socketOf' = [socketOf EXCEPT ![n] = sockets[m]]
                           /\ nodes' = [nodes EXCEPT ![m] = n]
    BY <1>1 DEF GetOrCreateNode
  <2>2. ASSUME NEW k \in Modules, nodes[k] = n PROVE FALSE
    <3>1. nodes[k] # None /\ Coherent(k) /\ NodeSound(k)
      BY <2>2, ViewAssumptions DEF ViewInv, CachesCoherent
    <3> QED
      BY <2>1, <2>2, <3>1 DEF Coherent, NodeSound
  <2>3. n \notin doomed
    BY <2>1 DEF ViewInv, PoolSound
  <2>4. sockets[m] \in Sockets
    BY <1>1 DEF ViewInv, TypeOK
  <2>5. /\ nodes' \in [Modules -> Nodes \cup {None}]
        /\ nodes'[m] = n /\ \A k \in Modules : k # m => nodes'[k] = nodes[k]
    BY <1>0, <2>1
  <2>6. /\ socketOf' \in [Nodes -> Sockets \cup {None}]
        /\ socketOf'[n] = sockets[m] /\ \A p \in Nodes : p # n => socketOf'[p] = socketOf[p]
    BY <1>0, <2>1, <2>4
  <2>7. \A k \in Modules : nodes[k] # n /\ (nodes[k] # None => nodes[k] \in Nodes)
    BY <1>0, <2>2
  <2> QED
    BY <1>1, <2>3, <2>5, <2>6, <2>7
<1>2. CASE UNCHANGED <<nodes, socketOf>>
  BY <1>0, <1>2
<1> QED
  BY <1>1, <1>2 DEF GetOrCreateNode

\* module() may make a replica: one nobody knew, on the module's node and of its
\* factory, announced if it is Valid.
Acquired(m) ==
  \/ UNCHANGED <<replicas, made, valid, heard>>
  \/ /\ replicas[m] = None /\ nodes'[m] # None /\ factories'[m] # None
     /\ \E r \in Replicas : Acquire(m, nodes'[m], r)

\* What module() and model() build keeps the invariant.
LEMMA BuildInv ==
  ASSUME ViewInv, NEW m \in Modules, GetOrCreateNode(m), Acquired(m),
         factories' \in [Modules -> Plugins \cup {None}],
         \A k \in Modules : \/ factories'[k] = factories[k]
                            \/ factories[k] = None /\ factories'[k] = plugins[k],
         models' \in [Modules -> [Models -> Nodes \cup {None}]],
         \A k \in Modules, x \in Models : models'[k][x] \in {models[k][x], nodes'[k]},
         replaying' \subseteq Modules,
         UNCHANGED <<sockets, plugins, doomed, unheard, visiting>>
  PROVE  ViewInv'
<1>1. /\ TypeOK /\ NoLeak /\ PoolSound
      /\ \A k \in Modules : Coherent(k) /\ NodeSound(k) /\ HeardSound(k)
  BY DEF ViewInv, CachesCoherent
<1>2. /\ nodes' \in [Modules -> Nodes \cup {None}]
      /\ socketOf' \in [Nodes -> Sockets \cup {None}]
      /\ \A k \in Modules : nodes[k] # None =>
           nodes'[k] = nodes[k] /\ socketOf'[nodes[k]] = socketOf[nodes[k]]
      /\ \A k \in Modules : nodes'[k] # nodes[k] =>
           /\ k = m
           /\ nodes'[k] \in Nodes \ doomed
           /\ sockets[k] # None /\ socketOf'[nodes'[k]] = sockets[k]
           /\ \A j \in Modules : nodes[j] # nodes'[k]
      /\ \A p \in Nodes : socketOf'[p] # socketOf[p] => p = nodes'[m] /\ p \notin doomed
  BY NodeEffect
<1>3. ASSUME NEW k \in Modules
      PROVE  /\ NodeSound(k)'
             /\ nodes'[k] # None => nodes'[k] \notin doomed /\ socketOf'[nodes'[k]] = sockets[k]
             /\ factories'[k] # None => factories'[k] = plugins[k]
             /\ \A x \in Models : models'[k][x] # None => models'[k][x] = nodes'[k]
  <2>1. Coherent(k) /\ NodeSound(k)
    BY <1>1
  <2>2. nodes'[k] # None => nodes'[k] \notin doomed /\ socketOf'[nodes'[k]] = sockets[k]
    BY <1>2, <2>1 DEF Coherent
  <2>3. factories'[k] # None => factories'[k] = plugins[k]
    BY <2>1 DEF Coherent
  <2>4. \A x \in Models : models'[k][x] # None => models'[k][x] = nodes'[k]
    BY <1>2, <2>1 DEF Coherent
  <2>5. NodeSound(k)'
    BY <1>1, <1>2 DEF NodeSound
  <2> QED
    BY <2>2, <2>3, <2>4, <2>5
<1>4. \A n \in Nodes : /\ socketOf'[n] # None => n \in doomed \/ \E k \in Modules : nodes'[k] = n
                       /\ socketOf'[n] = None => n \notin doomed
  BY <1>1, <1>2, ViewAssumptions DEF NoLeak, PoolSound
<1>5. CASE UNCHANGED <<replicas, made, valid, heard>>
  <2>1. TypeOK'
    BY <1>1, <1>2, <1>5 DEF TypeOK
  <2>2. ASSUME NEW k \in Modules PROVE Coherent(k)' /\ HeardSound(k)'
    <3>1. HeardSound(k)'
      BY <1>1, <1>5 DEF HeardSound, Ready
    <3>2. replicas[k] # None => nodes'[k] = nodes[k] /\ factories'[k] = factories[k]
      BY <1>1, <1>2 DEF Coherent
    <3>3. Coherent(k)
      BY <1>1
    <3> QED
      BY <1>3, <1>5, <3>1, <3>2, <3>3 DEF Coherent
  <2>3. NoLeak' /\ PoolSound'
    BY <1>1, <1>4, <1>5 DEF NoLeak, PoolSound
  <2> QED
    BY <1>3, <2>1, <2>2, <2>3 DEF ViewInv, CachesCoherent
<1>6. ASSUME NEW r \in Replicas, Acquire(m, nodes'[m], r),
             replicas[m] = None, nodes'[m] # None, factories'[m] # None
      PROVE  ViewInv'
  <2> DEFINE new == [module |-> m, node |-> nodes'[m], plugin |-> factories'[m]]
  <2>1. /\ made[r] = None /\ r \notin doomed /\ r \notin valid
        /\ \A k \in Modules : replicas[k] # r /\ heard[k].by # r
    <3>1. made[r] = None /\ r # None
      BY <1>6, ViewAssumptions DEF Acquire
    <3>2. ASSUME NEW k \in Modules PROVE replicas[k] # r /\ heard[k].by # r
      <4>1. Coherent(k) /\ HeardSound(k)
        BY <1>1
      <4>2. replicas[k] # r
        BY <3>1, CachedReplica
      <4> QED
        BY <3>1, <4>1, <4>2 DEF HeardSound
    <3> QED
      BY <1>1, <3>1, <3>2 DEF PoolSound
  <2>2. new \in Made /\ new # None
    <3>1. nodes'[m] \in Nodes /\ factories'[m] \in Plugins
      BY <1>2, <1>6
    <3> QED
      BY <3>1, ViewAssumptions DEF Made
  <2>3. /\ made' \in [Replicas -> Made \cup {None}]
        /\ made'[r] = new
        /\ \A q \in Replicas : q # r => made'[q] = made[q]
    BY <1>1, <1>6, <2>2 DEF Acquire, TypeOK
  <2>4. /\ replicas' \in [Modules -> Replicas \cup {None}]
        /\ replicas'[m] = r
        /\ \A k \in Modules : k # m => replicas'[k] = replicas[k]
    BY <1>1, <1>6 DEF Acquire, TypeOK
  <2>5. /\ valid' \subseteq Replicas
        /\ \A q \in Replicas : q # r => (q \in valid' <=> q \in valid)
        /\ \/ r \in valid' /\ heard' = [heard EXCEPT ![m] = [ready |-> TRUE, by |-> r]]
           \/ r \notin valid' /\ heard' = heard
    BY <1>1, <1>6, <2>1 DEF Acquire, TypeOK, Emit
  <2>6. heard' \in [Modules -> Edge]
    <3>1. [ready |-> TRUE, by |-> r] \in Edge
      BY DEF Edge
    <3> QED
      BY <1>1, <2>5, <3>1 DEF TypeOK
  <2>7. TypeOK'
    BY <1>1, <1>2, <2>3, <2>4, <2>5, <2>6 DEF TypeOK
  <2>8. ASSUME NEW k \in Modules PROVE Coherent(k)'
    <3>1. CASE k = m
      BY <1>3, <1>6, <2>1, <2>3, <2>4, <3>1, ViewAssumptions DEF Coherent
    <3>2. CASE k # m
      <4>1. Coherent(k) /\ replicas[k] # r /\ replicas[k] \in Replicas \cup {None}
        BY <1>1, <2>1 DEF TypeOK
      <4>2. replicas[k] # None => nodes'[k] = nodes[k] /\ factories'[k] = factories[k]
        BY <1>2, <4>1 DEF Coherent
      <4> QED
        BY <1>3, <2>3, <2>4, <3>2, <4>1, <4>2 DEF Coherent
    <3> QED
      BY <3>1, <3>2
  <2>9. ASSUME NEW k \in Modules PROVE HeardSound(k)'
    <3>1. /\ HeardSound(k) /\ heard[k] \in Edge /\ replicas[k] \in Replicas \cup {None}
          /\ heard[k].by # r /\ replicas[k] # r
      BY <1>1, <2>1 DEF TypeOK
    <3>2. CASE heard' = heard /\ r \notin valid'
      BY <2>2, <2>3, <2>4, <2>5, <3>1, <3>2, ViewAssumptions DEF HeardSound, Ready, Edge
    <3>3. CASE r \in valid' /\ heard' = [heard EXCEPT ![m] = [ready |-> TRUE, by |-> r]]
      <4>1. CASE k = m
        <5>1. heard'[k] = [ready |-> TRUE, by |-> r] /\ replicas'[k] = r /\ Ready(k)'
          BY <1>1, <2>4, <3>3, <4>1 DEF TypeOK, Ready
        <5>2. made'[r] # None /\ made'[r].module = k /\ r \notin {Crash, Nobody}
          BY <2>2, <2>3, <4>1, ViewAssumptions
        <5> QED
          BY <5>1, <5>2 DEF HeardSound
      <4>2. CASE k # m
        <5>1. heard'[k] = heard[k] /\ replicas'[k] = replicas[k]
          BY <1>1, <2>4, <3>3, <4>2 DEF TypeOK
        <5>2. Ready(k)' = Ready(k)
          BY <1>1, <2>5, <3>1, <5>1, ViewAssumptions DEF Ready, TypeOK
        <5> QED
          BY <2>3, <3>1, <5>1, <5>2 DEF HeardSound
      <4> QED
        BY <4>1, <4>2
    <3> QED
      BY <2>5, <3>2, <3>3
  <2>10. ASSUME NEW q \in Replicas
         PROVE  /\ made'[q] # None => q \in doomed \/ replicas'[made'[q].module] = q
                /\ made'[q] = None => q \notin doomed /\ q \notin valid'
    <3>1. CASE q = r
      BY <2>2, <2>3, <2>4, <3>1
    <3>2. CASE q # r
      <4>1. made'[q] = made[q] /\ made[q] \in Made \cup {None}
        BY <1>1, <2>3, <3>2 DEF TypeOK
      <4>2. made[q] # None => made[q].module \in Modules
        BY <4>1 DEF Made
      <4> QED
        BY <1>1, <1>6, <2>4, <2>5, <3>2, <4>1, <4>2, ViewAssumptions DEF NoLeak, PoolSound
    <3> QED
      BY <3>1, <3>2
  <2>11. NoLeak' /\ PoolSound'
    BY <1>4, <2>10 DEF NoLeak, PoolSound
  <2> QED
    BY <1>3, <2>7, <2>8, <2>9, <2>11 DEF ViewInv, CachesCoherent
<1> QED
  BY <1>5, <1>6 DEF Acquired

LEMMA ModuleInv ==
  ASSUME ViewInv, NEW m \in Modules, Module(m)
  PROVE  ViewInv'
<1>1. /\ TypeOK /\ LoadFactory(m) /\ replicas[m] = None
      /\ UNCHANGED <<sockets, plugins, models, doomed, unheard, visiting>>
      /\ replaying' \subseteq Modules
  BY DEF ViewInv, TypeOK, Module, MayVisit
<1>2. /\ factories' \in [Modules -> Plugins \cup {None}]
      /\ \A k \in Modules : \/ factories'[k] = factories[k]
                            \/ factories[k] = None /\ factories'[k] = plugins[k]
  BY <1>1 DEF LoadFactory, TypeOK
<1>3. /\ models' \in [Modules -> [Models -> Nodes \cup {None}]]
      /\ \A k \in Modules, x \in Models : models'[k][x] \in {models[k][x], nodes'[k]}
  BY <1>1 DEF TypeOK
<1>4. Acquired(m)
  BY <1>1 DEF Module, Acquired
<1>5. CASE GetOrCreateNode(m)
  BY <1>1, <1>2, <1>3, <1>4, <1>5, BuildInv
<1>6. CASE UNCHANGED <<nodes, socketOf, replicas, made, valid, heard>>
  <2>1. TypeOK'
    BY <1>1, <1>2, <1>6 DEF TypeOK
  <2>2. ASSUME NEW k \in Modules PROVE Coherent(k)' /\ NodeSound(k)' /\ HeardSound(k)'
    <3>1. Coherent(k) /\ NodeSound(k) /\ HeardSound(k)
      BY DEF ViewInv, CachesCoherent
    <3>2. replicas[k] # None => factories'[k] = factories[k]
      BY <1>2, <3>1 DEF Coherent
    <3> QED
      BY <1>1, <1>2, <1>6, <3>1, <3>2 DEF Coherent, NodeSound, HeardSound, Ready
  <2>3. NoLeak' /\ PoolSound'
    BY <1>1, <1>6 DEF ViewInv, CachesCoherent, NoLeak, PoolSound
  <2> QED
    BY <2>1, <2>2, <2>3 DEF ViewInv, CachesCoherent
<1> QED
  BY <1>5, <1>6 DEF Module

LEMMA ModelInv ==
  ASSUME ViewInv, NEW m \in Modules, NEW x \in Models, Model(m, x)
  PROVE  ViewInv'
<1>1. /\ TypeOK /\ GetOrCreateNode(m)
      /\ UNCHANGED <<sockets, plugins, factories, replicas, made, valid, heard, doomed, unheard,
                     visiting>>
      /\ replaying' \subseteq Modules
  BY DEF ViewInv, TypeOK, Model, viewVars, replayVars
<1>2. /\ factories' \in [Modules -> Plugins \cup {None}]
      /\ \A k \in Modules : \/ factories'[k] = factories[k]
                            \/ factories[k] = None /\ factories'[k] = plugins[k]
  BY <1>1 DEF TypeOK
<1>3. nodes'[m] \in Nodes \cup {None}
  BY <1>1, NodeEffect
<1>4. /\ models' \in [Modules -> [Models -> Nodes \cup {None}]]
      /\ \A k \in Modules, y \in Models : models'[k][y] \in {models[k][y], nodes'[k]}
  <2>1. models \in [Modules -> [Models -> Nodes \cup {None}]]
    BY <1>1 DEF TypeOK
  <2>2. CASE UNCHANGED models
    BY <2>1, <2>2
  <2>3. CASE models' = [models EXCEPT ![m][x] = nodes'[m]]
    BY <1>3, <2>1, <2>3
  <2> QED
    BY <2>2, <2>3 DEF Model
<1> QED
  BY <1>1, <1>2, <1>4, BuildInv DEF Acquired

-----------------------------------------------------------------------------
\* Dropping the caches of m, whatever becomes of its socket, and with or
\* without the crash's edge.
LEMMA DropInv ==
  ASSUME ViewInv, NEW m \in Modules, DropViewModuleCaches(m),
         sockets' \in [Modules -> Sockets \cup {None}],
         \A k \in Modules \ {m} : sockets'[k] = sockets[k],
         heard' = heard \/ Emit(m, FALSE, Crash),
         UNCHANGED <<plugins, socketOf, made, valid>>
  PROVE  ViewInv'
<1>1. /\ TypeOK /\ NoLeak /\ PoolSound
      /\ \A k \in Modules : Coherent(k) /\ NodeSound(k) /\ HeardSound(k)
  BY DEF ViewInv, CachesCoherent
<1>2. /\ doomed' = doomed \cup ({replicas[m], nodes[m]} \ {None})
      /\ replicas'[m] = None /\ nodes'[m] = None /\ factories'[m] = None
      /\ \A x \in Models : models'[m][x] = None
      /\ \A k \in Modules \ {m} : /\ replicas'[k] = replicas[k] /\ nodes'[k] = nodes[k]
                                 /\ factories'[k] = factories[k] /\ models'[k] = models[k]
      /\ unheard' = unheard \ {m} /\ replaying' = replaying \ {m} /\ visiting' = visiting
  BY <1>1 DEF DropViewModuleCaches, Unvisit, TypeOK
<1>3. heard' \in [Modules -> Edge]
  <2>1. [ready |-> FALSE, by |-> Crash] \in Edge
    BY DEF Edge
  <2> QED
    BY <1>1, <2>1 DEF Emit, TypeOK
<1>4. TypeOK'
  BY <1>1, <1>2, <1>3 DEF TypeOK, DropViewModuleCaches
<1>5. /\ replicas[m] # None => replicas[m] \in Replicas /\ made[replicas[m]] # None
      /\ nodes[m] # None => nodes[m] \in Nodes /\ socketOf[nodes[m]] # None
  <2>1. Coherent(m) /\ NodeSound(m) /\ nodes[m] \in Nodes \cup {None}
    BY <1>1 DEF TypeOK
  <2>2. nodes[m] # None => nodes[m] \in Nodes /\ socketOf[nodes[m]] # None
    BY <2>1 DEF Coherent, NodeSound
  <2> QED
    BY <2>2, CachedReplica
<1>6. ASSUME NEW k \in Modules PROVE Coherent(k)' /\ NodeSound(k)' /\ HeardSound(k)'
  <2>1. Coherent(k) /\ NodeSound(k) /\ HeardSound(k) /\ heard[k] \in Edge
    BY <1>1 DEF TypeOK
  <2>2. CASE k = m
    <3>1. Coherent(k)' /\ NodeSound(k)'
      BY <1>2, <2>2 DEF Coherent, NodeSound
    <3>2. ~Ready(k)'
      BY <1>1, <1>2, <2>2, ViewAssumptions DEF Ready, TypeOK
    <3>3. heard'[k] = heard[k] \/ heard'[k] = [ready |-> FALSE, by |-> Crash]
      BY <1>1, <2>2 DEF Emit, TypeOK
    <3>4. heard[k].by # None /\ Crash \notin Replicas \cup {None}
      BY <2>1, ViewAssumptions DEF Edge
    <3> QED
      BY <1>2, <2>1, <2>2, <3>1, <3>2, <3>3, <3>4 DEF HeardSound
  <2>3. CASE k # m
    <3>1. heard'[k] = heard[k]
      BY <1>1, <2>3 DEF Emit, TypeOK
    <3>2. nodes[k] # None => nodes[k] \in Nodes \ doomed'
      BY <1>1, <1>2, <1>5, <2>1, <2>3, ViewAssumptions DEF Coherent, NodeSound, TypeOK
    <3>3. replicas[k] # None => replicas[k] \notin doomed'
      BY <1>2, <1>5, <2>3, CachedReplica, ViewAssumptions
    <3>4. NodeSound(k)'
      BY <1>2, <2>1, <2>3 DEF NodeSound
    <3>5. Coherent(k)'
      BY <1>2, <2>1, <2>3, <3>2, <3>3 DEF Coherent
    <3>6. HeardSound(k)'
      BY <1>2, <2>1, <2>3, <3>1 DEF HeardSound, Ready
    <3> QED
      BY <3>4, <3>5, <3>6
  <2> QED
    BY <2>2, <2>3
<1>7. NoLeak'
  <2>1. ASSUME NEW n \in Nodes, socketOf[n] # None
        PROVE  n \in doomed' \/ \E k \in Modules : nodes'[k] = n
    BY <1>1, <1>2, <2>1, ViewAssumptions DEF NoLeak
  <2>2. ASSUME NEW r \in Replicas, made[r] # None
        PROVE  r \in doomed' \/ replicas'[made[r].module] = r
    <3>1. made[r].module \in Modules
      BY <1>1, <2>2 DEF TypeOK, Made
    <3> QED
      BY <1>1, <1>2, <2>2, <3>1, ViewAssumptions DEF NoLeak
  <2> QED
    BY <2>1, <2>2 DEF NoLeak
<1>8. PoolSound'
  BY <1>1, <1>2, <1>5, ViewAssumptions DEF PoolSound
<1> QED
  BY <1>4, <1>6, <1>7, <1>8 DEF ViewInv, CachesCoherent

LEMMA SetViewModuleSocketInv ==
  ASSUME ViewInv, NEW m \in Modules, NEW s \in Sockets, SetViewModuleSocket(m, s)
  PROVE  ViewInv'
<1>1. TypeOK
  BY DEF ViewInv
<1>2. sockets' \in [Modules -> Sockets \cup {None}] /\ \A k \in Modules \ {m} : sockets'[k] = sockets[k]
  BY <1>1 DEF SetViewModuleSocket, TypeOK
<1> QED
  BY <1>2, DropInv DEF SetViewModuleSocket

LEMMA NotifyViewModuleCrashedInv ==
  ASSUME ViewInv, NEW m \in Modules, NotifyViewModuleCrashed(m)
  PROVE  ViewInv'
BY DropInv DEF NotifyViewModuleCrashed, ViewInv, TypeOK

\* Replacing the plugin drops the replica and the factory; the node and the
\* models, which know nothing of plugins, stay.
LEMMA SetViewReplicaPluginInv ==
  ASSUME ViewInv, NEW m \in Modules, NEW p \in Plugins, SetViewReplicaPlugin(m, p)
  PROVE  ViewInv'
<1>1. /\ TypeOK /\ NoLeak /\ PoolSound
      /\ \A k \in Modules : Coherent(k) /\ NodeSound(k) /\ HeardSound(k)
  BY DEF ViewInv, CachesCoherent
<1>2. /\ doomed' = doomed \cup ({replicas[m]} \ {None})
      /\ replicas'[m] = None /\ factories'[m] \in {p, None} /\ plugins'[m] = p
      /\ \A k \in Modules \ {m} : /\ replicas'[k] = replicas[k] /\ factories'[k] = factories[k]
                                 /\ plugins'[k] = plugins[k]
      /\ unheard' = unheard \ {m} /\ replaying' = replaying \ {m} /\ visiting' = visiting
      /\ UNCHANGED <<sockets, nodes, models, socketOf, made, valid, heard>>
  BY <1>1 DEF SetViewReplicaPlugin, Unvisit, TypeOK
<1>3. TypeOK'
  BY <1>1, <1>2 DEF TypeOK, SetViewReplicaPlugin
<1>4. replicas[m] # None => replicas[m] \in Replicas /\ made[replicas[m]] # None
  BY CachedReplica
<1>5. ASSUME NEW k \in Modules PROVE Coherent(k)' /\ NodeSound(k)' /\ HeardSound(k)'
  <2>1. Coherent(k) /\ NodeSound(k) /\ HeardSound(k) /\ heard[k] \in Edge
    BY <1>1 DEF TypeOK
  <2>2. nodes[k] # None => nodes[k] \in Nodes \ doomed'
    BY <1>1, <1>2, <1>4, <2>1, ViewAssumptions DEF Coherent, TypeOK
  <2>3. NodeSound(k)'
    BY <1>2, <2>1 DEF NodeSound
  <2>4. CASE k = m
    <3>1. Coherent(k)'
      BY <1>2, <2>1, <2>2, <2>4 DEF Coherent
    <3>2. ~Ready(k)' /\ heard[k].by # None
      BY <1>1, <1>2, <2>1, <2>4, ViewAssumptions DEF Ready, TypeOK, Edge
    <3> QED
      BY <1>2, <2>1, <2>3, <2>4, <3>1, <3>2 DEF HeardSound
  <2>5. CASE k # m
    <3>1. replicas[k] # None => replicas[k] \notin doomed'
      BY <1>2, <1>4, <2>5, CachedReplica
    <3>2. Coherent(k)'
      BY <1>2, <2>1, <2>2, <2>5, <3>1 DEF Coherent
    <3> QED
      BY <1>2, <2>1, <2>3, <2>5, <3>2 DEF HeardSound, Ready
  <2> QED
    BY <2>4, <2>5
<1>6. NoLeak'
  <2>1. ASSUME NEW r \in Replicas, made[r] # None
        PROVE  r \in doomed' \/ replicas'[made[r].module] = r
    <3>1. made[r].module \in Modules
      BY <1>1, <2>1 DEF TypeOK, Made
    <3> QED
      BY <1>1, <1>2, <2>1, <3>1, ViewAssumptions DEF NoLeak
  <2> QED
    BY <1>1, <1>2, <2>1 DEF NoLeak
<1>7. PoolSound'
  BY <1>1, <1>2, <1>4, ViewAssumptions DEF PoolSound
<1> QED
  BY <1>3, <1>5, <1>6, <1>7 DEF ViewInv, CachesCoherent

-----------------------------------------------------------------------------
\* A connection's edge reaches the view of one module, and the cached replica,
\* if it is on that connection, is the last to give it.
LEMMA StateChangesInv ==
  ASSUME ViewInv, NEW n \in Nodes, NEW ready \in BOOLEAN, StateChanges(n, ready)
  PROVE  ViewInv'
<1>1. /\ TypeOK /\ NoLeak /\ PoolSound
      /\ \A k \in Modules : Coherent(k) /\ NodeSound(k) /\ HeardSound(k)
  BY DEF ViewInv, CachesCoherent
<1>2. PICK r \in On(n) :
        /\ \A q \in On(n) : replicas[made[q].module] = q => r = q
        /\ heard' = [heard EXCEPT ![made[r].module] = [ready |-> ready, by |-> r]]
  BY DEF StateChanges, Emit
<1>3. /\ UNCHANGED <<sockets, plugins, factories, nodes, replicas, models, socketOf, made, doomed,
                     unheard, replaying, visiting>>
      /\ valid' = IF ready THEN valid \cup On(n) ELSE valid \ On(n)
  BY DEF StateChanges, cacheVars, replayVars
<1>4. /\ r \in Replicas /\ made[r] # None /\ made[r].module \in Modules
      /\ On(n) \subseteq {q \in Replicas : made[q] # None}
  BY <1>1, <1>2 DEF On, TypeOK, Made
<1>5. heard' \in [Modules -> Edge] /\ valid' \subseteq Replicas
  <2>1. [ready |-> ready, by |-> r] \in Edge
    BY <1>4 DEF Edge
  <2> QED
    BY <1>1, <1>2, <1>3, <1>4, <2>1 DEF TypeOK
<1>6. TypeOK'
  BY <1>1, <1>3, <1>5 DEF TypeOK
<1>7. ASSUME NEW k \in Modules PROVE HeardSound(k)'
  <2>1. HeardSound(k) /\ heard[k] \in Edge /\ replicas[k] \in Replicas \cup {None}
    BY <1>1 DEF TypeOK
  <2>2. replicas[k] # None => made[replicas[k]].module = k
    BY CachedReplica
  <2>3. None \notin valid'
    BY <1>5, ViewAssumptions
  <2>4. CASE replicas[k] \in On(n)
    <3>1. r = replicas[k] /\ made[r].module = k
      BY <1>2, <1>4, <2>2, <2>4, ViewAssumptions
    <3>2. heard'[k] = [ready |-> ready, by |-> r]
      BY <1>1, <1>2, <3>1 DEF TypeOK
    <3>3. r \notin {Crash, Nobody}
      BY <1>4, ViewAssumptions
    <3>4. heard'[k].by = r /\ heard'[k].ready = Ready(k)'
      <4>1. CASE ready = TRUE
        <5>1. heard'[k].by = r /\ heard'[k].ready = TRUE
          BY <3>2, <4>1
        <5>2. Ready(k)'
          BY <1>3, <2>4, <4>1 DEF Ready
        <5> QED
          BY <5>1, <5>2 DEF Ready
      <4>2. CASE ready = FALSE
        <5>1. heard'[k].by = r /\ heard'[k].ready = FALSE
          BY <3>2, <4>2
        <5>2. ~Ready(k)'
          BY <1>3, <2>4, <4>2 DEF Ready
        <5>3. Ready(k)' = FALSE
          BY <5>2 DEF Ready
        <5> QED
          BY <5>1, <5>3
      <4> QED
        BY <4>1, <4>2
    <3> QED
      BY <1>3, <1>4, <3>1, <3>3, <3>4 DEF HeardSound
  <2>5. CASE replicas[k] \notin On(n)
    <3>1. Ready(k)' = Ready(k)
      BY <1>3, <2>5 DEF Ready
    <3>2. CASE made[r].module = k
      <4>1. heard'[k] = [ready |-> ready, by |-> r]
        BY <1>1, <1>2, <3>2 DEF TypeOK
      <4>2. r \notin {Crash, Nobody} /\ r # replicas[k]
        BY <1>2, <1>4, <2>5, ViewAssumptions
      <4> QED
        BY <1>3, <1>4, <3>2, <4>1, <4>2 DEF HeardSound
    <3>3. CASE made[r].module # k
      <4>1. heard'[k] = heard[k]
        BY <1>1, <1>2, <1>4, <3>3 DEF TypeOK
      <4> QED
        BY <1>3, <2>1, <3>1, <4>1 DEF HeardSound
    <3> QED
      BY <3>2, <3>3
  <2> QED
    BY <2>4, <2>5
<1>8. \A k \in Modules : Coherent(k)' /\ NodeSound(k)'
  BY <1>1, <1>3 DEF Coherent, NodeSound
<1>9. NoLeak' /\ PoolSound'
  BY <1>1, <1>3, <1>4 DEF NoLeak, PoolSound
<1> QED
  BY <1>6, <1>7, <1>8, <1>9 DEF ViewInv, CachesCoherent

\* Deleting what waits for it touches nothing that is cached.
LEMMA LoopTurnsInv ==
  ASSUME ViewInv, LoopTurns
  PROVE  ViewInv'
<1>1. /\ TypeOK /\ NoLeak /\ PoolSound
      /\ \A k \in Modules : Coherent(k) /\ NodeSound(k) /\ HeardSound(k)
  BY DEF ViewInv, CachesCoherent
<1>2. /\ socketOf' = [n \in Nodes |-> IF n \in doomed THEN None ELSE socketOf[n]]
      /\ made' = [r \in Replicas |-> IF r \in doomed THEN None ELSE made[r]]
      /\ valid' = valid \ doomed /\ doomed' = {}
      /\ heard' = [m \in Modules |-> IF heard[m].by \in doomed
                                     THEN [heard[m] EXCEPT !.by = Gone] ELSE heard[m]]
      /\ UNCHANGED <<sockets, plugins, factories, nodes, replicas, models, unheard, replaying,
                     visiting>>
  BY DEF LoopTurns, cacheVars, replayVars
<1>3. ASSUME NEW k \in Modules
      PROVE  /\ heard'[k] \in Edge
             /\ heard'[k].ready = heard[k].ready
             /\ \/ heard'[k].by = Gone
                \/ heard'[k].by = heard[k].by /\ heard[k].by \notin doomed
  <2>1. heard[k] \in Edge
    BY <1>1 DEF TypeOK
  <2> QED
    BY <1>2, <2>1 DEF Edge
<1>4. TypeOK'
  BY <1>1, <1>2, <1>3 DEF TypeOK
<1>5. ASSUME NEW k \in Modules PROVE Coherent(k)' /\ NodeSound(k)' /\ HeardSound(k)'
  <2>1. /\ Coherent(k) /\ NodeSound(k) /\ HeardSound(k)
        /\ heard[k] \in Edge /\ nodes[k] \in Nodes \cup {None}
    BY <1>1 DEF TypeOK
  <2>2. Coherent(k)' /\ NodeSound(k)'
    <3>1. replicas[k] # None => made'[replicas[k]] = made[replicas[k]]
      BY <1>2, CachedReplica
    <3> QED
      BY <1>2, <2>1, <3>1 DEF Coherent, NodeSound
  <2>3. Ready(k)' = Ready(k)
    <3>1. replicas[k] = None \/ replicas[k] \notin doomed
      BY CachedReplica
    <3> QED
      BY <1>1, <1>2, <3>1, ViewAssumptions DEF Ready, TypeOK
  <2>4. Gone # replicas[k] /\ Gone \notin Replicas
    BY <1>1, ViewAssumptions DEF TypeOK
  <2>5. CASE heard'[k].by = Gone
    BY <1>2, <2>2, <2>4, <2>5, ViewAssumptions DEF HeardSound
  <2>6. CASE heard'[k].by = heard[k].by /\ heard[k].by \notin doomed
    BY <1>2, <1>3, <2>1, <2>2, <2>3, <2>6 DEF HeardSound
  <2> QED
    BY <1>3, <2>5, <2>6
<1>6. NoLeak' /\ PoolSound'
  BY <1>1, <1>2 DEF NoLeak, PoolSound
<1> QED
  BY <1>4, <1>5, <1>6 DEF ViewInv, CachesCoherent

\* The view is built anew, and what it awaits to hear is what is cached.
LEMMA ReloadInv ==
  ASSUME ViewInv, Reload
  PROVE  ViewInv'
<1>1. TypeOK /\ \A k \in Modules : HeardSound(k)
  BY DEF ViewInv
<1>2. /\ heard' = [m \in Modules |-> [ready |-> FALSE, by |-> Nobody]]
      /\ unheard' = {m \in Modules : replicas[m] # None}
      /\ UNCHANGED <<sockets, plugins, factories, nodes, replicas, models, socketOf, made, valid,
                     doomed, replaying, visiting>>
  BY DEF Reload, cacheVars, objectVars
<1>3. TypeOK'
  BY <1>1, <1>2 DEF TypeOK, Edge
<1>4. ASSUME NEW k \in Modules PROVE HeardSound(k)'
  <2>1. heard'[k] = [ready |-> FALSE, by |-> Nobody] /\ Nobody \notin Replicas \cup {None}
    BY <1>2, ViewAssumptions
  <2>2. replicas[k] # Nobody /\ (Ready(k)' => k \in unheard')
    BY <1>1, <1>2, <2>1, ViewAssumptions DEF TypeOK, Ready
  <2> QED
    BY <1>2, <2>1, <2>2 DEF HeardSound
<1>5. CachesCoherent' /\ PoolSound' /\ \A k \in Modules : NodeSound(k)'
  BY <1>2 DEF ViewInv, CachesCoherent, Coherent, NoLeak, PoolSound, NodeSound
<1> QED
  BY <1>3, <1>4, <1>5 DEF ViewInv

\* Replay owes nothing to a module without a replica.
LEMMA ReplayViewModuleStateInv ==
  ASSUME ViewInv, ReplayViewModuleState
  PROVE  ViewInv'
<1>1. TypeOK /\ \A k \in Modules : HeardSound(k)
  BY DEF ViewInv
<1>2. /\ replaying' = {m \in Modules : replicas[m] # None}
      /\ unheard' = unheard \cap replaying'
      /\ UNCHANGED <<sockets, plugins, factories, nodes, replicas, models, socketOf, made, valid,
                     doomed, heard, visiting>>
  BY DEF ReplayViewModuleState, cacheVars, objectVars
<1>3. TypeOK'
  BY <1>1, <1>2 DEF TypeOK
<1>4. ASSUME NEW k \in Modules PROVE HeardSound(k)'
  <2>1. Ready(k) => replicas[k] # None
    BY <1>1, ViewAssumptions DEF Ready, TypeOK
  <2> QED
    BY <1>1, <1>2, <2>1 DEF HeardSound, Ready
<1>5. CachesCoherent' /\ PoolSound' /\ \A k \in Modules : NodeSound(k)'
  BY <1>2 DEF ViewInv, CachesCoherent, Coherent, NoLeak, PoolSound, NodeSound
<1> QED
  BY <1>3, <1>4, <1>5 DEF ViewInv

LEMMA ReplayNextInv ==
  ASSUME ViewInv, NEW m \in Modules, ReplayNext(m)
  PROVE  ViewInv'
<1>1. TypeOK /\ \A k \in Modules : HeardSound(k)
  BY DEF ViewInv
<1>2. /\ replaying' = replaying \ {m} /\ unheard' = unheard \ {m}
      /\ visiting' \in Modules \cup {None}
      /\ UNCHANGED <<sockets, plugins, factories, nodes, replicas, models, socketOf, made, valid,
                     doomed>>
  BY DEF ReplayNext, cacheVars, objectVars
<1>3. CASE Ready(m)
  <2>1. heard' = [heard EXCEPT ![m] = [ready |-> TRUE, by |-> replicas[m]]]
    BY <1>3 DEF ReplayNext, Emit
  <2>2. replicas[m] \in Replicas /\ replicas[m] # None
    BY <1>1, <1>3, ViewAssumptions DEF Ready, TypeOK
  <2>3. heard' \in [Modules -> Edge]
    <3>1. [ready |-> TRUE, by |-> replicas[m]] \in Edge
      BY <2>2 DEF Edge
    <3> QED
      BY <1>1, <2>1, <3>1 DEF TypeOK
  <2>4. TypeOK'
    BY <1>1, <1>2, <2>3 DEF TypeOK
  <2>5. ASSUME NEW k \in Modules PROVE HeardSound(k)'
    <3>1. CASE k = m
      <4>1. heard'[k].ready = TRUE /\ heard'[k].by = replicas[m]
        BY <1>1, <2>1, <3>1 DEF TypeOK
      <4>2. Ready(k)' = TRUE
        BY <1>2, <1>3, <3>1 DEF Ready
      <4>3. made[replicas[m]] # None /\ made[replicas[m]].module = m
        BY <2>2, CachedReplica
      <4> QED
        BY <1>2, <2>2, <3>1, <4>1, <4>2, <4>3, ViewAssumptions DEF HeardSound
    <3>2. CASE k # m
      <4>1. heard'[k] = heard[k]
        BY <1>1, <2>1, <3>2 DEF TypeOK
      <4> QED
        BY <1>1, <1>2, <3>2, <4>1 DEF HeardSound, Ready
    <3> QED
      BY <3>1, <3>2
  <2> QED
    BY <1>2, <2>4, <2>5 DEF ViewInv, CachesCoherent, Coherent, NoLeak, PoolSound, NodeSound
<1>4. CASE ~Ready(m)
  <2>1. heard' = heard
    BY <1>4 DEF ReplayNext
  <2>2. TypeOK'
    BY <1>1, <1>2, <2>1 DEF TypeOK
  <2>3. \A k \in Modules : HeardSound(k)'
    BY <1>1, <1>2, <1>4, <2>1 DEF HeardSound, Ready
  <2> QED
    BY <1>2, <2>2, <2>3 DEF ViewInv, CachesCoherent, Coherent, NoLeak, PoolSound, NodeSound
<1> QED
  BY <1>3, <1>4

\* The end of a replay changes nothing that a view can hear or reach.
LEMMA ReplayEndsInv ==
  ASSUME ViewInv, ReplayEnds
  PROVE  ViewInv'
BY DEF ReplayEnds, cacheVars, objectVars, ViewInv, TypeOK, CachesCoherent, Coherent, NoLeak,
       PoolSound, NodeSound, HeardSound, Ready

-----------------------------------------------------------------------------
LEMMA NextInv ==
  ASSUME ViewInv, [Next]_vars
  PROVE  ViewInv'
<1>1. CASE UNCHANGED vars
  BY <1>1 DEF vars, cacheVars, objectVars, viewVars, replayVars, ViewInv, TypeOK, CachesCoherent, Coherent,
              NoLeak, PoolSound, NodeSound, HeardSound, Ready
<1>2. CASE Next
  BY <1>2, ModuleInv, ModelInv, SetViewModuleSocketInv, SetViewReplicaPluginInv,
     NotifyViewModuleCrashedInv, ReplayNextInv, StateChangesInv, LoopTurnsInv, ReloadInv,
     ReplayViewModuleStateInv, ReplayEndsInv DEF Next
<1> QED
  BY <1>1, <1>2

\* The caches, the objects and what the views heard are sound in every state.
THEOREM ViewsSound == Spec => []ViewInv
BY InitInv, NextInv, PTL DEF Spec

\* Every variable keeps its type.
THEOREM ViewTypes == Spec => []TypeOK
<1>1. ViewInv => TypeOK
  BY DEF ViewInv
<1> QED
  BY <1>1, ViewsSound, PTL

\* Whatever is registered, crashes or is replaced, what module() and model()
\* hand out belongs to the registered socket and plugin, and nothing leaks.
THEOREM Coherence == Spec => []CachesCoherent
<1>1. ViewInv => CachesCoherent
  BY DEF ViewInv
<1> QED
  BY <1>1, ViewsSound, PTL

\* A view that is wrong about readiness was told so by a dropped replica.
THEOREM Readiness == Spec => []OnlyTheDroppedMislead
<1>1. ViewInv => OnlyTheDroppedMislead
  <2> SUFFICES ASSUME ViewInv, NEW m \in Modules \ unheard, heard[m].ready # Ready(m)
               PROVE  heard[m].by \notin {replicas[m], Crash, Nobody}
    BY DEF OnlyTheDroppedMislead
  <2>1. HeardSound(m)
    BY DEF ViewInv
  <2>2. heard[m].ready \in BOOLEAN /\ Ready(m) \in BOOLEAN
    BY DEF ViewInv, TypeOK, Edge, Ready
  <2>3. ASSUME heard[m].by \in {Crash, Nobody} PROVE FALSE
    <3>1. heard[m].ready = FALSE /\ Ready(m) = FALSE
      BY <2>1, <2>2, <2>3 DEF HeardSound
    <3> QED
      BY <3>1
  <2>4. heard[m].by # replicas[m]
    BY <2>1 DEF HeardSound
  <2> QED
    BY <2>3, <2>4
<1> QED
  BY <1>1, ViewsSound, PTL
=============================================================================
