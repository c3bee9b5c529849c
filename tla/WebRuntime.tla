----------------------------- MODULE WebRuntime -----------------------------
(***************************************************************************)
(* LogosWebRuntime (src/LogosWebRuntime.cpp) and the half of its           *)
(* LogosWebBridge that hands views their backends: module views that come, *)
(* are replaced and go, in one thread, with the application's own code run *)
(* in the middle of it.                                                    *)
(*                                                                         *)
(* installModuleView() and removeModuleView() are invokable, and `runtime` *)
(* is in the root context: QML may call them again from a view's           *)
(* onCompleted or onDestruction and from the slots of every signal.  The   *)
(* calls in progress are a stack of frames.                                *)
(*                                                                         *)
(* A view stands for its context too, unless creating it failed.  Not      *)
(* modelled: a view that destroys the runtime, a handler that calls into a *)
(* runtime being destroyed (both undefined), what describeItem() reads.    *)
(***************************************************************************)
EXTENDS Naturals, Sequences

CONSTANTS Modules,
          MaxViews,   \* bound: views ever created
          MaxDepth    \* bound: frames on which the application calls again

ASSUME RuntimeAssumptions == MaxViews \in Nat /\ MaxDepth \in Nat

Views  == 1..MaxViews
NoView == 0

VARIABLES
  parts,      \* of m_bridge, m_node: the ones that exist
  views,      \* m_views
  listed,     \* m_order: how often it lists each module
  lastError,  \* m_lastError is not empty
  stack,      \* calls in progress, the innermost first
  nextView,
  moduleOf,   \* the module each view was made for
  live,       \* view objects
  contexts,   \* their contexts
  replica,    \* m_replicas, and the state of each
  asked,      \* views that listen, and have called logos.module()
  backend,    \* views that hold their replica
  usurped     \* history: modules installed from a handler that the removal of
              \* their view, by an install of theirs, had run

viewVars   == <<views, listed, lastError, nextView, moduleOf, live, contexts, usurped>>
bridgeVars == <<replica, asked, backend>>
vars       == <<parts, stack, viewVars, bridgeVars>>

-----------------------------------------------------------------------------
Frame == [op : {"install", "remove"}, module : Modules, view : Views \cup {NoView},
          at : {"creating", "adopting", "announcing", "destroying", "changed", "failed"}]

TypeOK ==
  /\ parts \subseteq {"bridge", "node"}
  /\ views \in [Modules -> Views \cup {NoView}]
  /\ listed \in [Modules -> Nat]
  /\ lastError \in BOOLEAN
  /\ stack \in Seq(Frame)
  /\ nextView \in 1..(MaxViews + 1)
  /\ moduleOf \in Seq(Modules) /\ Len(moduleOf) = nextView - 1
  /\ live \subseteq 1..(nextView - 1)
  /\ contexts \subseteq 1..(nextView - 1)
  /\ replica \in [Modules -> {"none", "waiting", "valid"}]
  /\ asked \subseteq live
  /\ backend \subseteq live
  /\ usurped \subseteq Modules

\* main(): the runtime is built, with its bridge and its node, before the scene.
Init ==
  /\ parts = {"bridge", "node"}
  /\ views = [m \in Modules |-> NoView]
  /\ listed = [m \in Modules |-> 0]
  /\ lastError = FALSE
  /\ stack = <<>>
  /\ nextView = 1
  /\ moduleOf = <<>>
  /\ live = {}
  /\ contexts = {}
  /\ replica = [m \in Modules |-> "none"]
  /\ asked = {}
  /\ backend = {}
  /\ usurped = {}

-----------------------------------------------------------------------------
Top == Head(stack)

\* Nothing is in progress, or a handler or slot of the application runs.
AtApplication ==
  /\ "bridge" \in parts
  /\ stack # <<>> => Top.at # "adopting"
MayCall == AtApplication /\ Len(stack) < MaxDepth

At(at)  == stack # <<>> /\ Top.at = at
To(at)  == [Top EXCEPT !.at = at]
Call(op, m, v, at) == [op |-> op, module |-> m, view |-> v, at |-> at]

\* installModuleView() of a document that does not compile (or no name, no
\* engine): the installed view is left alone, the signal is emitted.
InstallFails(m) ==
  /\ MayCall
  /\ stack' = <<Call("install", m, NoView, "failed")>> \o stack
  /\ lastError' = TRUE
  /\ UNCHANGED <<parts, views, listed, nextView, moduleOf, live, contexts, usurped, bridgeVars>>

\* One that compiles: its bindings and onCompleted run while it is created.
Install(m) ==
  /\ MayCall /\ nextView <= MaxViews
  /\ stack' = <<Call("install", m, nextView, "creating")>> \o stack
  /\ nextView' = nextView + 1
  /\ moduleOf' = Append(moduleOf, m)
  /\ live' = live \cup {nextView}
  /\ contexts' = contexts \cup {nextView}
  /\ UNCHANGED <<parts, views, listed, lastError, usurped, bridgeVars>>

\* It created no object; the context goes when the call returns.
CreatedNothing ==
  /\ At("creating")
  /\ stack' = <<To("failed")>> \o Tail(stack)
  /\ lastError' = TRUE
  /\ live' = live \ {Top.view}
  /\ asked' = asked \ {Top.view}
  /\ backend' = backend \ {Top.view}
  /\ UNCHANGED <<parts, views, listed, nextView, moduleOf, contexts, replica, usurped>>

\* removeModuleView(): the module is forgotten before its view is destroyed.
Forget(m) ==
  /\ views' = [views EXCEPT ![m] = NoView]
  /\ listed' = [listed EXCEPT ![m] = 0]

\* BeginRemove, gone wrong: the view is destroyed and not forgotten.
BeginRemove_KeepsRecord(m, frames) ==
  /\ UNCHANGED <<views, listed>>
  /\ stack' = <<Call("remove", m, views[m], "destroying")>> \o frames

BeginRemove(m, frames) ==
  /\ Forget(m)
  /\ stack' = <<Call("remove", m, views[m], "destroying")>> \o frames

Remove(m) ==
  /\ MayCall /\ views[m] # NoView
  /\ BeginRemove(m, stack)
  /\ UNCHANGED <<parts, lastError, nextView, moduleOf, live, contexts, usurped, bridgeVars>>

\* Replace, gone wrong: the new view is stacked on the old one.
Replace_Stack(m, frames) == stack' = frames /\ UNCHANGED <<views, listed>>

\* "Replace rather than stack": what is installed under the name by now goes.
Replace(m, frames) ==
  IF views[m] = NoView THEN stack' = frames /\ UNCHANGED <<views, listed>>
                       ELSE BeginRemove(m, frames)

Created ==
  /\ At("creating")
  /\ Replace(Top.module, <<To("adopting")>> \o Tail(stack))
  /\ UNCHANGED <<parts, lastError, nextView, moduleOf, live, contexts, usurped, bridgeVars>>

\* destroyView(): onDestruction has run; the view goes, and then its context.
Destroyed ==
  /\ At("destroying")
  /\ stack' = <<To("changed")>> \o Tail(stack)
  /\ live' = live \ {Top.view}
  /\ contexts' = contexts \ {Top.view}
  /\ asked' = asked \ {Top.view}
  /\ backend' = backend \ {Top.view}
  /\ UNCHANGED <<parts, views, listed, lastError, nextView, moduleOf, replica, usurped>>

\* An outer install of m has removed what there was to remove.
PastRemoval(m) ==
  \E i \in 2..Len(stack) :
    stack[i].op = "install" /\ stack[i].module = m /\ stack[i].at = "adopting"

\* The new view is inserted under its name, whatever happened to the name since
\* it was cleared.
Adopt ==
  LET m == Top.module
  IN /\ At("adopting")
     /\ stack' = <<To("announcing")>> \o Tail(stack)
     /\ views' = [views EXCEPT ![m] = Top.view]
     /\ listed' = [listed EXCEPT ![m] = @ + 1]
     /\ lastError' = FALSE
     /\ usurped' = IF PastRemoval(m) THEN usurped \cup {m} ELSE usurped
     /\ UNCHANGED <<parts, nextView, moduleOf, live, contexts, bridgeVars>>

\* moduleViewInstalled() has run its slots; installedModulesChanged() is next.
Announced ==
  /\ At("announcing")
  /\ stack' = <<To("changed")>> \o Tail(stack)
  /\ UNCHANGED <<parts, viewVars, bridgeVars>>

\* The unique_ptr of a failed install destroys its context.
DropContext == IF Top.at = "failed" THEN contexts \ {Top.view} ELSE contexts

\* The last slots have run, and the call returns.
Return ==
  /\ At("changed") \/ At("failed")
  /\ stack' = Tail(stack)
  /\ contexts' = DropContext
  /\ UNCHANGED <<parts, views, listed, lastError, nextView, moduleOf, live, usurped, bridgeVars>>

-----------------------------------------------------------------------------
\* module() answers null until the replica is valid.
Answered(v) == replica[moduleOf[v]] = "valid"

\* replicaFor(): one replica per module, acquired by the first who asks.
ReplicaFor(m) == [replica EXCEPT ![m] = IF @ = "none" THEN "waiting" ELSE @]

\* A view connects to viewModuleReadyChanged and calls logos.module().
Ask(v) ==
  /\ AtApplication
  /\ replica' = ReplicaFor(moduleOf[v])
  /\ asked' = asked \cup {v}
  /\ backend' = IF Answered(v) THEN backend \cup {v} ELSE backend
  /\ UNCHANGED <<parts, stack, viewVars>>

\* Hearing, gone wrong: the views that were installed when it came.
Hearing_Installed(m) == {v \in asked : views[m] = v}

\* viewModuleReadyChanged(m, true) is heard by every view that listens, and each
\* takes its backend.
Hearing(m) == {v \in asked : moduleOf[v] = m}

\* The node: the source's meta arrives, or the wire is lost.  The event loop
\* runs only when no call is in progress.
ReplicaBecomes(m, s) ==
  /\ "bridge" \in parts /\ stack = <<>>
  /\ replica[m] \notin {"none", s}
  /\ replica' = [replica EXCEPT ![m] = s]
  /\ backend' = IF s = "valid" THEN backend \cup Hearing(m) ELSE backend
  /\ UNCHANGED <<parts, stack, viewVars, asked>>

-----------------------------------------------------------------------------
\* ~LogosWebRuntime: the views on record, then the bridge with its replicas,
\* then the node.
DestroyViews ==
  /\ parts = {"bridge", "node"} /\ stack = <<>>
  /\ \E m \in Modules : views[m] # NoView
  /\ LET installed == {views[m] : m \in Modules}
     IN /\ live' = live \ installed
        /\ contexts' = contexts \ installed
        /\ asked' = asked \ installed
        /\ backend' = backend \ installed
  /\ views' = [m \in Modules |-> NoView]
  /\ listed' = [m \in Modules |-> 0]
  /\ UNCHANGED <<parts, stack, lastError, nextView, moduleOf, replica, usurped>>

\* NextPart, gone wrong: ~QObject's listed, the node first.
NextPart_AsAdded == IF "node" \in parts THEN "node" ELSE "bridge"

NextPart == IF "bridge" \in parts THEN "bridge" ELSE "node"

DeletePart ==
  /\ parts # {} /\ stack = <<>>
  /\ \A m \in Modules : views[m] = NoView
  /\ parts' = parts \ {NextPart}
  /\ replica' = IF NextPart = "bridge" THEN [m \in Modules |-> "none"] ELSE replica
  /\ UNCHANGED <<stack, viewVars, asked, backend>>

\* ~QObject: a view that was lost track of is still the runtime's child.
DeleteChildren ==
  /\ parts = {} /\ live # {}
  /\ live' = {} /\ contexts' = {} /\ asked' = {} /\ backend' = {}
  /\ UNCHANGED <<parts, stack, views, listed, lastError, nextView, moduleOf, replica, usurped>>

Next ==
  \/ \E m \in Modules : InstallFails(m) \/ Install(m) \/ Remove(m)
  \/ CreatedNothing \/ Created \/ Destroyed \/ Adopt \/ Announced \/ Return
  \/ \E v \in live : Ask(v)
  \/ \E m \in Modules, s \in {"waiting", "valid"} : ReplicaBecomes(m, s)
  \/ DestroyViews
  \/ DeletePart
  \/ DeleteChildren

Spec == Init /\ [][Next]_vars

-----------------------------------------------------------------------------
Range(f)     == {f[i] : i \in DOMAIN f}
Installed    == Range(views) \ {NoView}
InProgress   == {f.view : f \in {g \in Range(stack) : g.at \in {"creating", "adopting", "destroying"}}}
Failing      == {f.view : f \in {g \in Range(stack) : g.at = "failed"}}

\* A view on record is alive and in its context: what moduleView() returns and
\* what the next removal destroys was not destroyed before, however deep in
\* handlers the two calls came.
InstalledIsAlive == Installed \subseteq live \cap contexts

\* "Never a second copy of the same module on screen", and no view and no
\* context that nobody will ever destroy: each is on record or in the hands of
\* a call in progress, and installedModules() lists the modules on record, each
\* once.  Only a call that a handler made, and that put a view under the name of
\* an install past removing the old one, makes a module an exception.
NothingStray ==
  /\ \A v \in live \cup contexts :
       \/ v \in Installed \cup InProgress
       \/ v \in Failing /\ v \notin live
       \/ moduleOf[v] \in usurped
  /\ \A m \in Modules :
       /\ listed[m] > 0 <=> views[m] # NoView
       /\ listed[m] > 1 => m \in usurped

\* A view that asked for its backend holds it whenever the backend is there: no
\* order of asking, acquiring, losing and replacing leaves it waiting for an
\* edge that has passed.
BackendReachesView == \A v \in asked : replica[moduleOf[v]] = "valid" => v \in backend

\* Teardown, innermost first: a recorded view with a backend has the bridge that
\* owns it, and a replica has its node.
UsersGoFirst ==
  /\ \A m \in Modules : replica[m] # "none" => "node" \in parts
  /\ backend \cap Installed # {} => "bridge" \in parts
=============================================================================
