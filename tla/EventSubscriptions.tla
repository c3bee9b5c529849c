------------------------- MODULE EventSubscriptions -------------------------
(***************************************************************************)
(* LogosQmlBridge::onModuleEvent (src/LogosQmlBridge.cpp 675-780): the     *)
(* bridge's record of what it subscribed to, against the registry of the   *)
(* LogosAPIClient, which does not de-duplicate and may drop a subscription *)
(* underneath it.                                                          *)
(*                                                                         *)
(* The client is external.  It arms a subscription when the module appears *)
(* and may lose it again; it may abandon one, and says so later, or before *)
(* it has returned the id: nothing in the bridge excludes that.  Others    *)
(* may cancel one through it, which it does not report, and the callback   *)
(* of an armed one then stays attached.  Ids are never used twice.         *)
(***************************************************************************)
EXTENDS Naturals

CONSTANTS Modules, Events,
          MaxId       \* bound: subscriptions made

Keys        == Modules \X Events
ModuleOf(k) == k[1]

Ids  == 1..MaxId
NoId == 0

VARIABLES
  alive,        \* the bridge exists
  viewModules,  \* modules in m_viewModuleSockets
  record,       \* m_eventSubscriptions
  \* the client's
  nextId,
  keyOf,        \* what each id was subscribed for
  state,        \* eventSubscriptionState() of each id
  attached,     \* ids whose event callback hangs on a live handle
  verdicts,     \* ids whose armed=false is still to be delivered
  \* history
  answer,       \* what the view's last call was told, until the client drops one
  robbed,       \* keys whose record was erased by the verdict of an older id
  severed,      \* keys of which an armed subscription was cancelled
  stillborn     \* keys whose last subscription was abandoned before it had an id

clientVars == <<nextId, keyOf, state, attached, verdicts>>
historyVars == <<answer, robbed, severed, stillborn>>
vars == <<alive, viewModules, record, clientVars, historyVars>>

-----------------------------------------------------------------------------
TypeOK ==
  /\ alive \in BOOLEAN
  /\ viewModules \subseteq Modules
  /\ record \in [Keys -> Ids \cup {NoId}]
  /\ nextId \in 1..(MaxId + 1)
  /\ keyOf \in [1..(nextId - 1) -> Keys]
  /\ state \in [Ids -> {"unknown", "pending", "armed"}]
  /\ attached \subseteq Ids
  /\ verdicts \subseteq Ids
  /\ answer \in [Keys -> {"none", "refused", "accepted"}]
  /\ robbed \subseteq Keys
  /\ severed \subseteq Keys
  /\ stillborn \subseteq Keys

Init ==
  /\ alive = TRUE
  /\ viewModules = {}
  /\ record = [k \in Keys |-> NoId]
  /\ nextId = 1
  /\ keyOf = [i \in {} |-> 0]
  /\ state = [i \in Ids |-> "unknown"]
  /\ attached = {}
  /\ verdicts = {}
  /\ answer = [k \in Keys |-> "none"]
  /\ robbed = {}
  /\ severed = {}
  /\ stillborn = {}

-----------------------------------------------------------------------------
Tracks(i) == state[i] # "unknown"

\* Known, gone wrong: the record is trusted.
Known_Trusted(k) == record[k] # NoId

\* Known, gone wrong: nothing is de-duplicated.
Known_Never(k) == FALSE

\* Is there a record of k, and does the registry confirm it?
Known(k) == record[k] # NoId /\ Tracks(record[k])

Answer(k, told) == answer' = [answer EXCEPT ![k] = told]

\* No LogosAPI, an empty name, a view module, no client: false, and nothing is
\* recorded.  LogosAPI may fail to build a client at any time.
Refuse(k) ==
  /\ alive
  /\ Answer(k, "refused")
  /\ UNCHANGED <<alive, viewModules, record, clientVars, robbed, severed, stillborn>>

MaySubscribe(k) == alive /\ ModuleOf(k) \notin viewModules

\* onModuleEvent() of something the registry confirms: true, and nothing done.
Confirm(k) ==
  /\ MaySubscribe(k) /\ Known(k)
  /\ Answer(k, "accepted")
  /\ UNCHANGED <<alive, viewModules, record, clientVars, robbed, severed, stillborn>>

\* onEventWhenAvailable(): the new id is pending, armed at once, or abandoned
\* before the call returned it.
MakeId(k, s) ==
  /\ nextId <= MaxId
  /\ nextId' = nextId + 1
  /\ keyOf' = [i \in 1..nextId |-> IF i = nextId THEN k ELSE keyOf[i]]
  /\ state' = [state EXCEPT ![nextId] = s]
  /\ attached' = IF s = "armed" THEN attached \cup {nextId} ELSE attached
  /\ UNCHANGED verdicts

\* onModuleEvent() of something unknown, or known no more: a stale record is
\* dropped.  Whatever became of the new id by then, it is recorded after that, and
\* the answer is true; a verdict given in the call found no record to erase.
Subscribe(k, s) ==
  /\ MaySubscribe(k) /\ ~Known(k)
  /\ MakeId(k, s)
  /\ record' = [record EXCEPT ![k] = nextId]
  /\ Answer(k, "accepted")
  /\ stillborn' = IF s = "unknown" THEN stillborn \cup {k} ELSE stillborn \ {k}
  /\ UNCHANGED <<alive, viewModules, robbed, severed>>

\* The client refused (id 0): a stale record is gone all the same.
RefusedByClient(k) ==
  /\ MaySubscribe(k) /\ ~Known(k)
  /\ record' = [record EXCEPT ![k] = NoId]
  /\ Answer(k, "refused")
  /\ UNCHANGED <<alive, viewModules, clientVars, robbed, severed, stillborn>>

\* The verdict armed=false erases the record by key, whoever's it is by now.
Erased(k) == [record EXCEPT ![k] = NoId]

Verdict(i) ==
  LET k == keyOf[i]
  IN /\ i \in verdicts
     /\ verdicts' = verdicts \ {i}
     /\ record' = IF alive THEN Erased(k) ELSE record
     /\ robbed' = IF alive /\ record[k] \notin {NoId, i} THEN robbed \cup {k} ELSE robbed
     /\ UNCHANGED <<alive, viewModules, nextId, keyOf, state, attached, answer, severed, stillborn>>

\* setViewModuleSocket() of a module that views may have subscribed to.
RegisterViewModule(m) ==
  /\ alive
  /\ viewModules' = viewModules \cup {m}
  /\ UNCHANGED <<alive, record, clientVars, historyVars>>

\* ~LogosQmlBridge: nothing is cancelled, and the lambdas find no bridge.
DestroyBridge ==
  /\ alive
  /\ alive' = FALSE
  /\ UNCHANGED <<viewModules, record, clientVars, historyVars>>

-----------------------------------------------------------------------------
\* The client: the module becomes reachable, or ceases to be.
Arm(i) ==
  /\ state[i] = "pending"
  /\ state' = [state EXCEPT ![i] = "armed"]
  /\ attached' = attached \cup {i}
  /\ UNCHANGED <<alive, viewModules, record, nextId, keyOf, verdicts, historyVars>>

Disarm(i) ==
  /\ state[i] = "armed"
  /\ state' = [state EXCEPT ![i] = "pending"]
  /\ attached' = attached \ {i}
  /\ UNCHANGED <<alive, viewModules, record, nextId, keyOf, verdicts, historyVars>>

\* A pending subscription can never be armed: the registry forgets it, and the
\* bridge is told when the client gets round to it.
Abandon(i) ==
  /\ state[i] = "pending"
  /\ state' = [state EXCEPT ![i] = "unknown"]
  /\ verdicts' = verdicts \cup {i}
  /\ Answer(keyOf[i], "none")
  /\ UNCHANGED <<alive, viewModules, record, nextId, keyOf, attached, robbed, severed,
                 stillborn>>

\* cancelEventSubscription(): an armed one leaves its callback on the handle.
Cancel(i) ==
  /\ Tracks(i)
  /\ state' = [state EXCEPT ![i] = "unknown"]
  /\ severed' = IF state[i] = "armed" THEN severed \cup {keyOf[i]} ELSE severed
  /\ Answer(keyOf[i], "none")
  /\ UNCHANGED <<alive, viewModules, record, nextId, keyOf, attached, verdicts, robbed,
                 stillborn>>

Next ==
  \/ \E k \in Keys : Refuse(k) \/ Confirm(k) \/ RefusedByClient(k)
  \/ \E k \in Keys, s \in {"pending", "armed", "unknown"} : Subscribe(k, s)
  \/ \E i \in Ids : Verdict(i) \/ Arm(i) \/ Disarm(i) \/ Abandon(i) \/ Cancel(i)
  \/ \E m \in Modules : RegisterViewModule(m)
  \/ DestroyBridge

Spec == Init /\ [][Next]_vars

-----------------------------------------------------------------------------
Made       == 1..(nextId - 1)
Tracked(k) == {i \in Made : keyOf[i] = k /\ Tracks(i)}
Heard(k)   == {i \in attached : keyOf[i] = k}

AtMostOne(S) == \A i, j \in S : i = j

\* LogosQmlBridge.h 304: calling it twice "will not receive doubled events".
\* One subscription per event is tracked, and one callback attached, except
\* after the verdict of an older subscription erased the record of a younger
\* one (the next call then subscribes again), and except for the callback that
\* the cancellation of an armed subscription leaves behind.
OneSubscriptionPerEvent ==
  \A k \in Keys \ robbed :
    AtMostOne(Tracked(k)) /\ (k \notin severed => AtMostOne(Heard(k)))

\* "Verified against the registry, not assumed": a view that was told true has a
\* subscription, until the client drops one, unless the subscription was abandoned
\* before onEventWhenAvailable() returned it.
AcceptedIsTracked ==
  \A k \in Keys \ stillborn : answer[k] = "accepted" => Tracked(k) # {}

\* Listed, gone wrong: a module seen a second time is skipped altogether.
Listed_SeenOnce ==
  {i \in Made : /\ state[i] = "pending"
                /\ \E k \in Keys :
                     /\ record[k] # NoId /\ ModuleOf(k) = ModuleOf(keyOf[i])
                     /\ \A l \in Keys \ {k} : record[l] = NoId \/ ModuleOf(l) # ModuleOf(k)}

\* pendingEventSubscriptions(): what the clients of the modules on record have
\* pending.
Listed ==
  {i \in Made : /\ state[i] = "pending"
                /\ \E k \in Keys : record[k] # NoId /\ ModuleOf(k) = ModuleOf(keyOf[i])}

\* "Empty once every subscription is live", and not before: a subscription that
\* waits for its module is listed, unless its record was erased by mistake.
PendingIsListed ==
  alive => \A i \in Made : state[i] = "pending" /\ keyOf[i] \notin robbed => i \in Listed
=============================================================================
