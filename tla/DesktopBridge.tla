---------------------------- MODULE DesktopBridge ----------------------------
(***************************************************************************)
(* LogosQmlBridge towards backend modules: the calls (ModuleCalls) and the *)
(* event subscriptions (EventSubscriptions) of one bridge, which dies once *)
(* for both and refuses in both the modules it knows as view modules.      *)
(***************************************************************************)
EXTENDS ModuleCalls

CONSTANTS Modules, Events,
          MaxId       \* bound: subscriptions made

ASSUME DesktopAssumptions == MaxId \in Nat

VARIABLES viewModules, record, nextId, keyOf, state, attached, verdicts,
          answer, robbed, severed, stillborn

subscriptionVars ==
  <<viewModules, record, nextId, keyOf, state, attached, verdicts,
    answer, robbed, severed, stillborn>>

Sub == INSTANCE EventSubscriptions

\* A call is refused as one to a view module only if some module is one.
CallMoves ==
  \/ \E c \in Calls, f \in BOOLEAN, why \in Refusals :
       Refuse(c, f, why) /\ (why = "view module" => viewModules # {})
  \/ \E c \in Calls, f \in BOOLEAN, kind \in {"call", "wait"} : HoldCall(c, f, kind)
  \/ \E c \in Calls : TimerFires(c)
  \/ \E c \in Calls, ready \in BOOLEAN : ObjectAvailable(c, ready)
  \/ \E c \in Calls, outcome \in Replies : Reply(c, outcome)

SubscriptionMoves ==
  \/ \E k \in Sub!Keys :
       Sub!Refuse(k) \/ Sub!Confirm(k) \/ Sub!RefusedByClient(k)
  \/ \E k \in Sub!Keys, s \in {"pending", "armed", "unknown"} : Sub!Subscribe(k, s)
  \/ \E i \in Sub!Ids :
       \/ Sub!Verdict(i) \/ Sub!Arm(i) \/ Sub!Disarm(i)
       \/ Sub!Abandon(i) \/ Sub!Cancel(i)
  \/ \E m \in Modules : Sub!RegisterViewModule(m)

DesktopInit == Init /\ Sub!Init

DesktopNext ==
  \/ CallMoves /\ UNCHANGED subscriptionVars
  \/ SubscriptionMoves /\ UNCHANGED vars
  \/ DestroyBridge /\ Sub!DestroyBridge

DesktopSpec == DesktopInit /\ [][DesktopNext]_<<vars, subscriptionVars>>

FairDesktopSpec == DesktopSpec /\ Fairness

-----------------------------------------------------------------------------
\* A view does not get an event twice.
OneSubscriptionPerEvent == Sub!OneSubscriptionPerEvent

\* A view that was told true has a subscription, until the client drops one, or
\* unless the client abandoned it before the call was over.
AcceptedIsTracked == Sub!AcceptedIsTracked

\* What waits for its module is listed by pendingEventSubscriptions().
PendingIsListed == Sub!PendingIsListed
=============================================================================
