------------------------------ MODULE WebBridge ------------------------------
(***************************************************************************)
(* LogosWebBridge as a view knows it: backend calls (WebCalls) and watched *)
(* slot calls (Watch) of one bridge, which dies once for both.             *)
(***************************************************************************)
EXTENDS WebCalls

CONSTANT SlotCalls   \* the view's slot calls

VARIABLES reply, watchers, watched, told

watchVars == <<reply, watchers, watched, told>>

Watching == INSTANCE Watch WITH Calls <- SlotCalls

WatchStep ==
  \/ \E c \in SlotCalls, r \in {"running", "plain", "invalid"} : Watching!CallSlot(c, r)
  \/ \E c \in SlotCalls, callables \in Watching!Callbacks : Watching!Watch(c, callables)
  \/ \E c \in SlotCalls, r \in Watching!Finished : Watching!Finish(c, r)

\* The calls' own steps, which leave the watchers alone.
CallStep ==
  \/ ConnectToBackend
  \/ \E callable, timed \in BOOLEAN : CallModuleAsync(callable, timed)
  \/ \E connects \in BOOLEAN : RouterInitialized(connects)
  \/ \E i \in Ids : TimerFires(i) \/ CompletionArrives(i) \/ CallArrives(i) \/ HostCompletes(i)
  \/ SetHandler
  \/ WorkerDies

BridgeInit == Init /\ Watching!Init

BridgeNext ==
  \/ CallStep /\ UNCHANGED watchVars
  \/ WatchStep /\ UNCHANGED vars
  \/ DestroyBridge /\ Watching!DestroyBridge

BridgeSpec == BridgeInit /\ [][BridgeNext]_<<vars, watchVars>>

FairBridgeSpec == BridgeSpec /\ Fairness

\* A view hears of every outcome of a watched call, once.
EveryOutcomeIsTold == Watching!EveryOutcomeIsTold
=============================================================================
