-------------------------------- MODULE Watch --------------------------------
(***************************************************************************)
(* logos.watch(): the callbacks of a replica's slot call, in both bridges  *)
(* (src/LogosQmlBridge.cpp 475-532, src/LogosWebBridge.cpp 305-342).       *)
(*                                                                         *)
(* The view calls a slot of its backend and hands what it got to watch(),  *)
(* later perhaps: a pending call, which QtRO may have finished by then, or *)
(* else no pending call at all.  When and how QtRO finishes a call is      *)
(* external; one that the source never answers is never finished.  A call  *)
(* that failed finishes with no value.                                     *)
(***************************************************************************)
EXTENDS Naturals

CONSTANT Calls   \* what the view passes to watch(), each once

VARIABLES
  alive,     \* the bridge exists
  reply,     \* a pending call's reply, or that it is not a pending call
  watchers,  \* calls with a QRemoteObjectPendingCallWatcher
  watched,   \* calls passed to watch(), with the callbacks that can be called
  told       \* history: what each call's callbacks were told, in how many calls

vars == <<alive, reply, watchers, watched, told>>

Callbacks == SUBSET {"onSuccess", "onError"}
Finished  == {"value", "nothing"}
Told      == [onSuccess : {0, 1, 2}, onError : {0, 1, 2}]
Untold    == [onSuccess |-> 0, onError |-> 0]

TypeOK ==
  /\ alive \in BOOLEAN
  /\ reply \in [Calls -> {"uncalled", "running", "plain", "invalid"} \cup Finished]
  /\ watchers \subseteq Calls
  /\ watched \in [Calls -> Callbacks \cup {{"never"}}]
  /\ told \in [Calls -> Told]

Init ==
  /\ alive = TRUE
  /\ reply = [c \in Calls |-> "uncalled"]
  /\ watchers = {}
  /\ watched = [c \in Calls |-> {"never"}]
  /\ told = [c \in Calls |-> Untold]

-----------------------------------------------------------------------------
\* The view calls a slot: a pending call, the value itself (an in-process
\* backend), or nothing at all (no such slot).
CallSlot(c, r) ==
  /\ reply[c] = "uncalled"
  /\ reply' = [reply EXCEPT ![c] = r]
  /\ UNCHANGED <<alive, watchers, watched, told>>

Tell(c, callback, callables) ==
  told' = IF callback \in callables THEN [told EXCEPT ![c][callback] = @ + 1] ELSE told

\* Which callback a call's outcome goes to; of a pending call that is finished
\* before it is watched, no value is a value too.
Outcome(r) == IF r = "invalid" THEN "onError" ELSE "onSuccess"

\* FinishedFirst, gone wrong: a watcher is made for every pending call; a
\* finished one never finishes again.
FinishedFirst_No(c) == reply[c] \in {"plain", "invalid"}

FinishedFirst(c) == reply[c] \in {"plain", "invalid"} \cup Finished

\* watch(): told on the spot, or by a watcher.
Watch(c, callables) ==
  /\ alive /\ reply[c] # "uncalled" /\ watched[c] = {"never"}
  /\ watched' = [watched EXCEPT ![c] = callables]
  /\ \/ /\ FinishedFirst(c)
        /\ Tell(c, Outcome(reply[c]), callables)
        /\ UNCHANGED watchers
     \/ /\ ~FinishedFirst(c)
        /\ watchers' = watchers \cup {c}
        /\ UNCHANGED told
  /\ UNCHANGED <<alive, reply>>

\* No value now means that the call failed.
OutcomeOfFinish(r) == IF r = "value" THEN "onSuccess" ELSE "onError"

\* QtRO finishes a call; its watcher tells the view and goes.
Finish(c, r) ==
  /\ reply[c] = "running"
  /\ reply' = [reply EXCEPT ![c] = r]
  /\ watchers' = watchers \ {c}
  /\ IF c \in watchers THEN Tell(c, OutcomeOfFinish(r), watched[c]) ELSE UNCHANGED told
  /\ UNCHANGED <<alive, watched>>

\* The bridge goes, and its watchers with it.
DestroyBridge ==
  /\ alive
  /\ alive' = FALSE
  /\ watchers' = {}
  /\ UNCHANGED <<reply, watched, told>>

Next ==
  \/ \E c \in Calls, r \in {"running", "plain", "invalid"} : CallSlot(c, r)
  \/ \E c \in Calls, callables \in Callbacks : Watch(c, callables)
  \/ \E c \in Calls, r \in Finished : Finish(c, r)
  \/ DestroyBridge

-----------------------------------------------------------------------------
Heard(c) == told[c].onSuccess + told[c].onError

\* A view that passed two functions hears of every outcome, once: values as
\* successes, a call that could not be made as an error.  While nothing was
\* heard the call is still running: nobody waits for something that is over.
EveryOutcomeIsTold ==
  \A c \in Calls :
    alive /\ watched[c] = {"onSuccess", "onError"} =>
      /\ Heard(c) = IF reply[c] = "running" THEN 0 ELSE 1
      /\ reply[c] \in {"value", "plain"} => told[c].onSuccess = 1
      /\ reply[c] = "invalid" => told[c].onError = 1
=============================================================================
