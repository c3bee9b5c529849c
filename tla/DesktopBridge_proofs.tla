------------------------ MODULE DesktopBridge_proofs ------------------------
(***************************************************************************)
(* Proofs about DesktopBridge: the calls, for every set of them, and the   *)
(* subscriptions, for any modules, events and number of them.              *)
(*                                                                         *)
(* Of the subscriptions the heart is RecordSound: of an event nobody       *)
(* robbed, the one subscription the client may track is the one on record. *)
(***************************************************************************)
EXTENDS DesktopBridge, TLAPS

-----------------------------------------------------------------------------
(***************************************************************************)
(* The calls.                                                              *)
(***************************************************************************)

\* The state of each call: what its latch says, how often it was sent and
\* called, and which lambdas about it remain.
LatchSound(c) ==
  /\ c \notin fired => payload[c] = "none" /\ calls[c] = 0
  /\ c \in fired => payload[c] # "none"
  /\ c \in fired => calls[c] = (IF c \in callable THEN 1 ELSE 0)
SendSound(c) ==
  /\ c \notin asked => dispatches[c] = 0
  /\ c \in held => dispatches[c] = 0 /\ c \notin inFlight
  /\ dispatches[c] <= 1
  /\ payload[c] = "not reachable" => dispatches[c] = 0 /\ c \notin held

CallInv == TypeOK /\ \A c \in Calls : LatchSound(c) /\ SendSound(c)

\* What invokeCallback leaves behind for call c.
Answered(c, text, functions) ==
  /\ fired' = fired \cup {c}
  /\ payload' \in [Calls -> Payloads \cup {"none"}]
  /\ calls' \in [Calls -> Nat]
  /\ \A d \in Calls : d # c => payload'[d] = payload[d] /\ calls'[d] = calls[d]
  /\ c \in fired => payload'[c] = payload[c] /\ calls'[c] = calls[c]
  /\ c \notin fired =>
       payload'[c] = text /\ calls'[c] = calls[c] + (IF c \in functions THEN 1 ELSE 0)

\* The latch lets the first payload through, and nothing after it.
LEMMA InvokeCallbackEffect ==
  ASSUME TypeOK, NEW c \in Calls, NEW text \in Payloads, NEW functions,
         InvokeCallback(c, text, functions)
  PROVE  Answered(c, text, functions)
<1>1. CASE c \in fired
  BY <1>1 DEF InvokeCallback, Latched, TypeOK, Answered
<1>2. CASE c \notin fired
  BY <1>2 DEF InvokeCallback, Latched, TypeOK, Answered
<1> QED
  BY <1>1, <1>2

\* Answering one call keeps every latch sound.
LEMMA AnswerKeepsLatches ==
  ASSUME CallInv, NEW c \in Calls, NEW text \in Payloads,
         Answered(c, text, callable'),
         \A d \in fired : d \in callable' <=> d \in callable,
         NEW d \in Calls
  PROVE  LatchSound(d)'
<1>1. LatchSound(d) /\ LatchSound(c) /\ calls[c] \in Nat
  BY DEF CallInv, TypeOK
<1>2. text # "none"
  BY DEF Payloads, Refusals, Replies
<1>3. CASE d # c \/ c \in fired
  <2>1. fired' = fired \cup {c} /\ payload'[d] = payload[d] /\ calls'[d] = calls[d]
    BY <1>3 DEF Answered
  <2>2. d \in fired' <=> d \in fired
    BY <1>3, <2>1
  <2>3. d \in fired => (d \in callable' <=> d \in callable)
    OBVIOUS
  <2> QED
    BY <1>1, <2>1, <2>2, <2>3 DEF LatchSound
<1>4. CASE d = c /\ c \notin fired
  <2>1. c \in fired' /\ payload'[c] = text
        /\ calls'[c] = calls[c] + (IF c \in callable' THEN 1 ELSE 0)
    BY <1>4 DEF Answered
  <2>2. calls[c] = 0
    BY <1>1, <1>4 DEF LatchSound
  <2>3. calls'[c] = IF c \in callable' THEN 1 ELSE 0
    BY <2>1, <2>2
  <2> QED
    BY <1>2, <1>4, <2>1, <2>3 DEF LatchSound
<1> QED
  BY <1>3, <1>4

\* A step that leaves the latches and the callbacks alone keeps them sound.
LEMMA QuietLatch ==
  ASSUME NEW d \in Calls, LatchSound(d), UNCHANGED <<fired, payload, calls>>,
         d \in callable' <=> d \in callable
  PROVE  LatchSound(d)'
BY DEF LatchSound

\* Answering one call, with no dispatch, keeps what was sent sound; only a call
\* that has not been sent is ever reported unreachable.
LEMMA AnswerKeepsSends ==
  ASSUME CallInv, NEW c \in Calls, NEW text \in Payloads, NEW functions,
         Answered(c, text, functions), dispatches' = dispatches,
         inFlight' \subseteq inFlight, held' \subseteq held, asked \subseteq asked',
         text = "not reachable" => dispatches[c] = 0 /\ c \notin held',
         NEW d \in Calls
  PROVE  SendSound(d)'
<1>1. SendSound(d)
  BY DEF CallInv
<1>2. payload'[d] = "not reachable" => dispatches[d] = 0 /\ d \notin held'
  <2>1. CASE payload'[d] = payload[d]
    BY <1>1, <2>1 DEF SendSound
  <2>2. CASE payload'[d] # payload[d]
    BY <2>2 DEF Answered
  <2> QED
    BY <2>1, <2>2
<1> QED
  BY <1>1, <1>2 DEF SendSound

\* Every step preserves the invariant of the calls.
LEMMA CallsStep ==
  ASSUME CallInv, [Next]_vars
  PROVE  CallInv'
<1> USE DEF callVars
<1>0. TypeOK /\ \A d \in Calls : LatchSound(d) /\ SendSound(d)
  BY DEF CallInv
<1>1. ASSUME NEW c \in Calls, NEW f \in BOOLEAN, NEW why \in Refusals, Refuse(c, f, why)
      PROVE  CallInv'
  <2>1. why \in Payloads /\ why # "not reachable"
    BY DEF Payloads, Refusals
  <2>2. InvokeCallback(c, why, callable')
    BY <1>1 DEF Refuse
  <2>3. Answered(c, why, callable')
    BY <1>0, <2>1, <2>2, InvokeCallbackEffect
  <2>4. TypeOK'
    BY <1>0, <1>1, <2>3 DEF Refuse, Ask, TypeOK, Answered
  <2>5. c \notin fired /\ asked \subseteq asked' /\ callable' \in {callable, callable \cup {c}}
    BY <1>0, <1>1 DEF Refuse, Ask, TypeOK
  <2>6. ASSUME NEW d \in Calls PROVE LatchSound(d)'
    BY <2>1, <2>3, <2>5, AnswerKeepsLatches
  <2>7. ASSUME NEW d \in Calls PROVE SendSound(d)'
    BY <1>1, <2>1, <2>3, <2>5, AnswerKeepsSends DEF Refuse
  <2> QED
    BY <2>4, <2>6, <2>7 DEF CallInv
<1>2. ASSUME NEW c \in Calls, NEW f \in BOOLEAN, NEW kind \in {"call", "wait"},
             HoldCall(c, f, kind)
      PROVE  CallInv'
  <2>1. TypeOK'
    BY <1>0, <1>2 DEF HoldCall, Ask, ArmTimer, TypeOK
  <2>2. c \notin fired /\ c \notin inFlight
    BY <1>0, <1>2 DEF HoldCall, Ask, TypeOK
  <2>3. dispatches[c] = 0 /\ payload[c] = "none" /\ calls[c] = 0
    BY <1>0, <1>2, <2>2 DEF HoldCall, Ask, LatchSound, SendSound
  <2>4. ASSUME NEW d \in Calls PROVE LatchSound(d)'
    BY <1>0, <1>2, <2>2, <2>3 DEF HoldCall, Ask, LatchSound
  <2>5. ASSUME NEW d \in Calls PROVE SendSound(d)'
    BY <1>0, <1>2, <2>2, <2>3 DEF HoldCall, Ask, SendSound
  <2> QED
    BY <2>1, <2>4, <2>5 DEF CallInv
<1>3. ASSUME NEW c \in Calls, TimerFires(c) PROVE CallInv'
  <2>1. "timeout" \in Payloads /\ InvokeCallback(c, "timeout", callable)
    BY <1>3 DEF TimerFires, Payloads
  <2>2. Answered(c, "timeout", callable) /\ callable' = callable
    BY <1>0, <1>3, <2>1, InvokeCallbackEffect DEF TimerFires
  <2>3. TypeOK'
    BY <1>0, <1>3, <2>2 DEF TimerFires, TypeOK, Answered
  <2>4. ASSUME NEW d \in Calls PROVE LatchSound(d)'
    BY <2>1, <2>2, AnswerKeepsLatches
  <2>5. ASSUME NEW d \in Calls PROVE SendSound(d)'
    BY <1>3, <2>1, <2>2, AnswerKeepsSends DEF TimerFires
  <2> QED
    BY <2>3, <2>4, <2>5 DEF CallInv
<1>4. ASSUME NEW c \in Calls, NEW ready \in BOOLEAN, ObjectAvailable(c, ready)
      PROVE  CallInv'
  <2>0. c \in held /\ held' = held \ {c} /\ UNCHANGED <<alive, asked, callable, deadline, timers>>
    BY <1>4 DEF ObjectAvailable
  <2>1. CASE ~MayDispatch(c)
    <3>1. UNCHANGED <<inFlight, fired, payload, calls, dispatches>>
      BY <1>4, <2>1 DEF ObjectAvailable
    <3>2. TypeOK'
      BY <1>0, <2>0, <3>1 DEF TypeOK
    <3>3. ASSUME NEW d \in Calls PROVE LatchSound(d)'
      BY <1>0, <2>0, <3>1, QuietLatch
    <3>4. ASSUME NEW d \in Calls PROVE SendSound(d)'
      BY <1>0, <2>0, <3>1 DEF SendSound
    <3> QED
      BY <3>2, <3>3, <3>4 DEF CallInv
  <2>2. CASE MayDispatch(c) /\ ready
    <3>1. Dispatch(c) /\ c \notin fired
      BY <1>4, <2>2 DEF ObjectAvailable, MayDispatch, Latched
    <3>2. TypeOK'
      BY <1>0, <2>0, <3>1 DEF Dispatch, TypeOK
    <3>3. ASSUME NEW d \in Calls PROVE LatchSound(d)'
      BY <1>0, <2>0, <3>1, QuietLatch DEF Dispatch
    <3>4. c \in asked /\ payload[c] = "none" /\ dispatches[c] = 0
      BY <1>0, <2>0, <3>1 DEF LatchSound, SendSound, TypeOK
    <3>5. dispatches'[c] = 1 /\ \A d \in Calls : d # c => dispatches'[d] = dispatches[d]
      BY <1>0, <3>1, <3>4 DEF Dispatch, TypeOK
    <3>6. ASSUME NEW d \in Calls PROVE SendSound(d)'
      <4>1. inFlight' = inFlight \cup {c} /\ payload' = payload
        BY <3>1 DEF Dispatch
      <4>2. SendSound(d)
        BY <1>0
      <4>3. CASE d = c
        <5>1. c \in asked' /\ c \notin held' /\ dispatches'[c] = 1 /\ payload'[c] = "none"
          BY <2>0, <3>4, <3>5, <4>1
        <5> QED
          BY <4>3, <5>1 DEF SendSound
      <4>4. CASE d # c
        <5>1. dispatches'[d] = dispatches[d]
          BY <3>5, <4>4
        <5> QED
          BY <2>0, <4>1, <4>2, <4>4, <5>1 DEF SendSound
      <4> QED
        BY <4>3, <4>4
    <3> QED
      BY <3>2, <3>3, <3>6 DEF CallInv
  <2>3. CASE MayDispatch(c) /\ ~ready
    <3>1. /\ InvokeCallback(c, "not reachable", callable)
          /\ "not reachable" \in Payloads
          /\ inFlight' = inFlight /\ dispatches' = dispatches
      BY <1>4, <2>3 DEF ObjectAvailable, ReportUnreachable, Payloads
    <3>2. Answered(c, "not reachable", callable)
      BY <1>0, <3>1, InvokeCallbackEffect
    <3>3. TypeOK'
      BY <1>0, <2>0, <3>1, <3>2 DEF TypeOK, Answered
    <3>4. ASSUME NEW d \in Calls PROVE LatchSound(d)'
      BY <2>0, <3>1, <3>2, AnswerKeepsLatches
    <3>5. dispatches[c] = 0
      BY <1>0, <2>0 DEF SendSound
    <3>6. ASSUME NEW d \in Calls PROVE SendSound(d)'
      BY <2>0, <3>1, <3>2, <3>5, AnswerKeepsSends
    <3> QED
      BY <3>3, <3>4, <3>6 DEF CallInv
  <2> QED
    BY <2>1, <2>2, <2>3
<1>5. ASSUME NEW c \in Calls, NEW outcome \in Replies, Reply(c, outcome)
      PROVE  CallInv'
  <2>1. outcome \in Payloads /\ outcome # "not reachable" /\ InvokeCallback(c, outcome, callable)
    BY <1>5 DEF Reply, Replies, Payloads
  <2>2. Answered(c, outcome, callable) /\ callable' = callable
    BY <1>0, <1>5, <2>1, InvokeCallbackEffect DEF Reply
  <2>3. TypeOK'
    BY <1>0, <1>5, <2>2 DEF Reply, TypeOK, Answered
  <2>4. ASSUME NEW d \in Calls PROVE LatchSound(d)'
    BY <2>1, <2>2, AnswerKeepsLatches
  <2>5. ASSUME NEW d \in Calls PROVE SendSound(d)'
    BY <1>5, <2>1, <2>2, AnswerKeepsSends DEF Reply
  <2> QED
    BY <2>3, <2>4, <2>5 DEF CallInv
<1>6. ASSUME DestroyBridge \/ UNCHANGED vars PROVE CallInv'
  <2>1. UNCHANGED <<asked, callable, deadline, held, inFlight, fired, payload, calls, dispatches>>
    BY <1>6 DEF DestroyBridge, vars
  <2>2. alive' \in BOOLEAN /\ timers' \subseteq asked'
    BY <1>0, <1>6 DEF DestroyBridge, vars, TypeOK
  <2>3. TypeOK'
    BY <1>0, <2>1, <2>2 DEF TypeOK
  <2>4. ASSUME NEW d \in Calls PROVE LatchSound(d)'
    BY <1>0, <2>1, QuietLatch
  <2>5. ASSUME NEW d \in Calls PROVE SendSound(d)'
    BY <1>0, <2>1 DEF SendSound
  <2> QED
    BY <2>3, <2>4, <2>5 DEF CallInv
<1> QED
  BY <1>1, <1>2, <1>3, <1>4, <1>5, <1>6 DEF Next

\* Whatever else the bridge does, its calls are those of ModuleCalls.
LEMMA DesktopCalls == DesktopSpec => Spec
<1>1. DesktopInit => Init
  BY DEF DesktopInit
<1>2. [DesktopNext]_<<vars, subscriptionVars>> => [Next]_vars
  BY DEF DesktopNext, CallMoves, Next
<1> QED BY <1>1, <1>2, PTL DEF DesktopSpec, Spec

\* The invariant of the calls holds in every reachable state.
THEOREM CallsSound == DesktopSpec => []CallInv
<1>1. Init => CallInv
  BY DEF Init, CallInv, TypeOK, LatchSound, SendSound
<1> QED
  BY <1>1, CallsStep, DesktopCalls, PTL DEF Spec

\* Type correctness.
THEOREM CallTypes == DesktopSpec => []TypeOK
<1>1. CallInv => TypeOK
  BY DEF CallInv
<1> QED
  BY <1>1, CallsSound, PTL

\* A call reported unreachable was never sent.
THEOREM Unsent == DesktopSpec => []UnreachableMeansUnsent
<1>1. CallInv => UnreachableMeansUnsent
  BY DEF CallInv, SendSound, UnreachableMeansUnsent
<1> QED
  BY <1>1, CallsSound, PTL

\* A call is only ever sent while its view waits, and once.
THEOREM SentWhileWaiting == DesktopSpec => DispatchOnlyWhileWaiting
<1>1. ASSUME CallInv, [Next]_vars, NEW c \in Calls, dispatches'[c] # dispatches[c]
      PROVE  alive /\ payload[c] = "none" /\ dispatches'[c] = 1
  <2>1. PICK d \in Calls, ready \in BOOLEAN : ObjectAvailable(d, ready)
    BY <1>1 DEF Next, Refuse, HoldCall, TimerFires, Reply, DestroyBridge, vars
  <2>2. MayDispatch(d) /\ Dispatch(d) /\ d \in held
    BY <1>1, <2>1 DEF ObjectAvailable, ReportUnreachable
  <2>3. c = d /\ dispatches'[c] = dispatches[c] + 1
    BY <1>1, <2>2 DEF Dispatch, CallInv, TypeOK
  <2>4. alive /\ d \notin fired
    BY <2>2 DEF MayDispatch, Latched
  <2>5. payload[d] = "none" /\ dispatches[d] = 0
    BY <1>1, <2>2, <2>4 DEF CallInv, LatchSound, SendSound
  <2> QED
    BY <2>3, <2>4, <2>5
<1>2. CallInv /\ [Next]_vars =>
        [\A c \in Calls :
           dispatches'[c] # dispatches[c] =>
             alive /\ payload[c] = "none" /\ dispatches'[c] = 1]_vars
  BY <1>1
<1> QED
  BY <1>2, CallsSound, DesktopCalls, PTL DEF Spec, DispatchOnlyWhileWaiting

-----------------------------------------------------------------------------
(***************************************************************************)
(* The calls implement the callback contract.                              *)
(***************************************************************************)

\* A call's status read off the latch, which the invariant ties the callback to.
View(c) ==
  IF c \notin asked THEN "idle"
  ELSE IF c \in fired THEN (IF c \in callable THEN "answered" ELSE "dropped")
  ELSE IF c \in callable /\ (alive \/ c \in inFlight) THEN "waiting" ELSE "dropped"

LEMMA StatusIsView ==
  ASSUME CallInv, NEW c \in Calls
  PROVE  Status[c] = View(c)
<1>1. LatchSound(c)
  BY DEF CallInv
<1>2. Status[c] = StatusOf(c)
  BY DEF Status
<1>3. CASE c \in fired
  <2>1. calls[c] = (IF c \in callable THEN 1 ELSE 0)
    BY <1>1, <1>3 DEF LatchSound
  <2> QED BY <1>2, <1>3, <2>1 DEF StatusOf, View
<1>4. CASE c \notin fired
  <2>1. calls[c] = 0
    BY <1>1, <1>4 DEF LatchSound
  <2> QED BY <1>2, <1>4, <2>1 DEF StatusOf, View
<1> QED BY <1>3, <1>4

LEMMA StatusIsViewNext ==
  ASSUME CallInv', NEW c \in Calls
  PROVE  Status'[c] = View(c)'
<1>1. LatchSound(c)'
  BY DEF CallInv
<1>2. Status'[c] = StatusOf(c)'
  BY DEF Status
<1>3. CASE c \in fired'
  <2>1. calls'[c] = (IF c \in callable' THEN 1 ELSE 0)
    BY <1>1, <1>3 DEF LatchSound
  <2> QED BY <1>2, <1>3, <2>1 DEF StatusOf, View
<1>4. CASE c \notin fired'
  <2>1. calls'[c] = 0
    BY <1>1, <1>4 DEF LatchSound
  <2> QED BY <1>2, <1>4, <2>1 DEF StatusOf, View
<1> QED BY <1>3, <1>4

\* A step that moves one call along the contract, or none, is a step of it.
LEMMA OneCallMoves ==
  ASSUME CallInv, CallInv', NEW c \in Calls,
         \A d \in Calls : d # c => View(d)' = View(d),
         \/ View(c)' = View(c)
         \/ View(c) = "idle" /\ View(c)' \in {"waiting", "answered", "dropped"}
         \/ View(c) = "waiting" /\ View(c)' = "answered"
  PROVE  [Contract!Next]_Status
<1>1. /\ Status = [d \in Calls |-> View(d)]
      /\ Status' = [d \in Calls |-> View(d)']
  <2>1. Status = [d \in Calls |-> Status[d]] /\ Status' = [d \in Calls |-> Status'[d]]
    BY DEF Status
  <2> QED BY <2>1, StatusIsView, StatusIsViewNext
<1>2. Status' = [Status EXCEPT ![c] = View(c)']
  BY <1>1
<1>3. CASE View(c)' = View(c)
  BY <1>1, <1>3
<1>4. CASE View(c) = "idle" /\ View(c)' \in {"waiting", "answered", "dropped"}
  <2>1. Contract!Ask(c, View(c)')
    BY <1>1, <1>2, <1>4 DEF Contract!Ask
  <2> QED BY <1>4, <2>1 DEF Contract!Next
<1>5. CASE View(c) = "waiting" /\ View(c)' = "answered"
  <2>1. Contract!Answer(c)
    BY <1>1, <1>2, <1>5 DEF Contract!Answer
  <2> QED BY <2>1 DEF Contract!Next
<1> QED BY <1>3, <1>4, <1>5

\* A destroyed bridge drops the calls that nobody is left to answer.
LEMMA DestructionDrops ==
  ASSUME CallInv, CallInv', DestroyBridge
  PROVE  [Contract!Next]_Status
<1> DEFINE S == {d \in Calls : View(d) = "waiting" /\ View(d)' = "dropped"}
<1>1. \A d \in Calls \ S : View(d)' = View(d)
  BY DEF DestroyBridge, View, callVars
<1>2. \A d \in Calls : Status[d] = View(d) /\ Status'[d] = View(d)'
  BY StatusIsView, StatusIsViewNext
<1>3. Status' = [d \in Calls |-> IF d \in S THEN "dropped" ELSE Status[d]]
  <2>1. Status' = [d \in Calls |-> Status'[d]]
    BY DEF Status
  <2> QED BY <1>1, <1>2, <2>1
<1>4. Contract!Drop(S) /\ S \in SUBSET Calls
  BY <1>2, <1>3 DEF Contract!Drop
<1> QED BY <1>4 DEF Contract!Next

LEMMA ContractStep ==
  ASSUME CallInv, CallInv', [Next]_vars
  PROVE  [Contract!Next]_Status
<1> USE DEF callVars
<1>0. TypeOK
  BY DEF CallInv
<1>1. ASSUME NEW c \in Calls, NEW f \in BOOLEAN, NEW why \in Refusals, Refuse(c, f, why)
      PROVE  [Contract!Next]_Status
  <2>1. /\ c \notin asked /\ c \notin fired
        /\ asked' = asked \cup {c} /\ fired' = fired \cup {c}
        /\ callable \subseteq callable' /\ callable' \subseteq callable \cup {c}
        /\ UNCHANGED <<alive, inFlight>>
    BY <1>0, <1>1 DEF Refuse, Ask, InvokeCallback, Latched, TypeOK
  <2> QED BY <2>1, OneCallMoves DEF View
<1>2. ASSUME NEW c \in Calls, NEW f \in BOOLEAN, NEW kind \in {"call", "wait"},
             HoldCall(c, f, kind)
      PROVE  [Contract!Next]_Status
  <2>1. /\ c \notin asked /\ asked' = asked \cup {c}
        /\ callable \subseteq callable' /\ callable' \subseteq callable \cup {c}
        /\ UNCHANGED <<alive, inFlight, fired>>
    BY <1>2 DEF HoldCall, Ask
  <2> QED BY <2>1, OneCallMoves DEF View
<1>3. ASSUME NEW c \in Calls, TimerFires(c) PROVE [Contract!Next]_Status
  <2>1. fired' = fired \cup {c} /\ UNCHANGED <<alive, asked, callable, inFlight>> /\ alive
    BY <1>3 DEF TimerFires, InvokeCallback, Latched
  <2> QED BY <2>1, OneCallMoves DEF View
<1>4. ASSUME NEW c \in Calls, NEW ready \in BOOLEAN, ObjectAvailable(c, ready)
      PROVE  [Contract!Next]_Status
  <2>1. /\ UNCHANGED <<alive, asked, callable>>
        /\ \/ UNCHANGED <<fired, inFlight>>
           \/ alive /\ fired' = fired /\ inFlight' = inFlight \cup {c}
           \/ alive /\ fired' = fired \cup {c} /\ inFlight' = inFlight
    BY <1>4 DEF ObjectAvailable, MayDispatch, Dispatch, ReportUnreachable, InvokeCallback, Latched
  <2> QED BY <2>1, OneCallMoves DEF View
<1>5. ASSUME NEW c \in Calls, NEW outcome \in Replies, Reply(c, outcome)
      PROVE  [Contract!Next]_Status
  <2>1. /\ UNCHANGED <<alive, asked, callable>>
        /\ c \in inFlight /\ inFlight' = inFlight \ {c} /\ fired' = fired \cup {c}
    BY <1>5 DEF Reply, InvokeCallback, Latched
  <2> QED BY <2>1, OneCallMoves DEF View
<1>6. CASE UNCHANGED vars
  BY <1>6 DEF vars, Status, StatusOf
<1> QED BY <1>1, <1>2, <1>3, <1>4, <1>5, <1>6, DestructionDrops DEF Next

\* callModuleAsync() implements the callback contract: a call is asked once, and
\* then answered once or dropped for good.
THEOREM KeepsContract == DesktopSpec => ImplementsContract
<1>1. Init => Contract!Init
  BY DEF Init, Contract!Init, Status, StatusOf
<1>2. CallInv /\ CallInv' /\ [Next]_vars => [Contract!Next]_Status
  BY ContractStep
<1> QED BY <1>1, <1>2, CallsSound, DesktopCalls, PTL DEF Spec, ImplementsContract, Contract!Spec

-----------------------------------------------------------------------------
(***************************************************************************)
(* The subscriptions.                                                      *)
(***************************************************************************)

\* An id not yet made has no past, and a record is of a subscription to its key.
IdsSound ==
  /\ \A i \in Sub!Ids :
       i >= nextId => state[i] = "unknown" /\ i \notin attached /\ i \notin verdicts
  /\ \A k \in Sub!Keys : record[k] # Sub!NoId => record[k] \in Sub!Made /\ keyOf[record[k]] = k

\* A verdict that is still to come is of a subscription the client forgot.
VerdictsSound == \A i \in verdicts : state[i] = "unknown"

\* A callback that hangs on a handle is of an armed subscription, or was left there.
AttachedSound == \A i \in attached : state[i] = "armed" \/ keyOf[i] \in severed

\* The record names the one subscription that is tracked for its key.
RecordSound == \A k \in Sub!Keys \ robbed : \A i \in Sub!Tracked(k) : record[k] = i

SubInv ==
  /\ Sub!TypeOK
  /\ IdsSound /\ VerdictsSound /\ AttachedSound /\ RecordSound /\ AcceptedIsTracked

USE DesktopAssumptions

\* The invariant holds when the bridge is built.
LEMMA InitSub == Sub!Init => SubInv
  BY DEF Sub!Init, SubInv, Sub!TypeOK, IdsSound, VerdictsSound, AttachedSound, RecordSound,
         AcceptedIsTracked, Sub!AcceptedIsTracked,
         Sub!Tracked, Sub!Tracks, Sub!Made, Sub!Ids, Sub!NoId, Sub!Keys

\* What the client knows about is a made subscription, and so is what it reports.
LEMMA KnownAreMade ==
  ASSUME SubInv, NEW i \in Sub!Ids, Sub!Tracks(i) \/ i \in verdicts \/ i \in attached
  PROVE  i \in Sub!Made /\ keyOf[i] \in Sub!Keys
<1>1. i < nextId
  BY DEF SubInv, IdsSound, Sub!Tracks, Sub!TypeOK, Sub!Ids
<1>2. i \in Sub!Made
  BY <1>1 DEF SubInv, Sub!TypeOK, Sub!Made, Sub!Ids
<1> QED BY <1>2 DEF SubInv, Sub!TypeOK, Sub!Made

\* Calls that leave the client alone, and either keep a record or drop one that
\* is stale.
LEMMA QuietCall ==
  ASSUME SubInv, NEW k \in Sub!Keys, NEW told \in {"refused", "accepted"},
         UNCHANGED <<alive, viewModules, Sub!clientVars, robbed, severed, stillborn>>,
         Sub!Answer(k, told),
         told = "accepted" => Sub!Known(k),
         \/ record' = record
         \/ ~Sub!Known(k) /\ record' = [record EXCEPT ![k] = Sub!NoId]
  PROVE  SubInv'
<1> USE DEF Sub!clientVars, Sub!historyVars, Sub!NoId
<1>1. /\ record' \in [Sub!Keys -> Sub!Ids \cup {Sub!NoId}]
      /\ \A l \in Sub!Keys :
           record'[l] = record[l] \/ (l = k /\ record'[l] = Sub!NoId /\ ~Sub!Known(k))
  BY DEF SubInv, Sub!TypeOK
<1>2. Sub!TypeOK'
  BY <1>1 DEF SubInv, Sub!TypeOK, Sub!Answer
<1>3. Sub!Made' = Sub!Made /\ \A l \in Sub!Keys : Sub!Tracked(l)' = Sub!Tracked(l)
  BY DEF Sub!Made, Sub!Tracked, Sub!Tracks
<1>4. IdsSound'
  BY <1>1, <1>3 DEF SubInv, IdsSound
<1>5. VerdictsSound' /\ AttachedSound'
  BY DEF SubInv, VerdictsSound, AttachedSound
<1>6. RecordSound'
  <2> SUFFICES ASSUME NEW l \in Sub!Keys \ robbed, NEW i \in Sub!Tracked(l)
               PROVE  record'[l] = i
    BY <1>3 DEF RecordSound
  <2>1. record[l] = i /\ Sub!Tracks(i) /\ i \in Sub!Made
    BY DEF SubInv, RecordSound, Sub!Tracked
  <2>2. i # Sub!NoId
    BY <2>1 DEF Sub!Made
  <2> QED BY <1>1, <2>1, <2>2 DEF Sub!Known
<1>7. AcceptedIsTracked'
  <2> SUFFICES ASSUME NEW l \in Sub!Keys \ stillborn', answer'[l] = "accepted"
               PROVE  Sub!Tracked(l) # {}
    BY <1>3 DEF AcceptedIsTracked, Sub!AcceptedIsTracked
  <2>1. CASE l = k
    <3>1. answer'[l] = told
      BY <2>1 DEF SubInv, Sub!TypeOK, Sub!Answer
    <3>2. record[k] \in Sub!Tracked(k)
      BY <3>1 DEF SubInv, IdsSound, Sub!Known, Sub!Tracked
    <3> QED BY <2>1, <3>2
  <2>2. CASE l # k
    <3>1. answer'[l] = answer[l]
      BY <2>2 DEF SubInv, Sub!TypeOK, Sub!Answer
    <3> QED BY <3>1 DEF SubInv, AcceptedIsTracked, Sub!AcceptedIsTracked
  <2> QED BY <2>1, <2>2
<1> QED BY <1>2, <1>4, <1>5, <1>6, <1>7 DEF SubInv

\* A new subscription, of an event the client tracks none of.
LEMMA SubscribeSub ==
  ASSUME SubInv, NEW k \in Sub!Keys, NEW s \in {"pending", "armed", "unknown"}, Sub!Subscribe(k, s)
  PROVE  SubInv'
<1> USE DEF Sub!NoId
<1> DEFINE n == nextId
<1>0. n \in Sub!Ids /\ nextId' = n + 1 /\ n \notin Sub!Made /\ Sub!Made' = Sub!Made \cup {n}
  BY DEF SubInv, Sub!TypeOK, Sub!Subscribe, Sub!MakeId, Sub!Made, Sub!Ids
<1>1. /\ keyOf' \in [Sub!Made' -> Sub!Keys]
      /\ keyOf'[n] = k
      /\ \A i \in Sub!Made : keyOf'[i] = keyOf[i] /\ keyOf[i] \in Sub!Keys
  BY <1>0 DEF SubInv, Sub!TypeOK, Sub!Subscribe, Sub!MakeId, Sub!Made, Sub!Ids
<1>2. /\ state' \in [Sub!Ids -> {"unknown", "pending", "armed"}]
      /\ state'[n] = s
      /\ \A i \in Sub!Ids : i # n => state'[i] = state[i]
  BY <1>0 DEF SubInv, Sub!TypeOK, Sub!Subscribe, Sub!MakeId
<1>3. /\ record' \in [Sub!Keys -> Sub!Ids \cup {Sub!NoId}]
      /\ record'[k] = n
      /\ \A l \in Sub!Keys : l # k => record'[l] = record[l]
  BY <1>0 DEF SubInv, Sub!TypeOK, Sub!Subscribe
<1>4. /\ attached' \subseteq attached \cup {n}
      /\ n \in attached' => s = "armed"
      /\ verdicts' = verdicts
      /\ n \notin verdicts
  BY <1>0 DEF SubInv, Sub!TypeOK, IdsSound, Sub!Subscribe, Sub!MakeId, Sub!Ids
<1>5. Sub!TypeOK'
  BY <1>0, <1>1, <1>2, <1>3, <1>4 DEF SubInv, Sub!TypeOK, Sub!Subscribe, Sub!Answer, Sub!Made,
                                      Sub!Ids
<1>6. IdsSound'
  <2>1. \A i \in Sub!Ids :
          i >= nextId' => state'[i] = "unknown" /\ i \notin attached' /\ i \notin verdicts'
    BY <1>0, <1>2, <1>4 DEF SubInv, Sub!TypeOK, IdsSound, Sub!Ids
  <2>2. \A l \in Sub!Keys :
          record'[l] # Sub!NoId => record'[l] \in Sub!Made' /\ keyOf'[record'[l]] = l
    BY <1>0, <1>1, <1>3 DEF SubInv, IdsSound
  <2> QED BY <2>1, <2>2 DEF IdsSound
<1>7. VerdictsSound'
  BY <1>2, <1>4 DEF SubInv, Sub!TypeOK, VerdictsSound
<1>8. AttachedSound'
  <2> SUFFICES ASSUME NEW i \in attached'
               PROVE  state'[i] = "armed" \/ keyOf'[i] \in severed'
    BY DEF AttachedSound
  <2>1. CASE i = n
    BY <2>1, <1>2, <1>4
  <2>2. CASE i # n
    <3>1. i \in attached /\ i \in Sub!Ids
      BY <2>2, <1>4 DEF SubInv, Sub!TypeOK
    <3>2. i \in Sub!Made
      BY <3>1, KnownAreMade
    <3> QED BY <2>2, <3>1, <3>2, <1>1, <1>2 DEF SubInv, AttachedSound, Sub!Subscribe
  <2> QED BY <2>1, <2>2
<1>9. \A l \in Sub!Keys : l # k => Sub!Tracked(l)' = Sub!Tracked(l)
  BY <1>0, <1>1, <1>2 DEF Sub!Tracked, Sub!Tracks, Sub!Made, Sub!Ids, SubInv, Sub!TypeOK
<1>10. Sub!Tracked(k)' \subseteq Sub!Tracked(k) \cup {n}
  BY <1>0, <1>1, <1>2 DEF Sub!Tracked, Sub!Tracks, Sub!Made, Sub!Ids, SubInv, Sub!TypeOK
<1>11. k \notin robbed => Sub!Tracked(k) = {}
  <2> SUFFICES ASSUME k \notin robbed, NEW i \in Sub!Tracked(k)
               PROVE  FALSE
    OBVIOUS
  <2>1. record[k] = i /\ Sub!Tracks(i) /\ i # Sub!NoId
    BY DEF SubInv, RecordSound, Sub!Tracked, Sub!Made
  <2> QED BY <2>1 DEF Sub!Subscribe, Sub!Known
<1>12. RecordSound'
  <2> SUFFICES ASSUME NEW l \in Sub!Keys \ robbed, NEW i \in Sub!Tracked(l)'
               PROVE  record'[l] = i
    BY DEF RecordSound, Sub!Subscribe
  <2>1. CASE l = k
    BY <2>1, <1>3, <1>10, <1>11
  <2>2. CASE l # k
    BY <2>2, <1>3, <1>9 DEF SubInv, RecordSound
  <2> QED BY <2>1, <2>2
<1>13. AcceptedIsTracked'
  <2> SUFFICES ASSUME NEW l \in Sub!Keys \ stillborn', answer'[l] = "accepted"
               PROVE  Sub!Tracked(l)' # {}
    BY DEF AcceptedIsTracked, Sub!AcceptedIsTracked
  <2>1. CASE l = k
    <3>1. s # "unknown"
      BY <2>1 DEF Sub!Subscribe
    <3>2. n \in Sub!Tracked(k)'
      BY <3>1, <1>0, <1>1, <1>2 DEF Sub!Tracked, Sub!Tracks
    <3> QED BY <2>1, <3>2
  <2>2. CASE l # k
    <3>1. answer'[l] = answer[l] /\ l \notin stillborn
      BY <2>2 DEF SubInv, Sub!TypeOK, Sub!Subscribe, Sub!Answer
    <3> QED BY <2>2, <3>1, <1>9 DEF SubInv, AcceptedIsTracked, Sub!AcceptedIsTracked
  <2> QED BY <2>1, <2>2
<1> QED BY <1>5, <1>6, <1>7, <1>8, <1>12, <1>13 DEF SubInv

\* A verdict erases the record of its key: its own, or, late, a younger one's,
\* and then the key was robbed.
LEMMA VerdictSub == ASSUME SubInv, NEW i \in Sub!Ids, Sub!Verdict(i) PROVE SubInv'
<1> USE DEF Sub!NoId
<1> DEFINE k == keyOf[i]
<1>0. i \in Sub!Made /\ k \in Sub!Keys /\ state[i] = "unknown"
  BY KnownAreMade DEF SubInv, VerdictsSound, Sub!Verdict
<1>1. /\ record' \in [Sub!Keys -> Sub!Ids \cup {Sub!NoId}]
      /\ \A l \in Sub!Keys : l # k => record'[l] = record[l]
      /\ record'[k] = record[k] \/ record'[k] = Sub!NoId
      /\ record'[k] # record[k] => record[k] = i \/ k \in robbed'
  BY <1>0 DEF SubInv, Sub!TypeOK, Sub!Verdict, Sub!Erased
<1>2. robbed \subseteq robbed' /\ robbed' \subseteq Sub!Keys
  BY <1>0 DEF SubInv, Sub!TypeOK, Sub!Verdict
<1>3. /\ UNCHANGED <<nextId, keyOf, state, attached, answer, severed, stillborn>>
      /\ verdicts' \subseteq verdicts
  BY DEF Sub!Verdict
<1>4. Sub!TypeOK'
  BY <1>1, <1>2, <1>3 DEF SubInv, Sub!TypeOK, Sub!Verdict
<1>5. Sub!Made' = Sub!Made /\ \A l \in Sub!Keys : Sub!Tracked(l)' = Sub!Tracked(l)
  BY <1>3 DEF Sub!Made, Sub!Tracked, Sub!Tracks
<1>6. IdsSound' /\ VerdictsSound' /\ AttachedSound'
  BY <1>1, <1>3, <1>5 DEF SubInv, IdsSound, VerdictsSound, AttachedSound
<1>7. RecordSound'
  <2> SUFFICES ASSUME NEW l \in Sub!Keys \ robbed', NEW j \in Sub!Tracked(l)
               PROVE  record'[l] = j
    BY <1>5 DEF RecordSound
  <2>1. record[l] = j /\ Sub!Tracks(j)
    BY <1>2 DEF SubInv, RecordSound, Sub!Tracked
  <2>2. j # i
    BY <1>0, <2>1 DEF Sub!Tracks
  <2> QED BY <1>1, <2>1, <2>2
<1>8. AcceptedIsTracked'
  BY <1>3, <1>5 DEF SubInv, AcceptedIsTracked, Sub!AcceptedIsTracked
<1> QED BY <1>4, <1>6, <1>7, <1>8 DEF SubInv

\* What the client does by itself: a tracked subscription is armed, disarmed or
\* forgotten, and in the last case its key's answer is void.
LEMMA ClientSub ==
  ASSUME SubInv, NEW i \in Sub!Ids, Sub!Arm(i) \/ Sub!Disarm(i) \/ Sub!Abandon(i) \/ Sub!Cancel(i)
  PROVE  SubInv'
<1> DEFINE k == keyOf[i]
<1>0. Sub!Tracks(i) /\ i \in Sub!Made /\ k \in Sub!Keys
  BY KnownAreMade DEF Sub!Arm, Sub!Disarm, Sub!Abandon, Sub!Cancel, Sub!Tracks
<1>1. /\ state' \in [Sub!Ids -> {"unknown", "pending", "armed"}]
      /\ \A j \in Sub!Ids : j # i => state'[j] = state[j]
  BY DEF SubInv, Sub!TypeOK, Sub!historyVars, Sub!Arm, Sub!Disarm,
              Sub!Abandon, Sub!Cancel
<1>2. /\ UNCHANGED <<alive, viewModules, record, nextId, keyOf, robbed, stillborn>>
      /\ Sub!Made' = Sub!Made
  BY DEF Sub!Arm, Sub!Disarm, Sub!Abandon, Sub!Cancel, Sub!Made, Sub!historyVars
<1>3. /\ attached' \subseteq Sub!Ids /\ verdicts' \subseteq Sub!Ids
      /\ \A j \in Sub!Ids : j # i => (j \in attached' <=> j \in attached)
      /\ \A j \in Sub!Ids : j # i => (j \in verdicts' <=> j \in verdicts)
      /\ severed \subseteq severed' /\ severed' \subseteq Sub!Keys
  BY <1>0 DEF SubInv, Sub!TypeOK, Sub!historyVars, Sub!Arm, Sub!Disarm,
              Sub!Abandon, Sub!Cancel
<1>4. /\ answer' \in [Sub!Keys -> {"none", "refused", "accepted"}]
      /\ \A l \in Sub!Keys : l # k => answer'[l] = answer[l]
      /\ state'[i] = "unknown" => answer'[k] = "none"
      /\ state'[i] # "unknown" => answer' = answer
  BY <1>0 DEF SubInv, Sub!TypeOK, Sub!historyVars, Sub!Arm, Sub!Disarm,
              Sub!Abandon, Sub!Cancel, Sub!Answer
<1>5. Sub!TypeOK'
  BY <1>1, <1>2, <1>3, <1>4 DEF SubInv, Sub!TypeOK
<1>6. i \in verdicts' => state'[i] = "unknown"
  BY <1>0 DEF SubInv, Sub!TypeOK, VerdictsSound, Sub!Arm, Sub!Disarm, Sub!Abandon, Sub!Cancel,
              Sub!Tracks
<1>7. i \in attached' => state'[i] = "armed" \/ k \in severed'
  BY <1>0 DEF SubInv, Sub!TypeOK, AttachedSound, Sub!Arm, Sub!Disarm, Sub!Abandon, Sub!Cancel
<1>8. IdsSound'
  <2>1. i < nextId
    BY <1>0 DEF Sub!Made, Sub!Ids, SubInv, Sub!TypeOK
  <2>2. \A j \in Sub!Ids :
          j >= nextId => state'[j] = "unknown" /\ j \notin attached' /\ j \notin verdicts'
    BY <2>1, <1>1, <1>3 DEF SubInv, IdsSound, Sub!TypeOK, Sub!Ids
  <2> QED BY <2>2, <1>2 DEF SubInv, IdsSound
<1>9. VerdictsSound'
  BY <1>1, <1>3, <1>6 DEF SubInv, VerdictsSound, Sub!TypeOK
<1>10. AttachedSound'
  BY <1>1, <1>2, <1>3, <1>7 DEF SubInv, AttachedSound, Sub!TypeOK
<1>11. \A l \in Sub!Keys : Sub!Tracked(l)' \subseteq Sub!Tracked(l)
  BY <1>0, <1>1, <1>2 DEF Sub!Tracked, Sub!Tracks, Sub!Made, Sub!Ids, SubInv, Sub!TypeOK
<1>12. \A l \in Sub!Keys : l # k \/ state'[i] # "unknown" => Sub!Tracked(l)' = Sub!Tracked(l)
  BY <1>0, <1>1, <1>2 DEF Sub!Tracked, Sub!Tracks, Sub!Made, Sub!Ids, SubInv, Sub!TypeOK
<1>13. RecordSound'
  BY <1>2, <1>11 DEF SubInv, RecordSound
<1>14. AcceptedIsTracked'
  <2> SUFFICES ASSUME NEW l \in Sub!Keys \ stillborn', answer'[l] = "accepted"
               PROVE  Sub!Tracked(l)' # {}
    BY DEF AcceptedIsTracked, Sub!AcceptedIsTracked
  <2>0. l \in Sub!Keys \ stillborn
    BY <1>2
  <2>1. answer[l] = "accepted" /\ Sub!Tracked(l)' = Sub!Tracked(l)
    BY <1>0, <1>4, <1>12
  <2> QED BY <2>0, <2>1 DEF SubInv, AcceptedIsTracked, Sub!AcceptedIsTracked
<1> QED BY <1>5, <1>8, <1>9, <1>10, <1>13, <1>14 DEF SubInv

\* Steps that touch neither records, answers nor the client.
LEMMA QuietStep ==
  ASSUME SubInv, alive' \in BOOLEAN, viewModules' \subseteq Modules,
         UNCHANGED <<record, nextId, keyOf, state, attached, verdicts, answer, robbed, severed,
                     stillborn>>
  PROVE  SubInv'
<1>1. Sub!TypeOK'
  BY DEF SubInv, Sub!TypeOK
<1>2. Sub!Made' = Sub!Made /\ \A k \in Sub!Keys : Sub!Tracked(k)' = Sub!Tracked(k)
  BY DEF Sub!Made, Sub!Tracked, Sub!Tracks
<1>3. IdsSound' /\ VerdictsSound' /\ AttachedSound'
  BY <1>2 DEF SubInv, IdsSound, VerdictsSound, AttachedSound
<1>4. RecordSound' /\ AcceptedIsTracked'
  BY <1>2 DEF SubInv, RecordSound, AcceptedIsTracked, Sub!AcceptedIsTracked
<1> QED BY <1>1, <1>3, <1>4 DEF SubInv

\* Every step preserves the invariant.
LEMMA NextSub == ASSUME SubInv, [Sub!Next]_Sub!vars PROVE SubInv'
<1>1. ASSUME NEW k \in Sub!Keys, Sub!Refuse(k) PROVE SubInv'
  BY <1>1, QuietCall DEF Sub!Refuse
<1>2. ASSUME NEW k \in Sub!Keys, Sub!Confirm(k) PROVE SubInv'
  BY <1>2, QuietCall DEF Sub!Confirm
<1>3. ASSUME NEW k \in Sub!Keys, Sub!RefusedByClient(k) PROVE SubInv'
  BY <1>3, QuietCall DEF Sub!RefusedByClient
<1>4. ASSUME NEW m \in Modules, Sub!RegisterViewModule(m) PROVE SubInv'
  BY <1>4, QuietStep DEF Sub!RegisterViewModule, SubInv, Sub!TypeOK, Sub!clientVars, Sub!historyVars
<1>5. CASE Sub!DestroyBridge
  <2>1. alive' \in BOOLEAN
    BY <1>5 DEF Sub!DestroyBridge
  <2> QED BY <1>5, <2>1, QuietStep
          DEF Sub!DestroyBridge, SubInv, Sub!TypeOK, Sub!clientVars, Sub!historyVars
<1>6. CASE UNCHANGED Sub!vars
  BY <1>6, QuietStep DEF Sub!vars, SubInv, Sub!TypeOK, Sub!clientVars, Sub!historyVars
<1> QED BY <1>1, <1>2, <1>3, <1>4, <1>5, <1>6, SubscribeSub, VerdictSub, ClientSub DEF Sub!Next

\* Whatever else the bridge does, its subscriptions are those of EventSubscriptions.
LEMMA DesktopSubscriptions == DesktopSpec => Sub!Spec
<1>1. DesktopInit => Sub!Init
  BY DEF DesktopInit
<1>2. [DesktopNext]_<<vars, subscriptionVars>> => [Sub!Next]_Sub!vars
  BY DEF DesktopNext, SubscriptionMoves, Sub!Next, Sub!vars, Sub!clientVars, Sub!historyVars,
         subscriptionVars,
         vars, CallMoves, Refuse, HoldCall, Ask, TimerFires, ObjectAvailable, Reply
<1> QED BY <1>1, <1>2, PTL DEF DesktopSpec, Sub!Spec

\* The inductive invariant of the subscriptions.
THEOREM SubscriptionsSound == DesktopSpec => []SubInv
  BY InitSub, NextSub, DesktopSubscriptions, PTL DEF Sub!Spec

\* Record, registry and answers are well typed.
THEOREM SubscriptionTypes == DesktopSpec => []Sub!TypeOK
<1>1. SubInv => Sub!TypeOK
  BY DEF SubInv
<1> QED BY <1>1, SubscriptionsSound, PTL

\* An event is subscribed to once, unless a late verdict erased its record.
THEOREM Undoubled == DesktopSpec => []OneSubscriptionPerEvent
<1>1. ASSUME SubInv, NEW k \in Sub!Keys \ robbed PROVE Sub!AtMostOne(Sub!Tracked(k))
  BY <1>1 DEF SubInv, RecordSound, Sub!AtMostOne
<1>2. ASSUME SubInv, NEW k \in Sub!Keys \ robbed, k \notin severed PROVE Sub!AtMostOne(Sub!Heard(k))
  <2>1. ASSUME NEW i \in Sub!Heard(k) PROVE i \in Sub!Tracked(k)
    <3>1. i \in Sub!Ids /\ i \in attached /\ keyOf[i] = k
      BY <1>2 DEF Sub!Heard, SubInv, Sub!TypeOK
    <3>2. i \in Sub!Made
      BY <1>2, <3>1, KnownAreMade
    <3> QED BY <1>2, <3>1, <3>2 DEF SubInv, AttachedSound, Sub!Tracked, Sub!Tracks
  <2> QED BY <1>1, <1>2, <2>1 DEF Sub!AtMostOne
<1>3. SubInv => OneSubscriptionPerEvent
  BY <1>1, <1>2 DEF OneSubscriptionPerEvent, Sub!OneSubscriptionPerEvent
<1> QED BY <1>3, SubscriptionsSound, PTL

\* A view that was told true has a subscription, until the client drops it, but
\* for one that was abandoned before the call was over.
THEOREM NeverSilent == DesktopSpec => []AcceptedIsTracked
<1>1. SubInv => AcceptedIsTracked
  BY DEF SubInv
<1> QED BY <1>1, SubscriptionsSound, PTL

\* A subscription that waits for its module is listed as pending.
THEOREM Diagnosed == DesktopSpec => []PendingIsListed
<1>1. ASSUME SubInv, alive, NEW i \in Sub!Made, state[i] = "pending", keyOf[i] \notin robbed
      PROVE  i \in Sub!Listed
  <2>1. keyOf[i] \in Sub!Keys
    BY <1>1 DEF SubInv, Sub!TypeOK, Sub!Made
  <2>2. record[keyOf[i]] = i
    BY <1>1, <2>1 DEF SubInv, RecordSound, Sub!Tracked, Sub!Tracks
  <2>3. i # Sub!NoId
    BY DEF Sub!Made, Sub!NoId
  <2> QED BY <1>1, <2>1, <2>2, <2>3 DEF Sub!Listed
<1>2. SubInv => PendingIsListed
  BY <1>1 DEF PendingIsListed, Sub!PendingIsListed
<1> QED BY <1>2, SubscriptionsSound, PTL
=============================================================================
