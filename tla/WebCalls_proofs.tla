--------------------------- MODULE WebCalls_proofs ---------------------------
(***************************************************************************)
(* Proofs about WebCalls, for any number of calls and of Workers that die, *)
(* and about the bridge that also watches slot calls (WebBridge).          *)
(*                                                                         *)
(* That a call is executed once is not inductive: it follows from where a  *)
(* call can be.  A held call has been nowhere yet, so the drain of a       *)
(* restarted Worker may send it; a call under way is one copy, and has not *)
(* been executed; one in flight has not been answered; and an id the       *)
(* counter has not reached is nowhere at all.                              *)
(***************************************************************************)
EXTENDS WebBridge, TLAPS

\* Neither sent nor executed nor answered.
Nowhere(i) ==
  /\ toWorker[i] = 0 /\ i \notin inFlight
  /\ executed[i] = 0 /\ completions[i] = 0

FreshAreNowhere  == \A i \in Ids : i > nextRequestId => Nowhere(i) /\ Entries(i) = {}
HeldAreNowhere   == \A p \in pending : Held(p) => Nowhere(p.id)
UnderwayUnserved ==
  \A i \in Ids :
    toWorker[i] # 0 =>
      toWorker[i] = 1 /\ i \notin inFlight /\ executed[i] = 0 /\ completions[i] = 0
OpenUnanswered   == \A i \in inFlight : completions[i] = 0
HearingIsReady   == routerConnected => Ready

\* The inductive invariant.
CallInv ==
  /\ TypeOK
  /\ FreshAreNowhere
  /\ HeldAreNowhere
  /\ UnderwayUnserved
  /\ OpenUnanswered
  /\ HearingIsReady
  /\ ExecutedAtMostOnce
  /\ NothingHeldBack

-----------------------------------------------------------------------------
\* The constructors: nothing is anywhere.
LEMMA InitCalls == Init => CallInv
<1> SUFFICES ASSUME Init PROVE CallInv
  OBVIOUS
<1>1. TypeOK
  <2>1. /\ 0 \in 0..MaxCalls /\ 0 \in 0..MaxRestarts
        /\ [i \in Ids |-> 0] \in [Ids -> Nat]
    BY WebAssumptions
  <2> QED BY <2>1 DEF Init, TypeOK
<1>2. FreshAreNowhere /\ HeldAreNowhere /\ UnderwayUnserved /\ OpenUnanswered
  BY DEF Init, FreshAreNowhere, HeldAreNowhere, UnderwayUnserved, OpenUnanswered, Nowhere, Entries,
         Ids
<1>3. HearingIsReady /\ ExecutedAtMostOnce /\ NothingHeldBack
  BY DEF Init, HearingIsReady, ExecutedAtMostOnce, NothingHeldBack, Ids
<1> QED BY <1>1, <1>2, <1>3 DEF CallInv

\* A step that makes no call, sends none, and executes and answers none.
LEMMA QuietStep ==
  ASSUME CallInv, TypeOK', nextRequestId' = nextRequestId,
         pending' \subseteq pending,
         \A i \in Ids : toWorker'[i] = toWorker[i] \/ toWorker'[i] = 0,
         inFlight' \subseteq inFlight, executed' = executed, completions' = completions,
         \/ routerConnected' = routerConnected /\ router' = router
         \/ ~routerConnected'
  PROVE  CallInv'
<1> USE DEF CallInv
<1>1. FreshAreNowhere'
  BY DEF FreshAreNowhere, Nowhere, Entries
<1>2. HeldAreNowhere'
  <2> SUFFICES ASSUME NEW p \in pending', Held(p) PROVE Nowhere(p.id)'
    BY DEF HeldAreNowhere, Held
  <2>1. Nowhere(p.id) /\ p.id \in Ids
    BY DEF HeldAreNowhere, TypeOK, PendingCall
  <2> QED BY <2>1 DEF Nowhere
<1>3. UnderwayUnserved' /\ OpenUnanswered'
  BY DEF UnderwayUnserved, OpenUnanswered
<1>4. HearingIsReady' /\ ExecutedAtMostOnce'
  BY DEF HearingIsReady, Ready, ExecutedAtMostOnce
<1>5. NothingHeldBack'
  BY DEF NothingHeldBack, Held
<1> QED BY <1>1, <1>2, <1>3, <1>4, <1>5

-----------------------------------------------------------------------------
(***************************************************************************)
(* Sending.                                                                *)
(***************************************************************************)

\* An entry that is sent stays the entry it was but for that.
LEMMA MarkedSent ==
  ASSUME NEW entries \in SUBSET PendingCall, NEW S \in SUBSET entries
  PROVE  /\ MarkSent(entries, S) \subseteq PendingCall
         /\ \A q \in MarkSent(entries, S) : Held(q) => q \in entries \ S
         /\ \A q \in MarkSent(entries, S) :
              \E p \in entries : p.id = q.id /\ p.callable = q.callable
         /\ \A p \in entries :
              \E q \in MarkSent(entries, S) : p.id = q.id /\ p.callable = q.callable
<1>1. \A p \in S : /\ Sent(p) \in PendingCall /\ ~Held(Sent(p))
                   /\ Sent(p).id = p.id /\ Sent(p).callable = p.callable
  BY DEF PendingCall, Sent, Held
<1>2. \A q \in MarkSent(entries, S) :
        \/ q \in entries \ S
        \/ \E p \in S : q = Sent(p)
  BY DEF MarkSent
<1>3. \A p \in entries : IF p \in S THEN Sent(p) \in MarkSent(entries, S)
                                    ELSE p \in MarkSent(entries, S)
  BY DEF MarkSent
<1>4. MarkSent(entries, S) \subseteq PendingCall
  BY <1>1, <1>2
<1>5. \A q \in MarkSent(entries, S) : Held(q) => q \in entries \ S
  BY <1>1, <1>2
<1>6. \A q \in MarkSent(entries, S) :
        \E p \in entries : p.id = q.id /\ p.callable = q.callable
  BY <1>1, <1>2
<1>7. ASSUME NEW p \in entries
      PROVE  \E q \in MarkSent(entries, S) : p.id = q.id /\ p.callable = q.callable
  <2>1. CASE p \in S
    <3>1. Sent(p) \in MarkSent(entries, S)
      BY <1>3, <2>1
    <3> QED BY <1>1, <2>1, <3>1
  <2>2. CASE p \notin S
    BY <1>3, <2>2
  <2> QED BY <2>1, <2>2
<1> QED BY <1>4, <1>5, <1>6, <1>7

\* One more copy of each call that is sent.
LEMMA Sending ==
  ASSUME NEW wire \in [Ids -> Nat], NEW S
  PROVE  /\ Send(wire, S) \in [Ids -> Nat]
         /\ \A i \in Ids :
              /\ (\E p \in S : p.id = i) => Send(wire, S)[i] = wire[i] + 1
              /\ (\A p \in S : p.id # i) => Send(wire, S)[i] = wire[i]
<1>1. \A i \in Ids : (IF \E p \in S : p.id = i THEN 1 ELSE 0) \in {0, 1}
  OBVIOUS
<1>2. \A i \in Ids :
        Send(wire, S)[i] = wire[i] + (IF \E p \in S : p.id = i THEN 1 ELSE 0)
  BY DEF Send
<1>3. \A i \in Ids : wire[i] \in Nat
  OBVIOUS
<1>4. \A i \in Ids : (wire[i] + (IF \E p \in S : p.id = i THEN 1 ELSE 0)) \in Nat
  BY <1>1, <1>3
<1>5. Send(wire, S) \in [Ids -> Nat]
  BY <1>4 DEF Send
<1>6. \A i \in Ids : (\E p \in S : p.id = i) => Send(wire, S)[i] = wire[i] + 1
  BY <1>2
<1>7. \A i \in Ids : (\A p \in S : p.id # i) => Send(wire, S)[i] = wire[i]
  BY <1>2, <1>3
<1> QED BY <1>5, <1>6, <1>7

\* A step that sends calls which have been nowhere yet, each once.
LEMMA SendStep ==
  ASSUME CallInv, TypeOK', nextRequestId <= nextRequestId',
         UNCHANGED <<inFlight, executed, completions>>, NEW S,
         \A i \in Ids : i \in S => Nowhere(i) /\ i <= nextRequestId' /\ toWorker'[i] <= 1,
         \A i \in Ids : i \notin S => toWorker'[i] = toWorker[i],
         \A q \in pending' : /\ q.id <= nextRequestId'
                             /\ Held(q) => Nowhere(q.id) /\ q.id \notin S,
         routerConnected' => router' = "initialized" /\ \A q \in pending' : ~Held(q)
  PROVE  CallInv'
<1>0. /\ nextRequestId \in Nat /\ nextRequestId' \in Nat
      /\ \A i \in Ids : i \in Nat /\ toWorker[i] \in Nat /\ toWorker'[i] \in Nat
      /\ \A q \in pending' : q.id \in Ids
  <2>1. nextRequestId \in Nat /\ toWorker \in [Ids -> Nat]
    BY DEF CallInv, TypeOK
  <2>2. nextRequestId' \in Nat /\ toWorker' \in [Ids -> Nat] /\ pending' \subseteq PendingCall
    BY DEF TypeOK
  <2>3. \A i \in Ids : i \in Nat
    BY DEF Ids
  <2>4. \A q \in pending' : q.id \in Ids
    BY <2>2 DEF PendingCall
  <2> QED BY <2>1, <2>2, <2>3, <2>4
<1>1. FreshAreNowhere'
  <2> SUFFICES ASSUME NEW i \in Ids, i > nextRequestId'
               PROVE  Nowhere(i)' /\ Entries(i)' = {}
    BY DEF FreshAreNowhere
  <2>1. i \notin S /\ i > nextRequestId
    BY <1>0
  <2>2. Nowhere(i)
    BY <2>1 DEF CallInv, FreshAreNowhere
  <2>3. \A q \in pending' : q.id # i
    BY <1>0
  <2> QED BY <2>1, <2>2, <2>3 DEF Nowhere, Entries
<1>2. HeldAreNowhere'
  <2> SUFFICES ASSUME NEW q \in pending', Held(q) PROVE Nowhere(q.id)'
    BY DEF HeldAreNowhere, Held
  <2>1. q.id \in Ids /\ q.id \notin S /\ Nowhere(q.id)
    BY <1>0
  <2> QED BY <2>1 DEF Nowhere
<1>3. UnderwayUnserved'
  <2> SUFFICES ASSUME NEW i \in Ids, toWorker'[i] # 0
               PROVE  /\ toWorker'[i] = 1 /\ i \notin inFlight
                      /\ executed[i] = 0 /\ completions[i] = 0
    BY DEF UnderwayUnserved
  <2>1. CASE i \in S
    BY <1>0, <2>1 DEF Nowhere
  <2>2. CASE i \notin S
    BY <2>2 DEF CallInv, UnderwayUnserved
  <2> QED BY <2>1, <2>2
<1>4. OpenUnanswered' /\ ExecutedAtMostOnce'
  BY DEF CallInv, OpenUnanswered, ExecutedAtMostOnce
<1>5. HearingIsReady' /\ NothingHeldBack'
  BY DEF HearingIsReady, Ready, NothingHeldBack, Held
<1> QED BY <1>1, <1>2, <1>3, <1>4, <1>5 DEF CallInv

\* A step that sends nothing.
LEMMA UnsentStep ==
  ASSUME CallInv, TypeOK', nextRequestId <= nextRequestId',
         UNCHANGED <<inFlight, executed, completions>>, toWorker' = toWorker,
         \A q \in pending' : q.id <= nextRequestId' /\ (Held(q) => Nowhere(q.id)),
         routerConnected' => router' = "initialized" /\ \A q \in pending' : ~Held(q)
  PROVE  CallInv'
<1> DEFINE S == {}
<1>1. /\ \A i \in Ids : i \in S => Nowhere(i) /\ i <= nextRequestId' /\ toWorker'[i] <= 1
      /\ \A i \in Ids : i \notin S => toWorker'[i] = toWorker[i]
      /\ \A q \in pending' : /\ q.id <= nextRequestId'
                             /\ Held(q) => Nowhere(q.id) /\ q.id \notin S
  OBVIOUS
<1> HIDE DEF S
<1> QED BY <1>1, SendStep

\* What is drained was held, and nothing that is held is left.
LEMMA Drained ==
  ASSUME NEW entries \in SUBSET PendingCall, TypeOK
  PROVE  LET after == OnRouterInitialized(entries, TRUE)
         IN /\ after.entries = MarkSent(entries, ToDrain(entries))
            /\ after.wire = Send(toWorker, ToDrain(entries))
            /\ after.entries \subseteq PendingCall
            /\ after.wire \in [Ids -> Nat]
            /\ \A q \in after.entries : ~Held(q)
            /\ \A q \in after.entries : \E p \in entries : p.id = q.id /\ p.callable = q.callable
            /\ \A p \in entries : \E q \in after.entries : p.id = q.id /\ p.callable = q.callable
<1>1. ToDrain(entries) \in SUBSET entries
  BY DEF ToDrain
<1>2. /\ OnRouterInitialized(entries, TRUE).entries = MarkSent(entries, ToDrain(entries))
      /\ OnRouterInitialized(entries, TRUE).wire = Send(toWorker, ToDrain(entries))
  BY DEF OnRouterInitialized
<1>3. \A p \in entries \ ToDrain(entries) : ~Held(p)
  BY DEF ToDrain
<1>4. Send(toWorker, ToDrain(entries)) \in [Ids -> Nat]
  BY Sending DEF TypeOK
<1> HIDE DEF ToDrain
<1>5. /\ MarkSent(entries, ToDrain(entries)) \subseteq PendingCall
      /\ \A q \in MarkSent(entries, ToDrain(entries)) : ~Held(q)
      /\ \A q \in MarkSent(entries, ToDrain(entries)) :
           \E p \in entries : p.id = q.id /\ p.callable = q.callable
      /\ \A p \in entries :
           \E q \in MarkSent(entries, ToDrain(entries)) : p.id = q.id /\ p.callable = q.callable
  BY <1>1, <1>3, MarkedSent
<1> QED BY <1>2, <1>4, <1>5

-----------------------------------------------------------------------------
\* onRouterInitialized(): the drain, or nothing when it cannot hear the answers.
LEMMA DrainInv ==
  ASSUME CallInv, NEW connects \in BOOLEAN, RouterInitialized(connects)
  PROVE  CallInv'
<1>0. /\ UNCHANGED <<alive, hasNode, connected, nextRequestId, timers, toPage, hasHandler, inFlight,
                     hosted, restarts, calls, executed, completions, lost>>
      /\ linked' = TRUE /\ router' = "initialized" /\ routerConnected' = connects
      /\ pending' = OnRouterInitialized(pending, connects).entries
      /\ toWorker' = OnRouterInitialized(pending, connects).wire
  BY DEF RouterInitialized
<1>1. pending \in SUBSET PendingCall /\ TypeOK
  BY DEF CallInv, TypeOK
<1>2. CASE connects
  <2> DEFINE S == {p.id : p \in ToDrain(pending)}
  <2>1. /\ pending' \subseteq PendingCall /\ toWorker' \in [Ids -> Nat]
        /\ \A q \in pending' : ~Held(q)
        /\ \A q \in pending' : \E p \in pending : p.id = q.id
        /\ toWorker' = Send(toWorker, ToDrain(pending))
    <3>1. connects = TRUE
      BY <1>2
    <3> QED BY <1>0, <1>1, <3>1, Drained
  <2>2. TypeOK'
    BY <1>0, <1>1, <2>1 DEF TypeOK
  <2>3. \A p \in pending : p.id \in Ids /\ p.id <= nextRequestId
    BY DEF CallInv, TypeOK, PendingCall, FreshAreNowhere, Entries, Ids
  <2>4. \A i \in Ids : i \in S => Nowhere(i) /\ i <= nextRequestId
    BY <2>3 DEF CallInv, HeldAreNowhere, ToDrain
  <2>5. \A i \in Ids : /\ i \in S => toWorker'[i] = toWorker[i] + 1
                       /\ i \notin S => toWorker'[i] = toWorker[i]
    BY <1>1, <2>1, Sending DEF TypeOK
  <2>6. \A i \in Ids : i \in S => toWorker'[i] <= 1
    BY <2>4, <2>5 DEF Nowhere
  <2>7. \A q \in pending' : q.id <= nextRequestId'
    BY <1>0, <2>1, <2>3
  <2> HIDE DEF S
  <2>8. nextRequestId <= nextRequestId'
    BY <1>0, <1>1 DEF TypeOK
  <2> QED BY <1>0, <2>1, <2>2, <2>4, <2>5, <2>6, <2>7, <2>8, SendStep
<1>3. CASE ~connects
  <2>1. pending' = pending /\ toWorker' = toWorker /\ ~routerConnected'
    BY <1>0, <1>3 DEF OnRouterInitialized
  <2>2. TypeOK'
    BY <1>0, <1>1, <2>1 DEF TypeOK
  <2> QED BY <1>0, <2>1, <2>2, QuietStep
<1> QED BY <1>2, <1>3

\* What the end of callModuleAsync() leaves of the entries and the wire.
DueSent(entries, wire, i) ==
  /\ pending' \subseteq PendingCall
  /\ \A q \in pending' : Held(q) => q \in entries \ Due(entries, i)
  /\ \A q \in pending' : \E p \in entries : p.id = q.id /\ p.callable = q.callable
  /\ \A p \in entries : \E q \in pending' : p.id = q.id /\ p.callable = q.callable
  /\ toWorker' \in [Ids -> Nat]
  /\ \A k \in Ids : k # i => toWorker'[k] = wire[k]
  /\ toWorker'[i] = wire[i] \/ toWorker'[i] = wire[i] + 1
  /\ Due(entries, i) = {} => toWorker'[i] = wire[i]
  /\ lost' \subseteq Ids
  /\ calls' = calls

\* The look-up at the end of callModuleAsync() finds the new call, if it is held.
LEMMA DueNow ==
  ASSUME NEW entries \in SUBSET PendingCall, NEW wire \in [Ids -> Nat], NEW i \in Ids,
         lost \subseteq Ids, DispatchDue(entries, wire, i)
  PROVE  DueSent(entries, wire, i)
<1>1. Due(entries, i) \in SUBSET entries /\ \A p \in Due(entries, i) : p.id = i
  BY DEF Due
<1>2. /\ pending' = MarkSent(entries, Due(entries, i)) /\ calls' = calls
      /\ \/ toWorker' = Send(wire, Due(entries, i)) /\ lost' = lost
         \/ toWorker' = wire /\ lost' = lost \cup {p.id : p \in Due(entries, i)}
  BY DEF DispatchDue
<1> HIDE DEF Due
<1>3. /\ pending' \subseteq PendingCall
      /\ \A q \in pending' : Held(q) => q \in entries \ Due(entries, i)
      /\ \A q \in pending' : \E p \in entries : p.id = q.id /\ p.callable = q.callable
      /\ \A p \in entries : \E q \in pending' : p.id = q.id /\ p.callable = q.callable
  BY <1>1, <1>2, MarkedSent
<1>4. lost' \subseteq Ids
  BY <1>1, <1>2
<1>5. /\ toWorker' \in [Ids -> Nat]
      /\ \A k \in Ids : k # i => toWorker'[k] = wire[k]
      /\ toWorker'[i] = wire[i] \/ toWorker'[i] = wire[i] + 1
      /\ Due(entries, i) = {} => toWorker'[i] = wire[i]
  <2>1. CASE toWorker' = wire
    BY <2>1
  <2>2. CASE toWorker' = Send(wire, Due(entries, i))
    <3>1. \A k \in Ids :
            /\ (\E p \in Due(entries, i) : p.id = k) => toWorker'[k] = wire[k] + 1
            /\ (\A p \in Due(entries, i) : p.id # k) => toWorker'[k] = wire[k]
      BY <2>2, Sending
    <3>2. toWorker' \in [Ids -> Nat]
      BY <2>2, Sending
    <3> QED BY <1>1, <3>1, <3>2
  <2> QED BY <1>2, <2>1, <2>2
<1> QED BY <1>1, <1>2, <1>3, <1>4, <1>5 DEF DueSent

\* callModuleAsync(): the id is one the counter had not reached.
LEMMA CallStepInv ==
  ASSUME CallInv, NEW callable \in BOOLEAN, NEW timed \in BOOLEAN,
         CallModuleAsync(callable, timed)
  PROVE  CallInv'
<1> DEFINE i == nextRequestId + 1
           p == [id |-> i, callable |-> callable, dispatched |-> FALSE]
           entries == pending \cup {p}
<1>0. /\ nextRequestId' = i /\ i \in Ids /\ i \in Nat /\ nextRequestId \in Nat
      /\ timers' \subseteq Ids
      /\ UNCHANGED <<inFlight, executed, completions, toPage, hosted, hasHandler, alive,
                     hasNode, connected, restarts>>
  BY WebAssumptions DEF CallInv, TypeOK, CallModuleAsync, NextId, Ids
<1>1. /\ Nowhere(i) /\ Entries(i) = {} /\ \A q \in pending : q.id # i
  BY <1>0 DEF CallInv, FreshAreNowhere, Entries
<1>2. p \in PendingCall /\ p.id = i /\ Held(p)
  BY <1>0 DEF PendingCall, Held
<1>3. /\ entries \in SUBSET PendingCall
      /\ \A q \in entries : q.id \in Ids /\ q.id <= nextRequestId'
      /\ \A q \in entries : Held(q) => Nowhere(q.id)
      /\ Due(entries, i) = {p}
  <2>1. entries \in SUBSET PendingCall
    BY <1>2 DEF CallInv, TypeOK
  <2>2. \A q \in entries : q.id \in Ids
    BY <2>1 DEF PendingCall
  <2>3. \A q \in pending : q.id <= nextRequestId
    BY <1>0, <2>2 DEF CallInv, FreshAreNowhere, Entries, Ids
  <2>4. \A q \in entries : q.id <= nextRequestId'
    BY <1>0, <1>2, <2>2, <2>3 DEF Ids
  <2>5. \A q \in entries : Held(q) => Nowhere(q.id)
    BY <1>1, <1>2 DEF CallInv, HeldAreNowhere
  <2>6. Due(entries, i) = {p}
    BY <1>1, <1>2 DEF Due
  <2> QED BY <2>1, <2>2, <2>4, <2>5, <2>6
<1>4. /\ nextRequestId' \in 0..MaxCalls /\ nextRequestId <= nextRequestId'
      /\ toWorker \in [Ids -> Nat] /\ lost \subseteq Ids /\ calls \in [Ids -> Nat]
  BY <1>0 DEF CallInv, TypeOK, Ids
<1>5. ASSUME pending' \subseteq PendingCall, toWorker' \in [Ids -> Nat], lost' \subseteq Ids,
             calls' \in [Ids -> Nat], linked' \in BOOLEAN, routerConnected' \in BOOLEAN,
             router' \in {"none", "acquired", "initialized"}
      PROVE  TypeOK'
  BY <1>0, <1>4, <1>5 DEF CallInv, TypeOK
<1>6. toWorker[i] = 0
  BY <1>1 DEF Nowhere
<1>7. Refuse(p) \/ Hold(p) \/ DispatchNow(p)
      \/ \E connects \in BOOLEAN : AcquireKnown(p, connects)
  BY DEF CallModuleAsync, NextId
<1> HIDE DEF p, i, entries
<1>8. CASE Refuse(p)
  <2>1. /\ UNCHANGED <<router, routerConnected, linked, toWorker, lost>>
        /\ Deliver(entries, i)
    BY <1>2, <1>8 DEF Refuse, entries
  <2>2. pending' \subseteq pending
    BY <1>2, <2>1 DEF Deliver, Erase, entries
  <2>3. calls' \in [Ids -> Nat]
    <3> DEFINE more == IF \E q \in entries : q.id = i /\ q.callable THEN 1 ELSE 0
    <3>1. more \in Nat
      OBVIOUS
    <3>2. calls' = [calls EXCEPT ![i] = @ + more]
      BY <2>1 DEF Deliver
    <3> HIDE DEF more
    <3> QED BY <1>0, <1>4, <3>1, <3>2
  <2>4. TypeOK'
    BY <1>3, <1>4, <1>5, <2>1, <2>2, <2>3 DEF CallInv, TypeOK
  <2>5. \A q \in pending' : q.id <= nextRequestId' /\ (Held(q) => Nowhere(q.id))
    BY <1>3, <2>2 DEF entries
  <2>6. routerConnected' => router' = "initialized" /\ \A q \in pending' : ~Held(q)
    BY <2>1, <2>2 DEF CallInv, HearingIsReady, NothingHeldBack, Ready
  <2> QED BY <1>0, <1>4, <2>1, <2>4, <2>5, <2>6, UnsentStep
<1>9. CASE Hold(p)
  <2>1. /\ UNCHANGED <<routerConnected, linked, toWorker, lost, calls>>
        /\ router' = "acquired" /\ ~Ready /\ pending' = entries
    BY <1>9 DEF Hold, entries
  <2>2. TypeOK'
    BY <1>3, <1>4, <1>5, <2>1 DEF CallInv, TypeOK
  <2>3. ~routerConnected'
    BY <2>1 DEF CallInv, HearingIsReady
  <2>4. \A q \in pending' : q.id <= nextRequestId' /\ (Held(q) => Nowhere(q.id))
    BY <1>3, <2>1
  <2> QED BY <1>0, <1>4, <2>1, <2>2, <2>3, <2>4, UnsentStep
<1>10. ASSUME DispatchDue(entries, toWorker, i), router' = "initialized",
              routerConnected' \in BOOLEAN, linked' \in BOOLEAN,
              routerConnected' => \A q \in pending : ~Held(q)
       PROVE  CallInv'
  <2>1. /\ pending' \subseteq PendingCall /\ toWorker' \in [Ids -> Nat] /\ lost' \subseteq Ids
        /\ calls' = calls
        /\ \A q \in pending' : Held(q) => q \in entries \ Due(entries, i)
        /\ \A q \in pending' : \E r \in entries : r.id = q.id /\ r.callable = q.callable
        /\ \A k \in Ids : k # i => toWorker'[k] = toWorker[k]
        /\ toWorker'[i] = toWorker[i] \/ toWorker'[i] = toWorker[i] + 1
    <3>1. /\ entries \in SUBSET PendingCall /\ toWorker \in [Ids -> Nat] /\ i \in Ids
          /\ lost \subseteq Ids
      BY <1>0, <1>3, <1>4
    <3>2. DispatchDue(entries, toWorker, i)
      BY <1>10
    <3>3. DueSent(entries, toWorker, i)
      BY <3>1, <3>2, DueNow
    <3> QED BY <3>3 DEF DueSent
  <2>2. \A q \in pending' : Held(q) => q \in pending
    BY <1>3, <2>1 DEF entries
  <2>3. TypeOK'
    BY <1>4, <1>5, <1>10, <2>1
  <2> DEFINE S == {i}
  <2>4. \A k \in Ids : k \in S => Nowhere(k) /\ k <= nextRequestId' /\ toWorker'[k] <= 1
    BY <1>0, <1>1, <1>6, <2>1
  <2>5. \A k \in Ids : k \notin S => toWorker'[k] = toWorker[k]
    BY <2>1
  <2>6. \A q \in pending' : q.id <= nextRequestId'
    BY <1>3, <2>1
  <2>7. \A q \in pending' : Held(q) => Nowhere(q.id) /\ q.id \notin S
    BY <1>1, <1>3, <2>2 DEF entries
  <2>8. routerConnected' => router' = "initialized" /\ \A q \in pending' : ~Held(q)
    BY <1>10, <2>2
  <2> HIDE DEF S
  <2> QED BY <1>0, <1>4, <2>3, <2>4, <2>5, <2>6, <2>7, <2>8, SendStep
<1>11. CASE DispatchNow(p)
  <2>1. /\ UNCHANGED <<router, routerConnected, linked>> /\ Ready
        /\ DispatchDue(entries, toWorker, i)
    BY <1>2, <1>11 DEF DispatchNow, entries
  <2> QED BY <1>10, <2>1 DEF CallInv, TypeOK, NothingHeldBack, Ready
<1>12. ASSUME NEW connects \in BOOLEAN, AcquireKnown(p, connects) PROVE CallInv'
  <2> DEFINE after == OnRouterInitialized(entries, connects)
  <2>0. /\ router' = "initialized" /\ linked' = TRUE /\ routerConnected' = connects
        /\ DispatchDue(after.entries, after.wire, i)
    BY <1>2, <1>12 DEF AcquireKnown, entries
  <2>1. CASE connects
    <3> DEFINE S == {q.id : q \in ToDrain(entries)}
    <3>0. connects = TRUE
      BY <2>1
    <3>1. /\ after.entries \in SUBSET PendingCall /\ after.wire \in [Ids -> Nat]
          /\ \A q \in after.entries : ~Held(q)
          /\ \A q \in after.entries : \E r \in entries : r.id = q.id
          /\ after.wire = Send(toWorker, ToDrain(entries))
      <4>1. entries \in SUBSET PendingCall /\ TypeOK
        BY <1>3 DEF CallInv
      <4> QED BY <3>0, <4>1, Drained
    <3>2. Due(after.entries, i) = {}
      BY <3>1 DEF Due
    <3> HIDE DEF after
    <3>3. /\ pending' \subseteq PendingCall /\ toWorker' \in [Ids -> Nat] /\ lost' \subseteq Ids
          /\ calls' = calls
          /\ \A q \in pending' : Held(q) => q \in after.entries \ Due(after.entries, i)
          /\ \A q \in pending' : \E r \in after.entries : r.id = q.id /\ r.callable = q.callable
          /\ \A k \in Ids : k # i => toWorker'[k] = after.wire[k]
          /\ Due(after.entries, i) = {} => toWorker'[i] = after.wire[i]
      <4>1. /\ after.entries \in SUBSET PendingCall /\ after.wire \in [Ids -> Nat] /\ i \in Ids
            /\ lost \subseteq Ids
        BY <1>0, <1>4, <3>1
      <4>2. DispatchDue(after.entries, after.wire, i)
        BY <2>0
      <4>3. DueSent(after.entries, after.wire, i)
        BY <4>1, <4>2, DueNow
      <4> QED BY <4>3 DEF DueSent
    <3>4. TypeOK'
      BY <1>4, <1>5, <2>0, <3>3
    <3>5. \A k \in Ids : toWorker'[k] = Send(toWorker, ToDrain(entries))[k]
      BY <3>1, <3>2, <3>3
    <3>6. \A k \in Ids : /\ k \in S => toWorker'[k] = toWorker[k] + 1
                         /\ k \notin S => toWorker'[k] = toWorker[k]
      <4>1. \A k \in Ids :
              /\ (\E q \in ToDrain(entries) : q.id = k) =>
                    Send(toWorker, ToDrain(entries))[k] = toWorker[k] + 1
              /\ (\A q \in ToDrain(entries) : q.id # k) =>
                    Send(toWorker, ToDrain(entries))[k] = toWorker[k]
        BY <1>4, Sending
      <4> QED BY <3>5, <4>1
    <3>7. \A k \in Ids : k \in S => Nowhere(k) /\ k <= nextRequestId'
      BY <1>3 DEF ToDrain
    <3>8. \A k \in Ids : k \in S => toWorker'[k] <= 1
      BY <3>6, <3>7 DEF Nowhere
    <3>9. \A q \in pending' : q.id <= nextRequestId' /\ ~Held(q)
      BY <1>3, <3>1, <3>3
    <3> HIDE DEF S
    <3> QED BY <1>0, <1>4, <2>0, <3>4, <3>6, <3>7, <3>8, <3>9, SendStep
  <2>2. CASE ~connects
    <3>1. after.entries = entries /\ after.wire = toWorker /\ ~routerConnected'
      BY <2>0, <2>2 DEF OnRouterInitialized
    <3> HIDE DEF after
    <3> QED BY <1>10, <2>0, <3>1
  <2> QED BY <2>1, <2>2
<1> QED BY <1>7, <1>8, <1>9, <1>11, <1>12

-----------------------------------------------------------------------------
\* call() in the Worker: what arrives has been nowhere else, so it is executed
\* for the first time, or answered for want of a handler.
LEMMA ArrivalInv ==
  ASSUME CallInv, NEW i \in Ids, CallArrives(i)
  PROVE  CallInv'
<1>0. /\ toWorker[i] > 0 /\ toWorker' = [toWorker EXCEPT ![i] = @ - 1]
      /\ UNCHANGED <<alive, hasNode, connected, router, routerConnected, nextRequestId, pending,
                     timers, linked, hasHandler, restarts, calls, lost>>
  BY DEF CallArrives, bridgeVars
<1>1. /\ toWorker[i] = 1 /\ i \notin inFlight /\ executed[i] = 0 /\ completions[i] = 0
      /\ toWorker' \in [Ids -> Nat] /\ toWorker'[i] = 0
      /\ \A k \in Ids : k # i => toWorker'[k] = toWorker[k]
  <2>1. toWorker \in [Ids -> Nat]
    BY DEF CallInv, TypeOK
  <2>2. toWorker[i] = 1 /\ i \notin inFlight /\ executed[i] = 0 /\ completions[i] = 0
    BY <1>0, <2>1 DEF CallInv, UnderwayUnserved
  <2>3. toWorker' = [toWorker EXCEPT ![i] = 0]
    BY <1>0, <2>1, <2>2
  <2> QED BY <2>1, <2>2, <2>3
<1>2. \/ /\ inFlight' = inFlight \cup {i} /\ hosted' = hosted \cup {i}
         /\ executed' = [executed EXCEPT ![i] = @ + 1]
         /\ UNCHANGED <<completions, toPage>>
      \/ /\ inFlight' = (inFlight \cup {i}) \ {i}
         /\ completions' = [completions EXCEPT ![i] = @ + 1]
         /\ toPage' \subseteq toPage \cup {i}
         /\ UNCHANGED <<hosted, executed>>
  BY DEF CallArrives, Unhandled, Complete, InBooks
<1>3. \A k \in Ids \ {i} : /\ executed'[k] = executed[k] /\ completions'[k] = completions[k]
                           /\ k \in inFlight' => k \in inFlight
  BY <1>2 DEF CallInv, TypeOK
<1>4. /\ executed' \in [Ids -> Nat] /\ completions' \in [Ids -> Nat]
      /\ executed'[i] <= 1 /\ completions'[i] <= 1
      /\ i \in inFlight' => completions'[i] = 0
  BY <1>1, <1>2 DEF CallInv, TypeOK
<1>5. TypeOK'
  BY <1>0, <1>1, <1>2, <1>4 DEF CallInv, TypeOK
<1>6. i <= nextRequestId /\ \A p \in pending : Held(p) => p.id # i
  BY <1>1 DEF CallInv, TypeOK, FreshAreNowhere, HeldAreNowhere, Nowhere, Ids
<1>7. FreshAreNowhere'
  BY <1>0, <1>1, <1>3, <1>6 DEF CallInv, TypeOK, FreshAreNowhere, Nowhere, Entries, Ids
<1>8. HeldAreNowhere'
  BY <1>0, <1>1, <1>3, <1>6 DEF CallInv, TypeOK, HeldAreNowhere, Nowhere, Held, PendingCall
<1>9. UnderwayUnserved' /\ OpenUnanswered' /\ ExecutedAtMostOnce'
  <2>1. UnderwayUnserved'
    BY <1>1, <1>3 DEF CallInv, TypeOK, UnderwayUnserved
  <2>2. OpenUnanswered'
    BY <1>3, <1>4, <1>5 DEF CallInv, TypeOK, OpenUnanswered
  <2>3. ExecutedAtMostOnce'
    BY <1>3, <1>4 DEF CallInv, ExecutedAtMostOnce
  <2> QED BY <2>1, <2>2, <2>3
<1>10. HearingIsReady' /\ NothingHeldBack'
  BY <1>0 DEF CallInv, HearingIsReady, NothingHeldBack, Ready, Held
<1> QED BY <1>5, <1>7, <1>8, <1>9, <1>10 DEF CallInv

\* complete(): a call in flight has not been answered; any other is ignored.
LEMMA CompletionInv ==
  ASSUME CallInv, NEW i \in Ids, HostCompletes(i)
  PROVE  CallInv'
<1>0. UNCHANGED <<alive, hasNode, connected, router, routerConnected, nextRequestId, pending,
                  timers, toWorker, linked, hasHandler, hosted, restarts, calls, executed, lost>>
  BY DEF HostCompletes, bridgeVars
<1>1. CASE i \in inFlight
  <2>1. /\ inFlight' = inFlight \ {i} /\ toPage' \subseteq toPage \cup {i}
        /\ completions' = [completions EXCEPT ![i] = @ + 1]
    BY <1>1 DEF HostCompletes, Complete, InBooks
  <2>2. completions[i] = 0
    BY <1>1 DEF CallInv, OpenUnanswered
  <2>3. /\ completions' \in [Ids -> Nat] /\ completions'[i] <= 1
        /\ \A k \in Ids \ {i} : completions'[k] = completions[k]
    BY <2>1, <2>2 DEF CallInv, TypeOK
  <2>4. TypeOK'
    BY <1>0, <2>1, <2>3 DEF CallInv, TypeOK
  <2>5. /\ i <= nextRequestId /\ toWorker[i] = 0
        /\ \A p \in pending : Held(p) => p.id # i
    BY <1>1 DEF CallInv, TypeOK, FreshAreNowhere, HeldAreNowhere, UnderwayUnserved, Nowhere, Ids
  <2>6. FreshAreNowhere'
    BY <1>0, <2>1, <2>3, <2>5 DEF CallInv, TypeOK, FreshAreNowhere, Nowhere, Entries, Ids
  <2>7. HeldAreNowhere'
    BY <1>0, <2>1, <2>3, <2>5 DEF CallInv, TypeOK, HeldAreNowhere, Nowhere, Held, PendingCall
  <2>8. UnderwayUnserved' /\ OpenUnanswered' /\ ExecutedAtMostOnce'
    BY <1>0, <2>1, <2>3, <2>5
       DEF CallInv, TypeOK, UnderwayUnserved, OpenUnanswered, ExecutedAtMostOnce
  <2>9. HearingIsReady' /\ NothingHeldBack'
    BY <1>0 DEF CallInv, HearingIsReady, NothingHeldBack, Ready, Held
  <2> QED BY <2>4, <2>6, <2>7, <2>8, <2>9 DEF CallInv
<1>2. CASE i \notin inFlight
  <2>1. UNCHANGED <<inFlight, completions, toPage>>
    BY <1>2 DEF HostCompletes, Complete, InBooks
  <2>2. TypeOK'
    BY <1>0, <2>1 DEF CallInv, TypeOK
  <2> QED BY <1>0, <2>1, <2>2, QuietStep
<1> QED BY <1>1, <1>2

\* deliver() takes entries away and calls what it took.
LEMMA DeliverTypes ==
  ASSUME TypeOK, NEW i \in Ids, Deliver(pending, i)
  PROVE  pending' \subseteq pending /\ calls' \in [Ids -> Nat]
<1>1. pending' \subseteq pending
  BY DEF Deliver, Erase
<1>2. (IF \E p \in pending : p.id = i /\ p.callable THEN 1 ELSE 0) \in Nat
  OBVIOUS
<1>3. calls' \in [Ids -> Nat]
  BY <1>2 DEF Deliver, TypeOK
<1> QED BY <1>1, <1>3

-----------------------------------------------------------------------------
LEMMA CallsStep == CallInv /\ [Next]_vars => CallInv'
<1> SUFFICES ASSUME CallInv, [Next]_vars PROVE CallInv'
  OBVIOUS
<1>1. CASE ConnectToBackend
  <2>1. TypeOK'
    BY <1>1 DEF ConnectToBackend, CallInv, TypeOK, wireVars, workerVars
  <2> QED BY <1>1, <2>1, QuietStep DEF ConnectToBackend, wireVars, workerVars
<1>2. ASSUME NEW callable \in BOOLEAN, NEW timed \in BOOLEAN, CallModuleAsync(callable, timed)
      PROVE  CallInv'
  BY <1>2, CallStepInv
<1>3. ASSUME NEW connects \in BOOLEAN, RouterInitialized(connects) PROVE CallInv'
  BY <1>3, DrainInv
<1>4. ASSUME NEW i \in Ids, TimerFires(i) PROVE CallInv'
  <2>1. Deliver(pending, i) /\ TypeOK
    BY <1>4 DEF TimerFires, CallInv
  <2>2. TypeOK'
    BY <1>4, <2>1, DeliverTypes DEF TimerFires, TypeOK, wireVars, workerVars
  <2> QED BY <1>4, <2>1, <2>2, DeliverTypes, QuietStep DEF TimerFires, wireVars, workerVars
<1>5. ASSUME NEW i \in Ids, CompletionArrives(i) PROVE CallInv'
  <2>1. TypeOK /\ toPage' \subseteq toPage /\ lost' \subseteq Ids
        /\ UNCHANGED <<alive, hasNode, connected, router, routerConnected, nextRequestId, timers,
                      toWorker, linked, hasHandler, inFlight, hosted, restarts, executed,
                      completions>>
    BY <1>5 DEF CompletionArrives, CallInv, TypeOK, workerVars
  <2>2. pending' \subseteq pending /\ calls' \in [Ids -> Nat]
    <3>1. CASE Deliver(pending, i)
      BY <2>1, <3>1, DeliverTypes
    <3>2. CASE UNCHANGED <<pending, calls>>
      BY <2>1, <3>2 DEF TypeOK
    <3> QED BY <1>5, <3>1, <3>2 DEF CompletionArrives
  <2>3. TypeOK'
    BY <2>1, <2>2 DEF TypeOK
  <2> QED BY <2>1, <2>2, <2>3, QuietStep
<1>6. ASSUME NEW i \in Ids, CallArrives(i) PROVE CallInv'
  BY <1>6, ArrivalInv
<1>7. CASE DestroyBridge
  <2>1. TypeOK'
    BY <1>7 DEF DestroyBridge, CallInv, TypeOK
  <2> QED BY <1>7, <2>1, QuietStep DEF DestroyBridge
<1>8. CASE SetHandler
  <2>1. TypeOK'
    BY <1>8 DEF SetHandler, CallInv, TypeOK, bridgeVars, wireVars
  <2> QED BY <1>8, <2>1, QuietStep DEF SetHandler, bridgeVars, wireVars
<1>9. ASSUME NEW i \in Ids, HostCompletes(i) PROVE CallInv'
  BY <1>9, CompletionInv
<1>10. CASE WorkerDies
  <2>1. restarts' \in 0..MaxRestarts
    BY <1>10, WebAssumptions DEF WorkerDies, CallInv, TypeOK
  <2>2. lost' \subseteq Ids /\ linked' \in BOOLEAN /\ hasHandler' \in BOOLEAN
    BY <1>10 DEF WorkerDies, CallInv, TypeOK
  <2>3. TypeOK'
    BY <1>10, <2>1, <2>2 DEF WorkerDies, CallInv, TypeOK, bridgeVars
  <2> QED BY <1>10, <2>3, QuietStep DEF WorkerDies, bridgeVars
<1>11. CASE UNCHANGED vars
  <2>1. TypeOK'
    BY <1>11 DEF vars, bridgeVars, wireVars, workerVars, CallInv, TypeOK
  <2> QED BY <1>11, <2>1, QuietStep DEF vars, bridgeVars, wireVars, workerVars
<1> QED BY <1>1, <1>2, <1>3, <1>4, <1>5, <1>6, <1>7, <1>8, <1>9, <1>10, <1>11 DEF Next

\* Whatever a bridge that also watches slot calls does, its backend calls are
\* those of WebCalls.
LEMMA BridgeCalls == BridgeSpec => Spec
<1>1. BridgeInit => Init
  BY DEF BridgeInit
<1>2. [BridgeNext]_<<vars, watchVars>> => [Next]_vars
  BY DEF BridgeNext, CallStep, Next
<1> QED BY <1>1, <1>2, PTL DEF BridgeSpec, Spec

THEOREM CallsAreSound == BridgeSpec => []CallInv
<1>1. Spec => []CallInv
  BY InitCalls, CallsStep, PTL DEF Spec
<1> QED BY <1>1, BridgeCalls, PTL

\* Bridge, wire and Worker are well typed for any number of calls and deaths.
THEOREM WebTypes == BridgeSpec => []TypeOK
<1>1. CallInv => TypeOK
  BY DEF CallInv
<1> QED BY <1>1, CallsAreSound, PTL

\* A call is executed and answered at most once, however often the Worker dies
\* and the replica is initialised again.
THEOREM NotTwice == BridgeSpec => []ExecutedAtMostOnce
<1>1. CallInv => ExecutedAtMostOnce
  BY DEF CallInv
<1> QED BY <1>1, CallsAreSound, PTL

\* A bridge that hears the router holds no call back: every call it held, whatever
\* brought the replica up, has been sent.
THEOREM NothingLeftBehind == BridgeSpec => []NothingHeldBack
<1>1. CallInv => NothingHeldBack
  BY DEF CallInv
<1> QED BY <1>1, CallsAreSound, PTL

-----------------------------------------------------------------------------
(***************************************************************************)
(* The calls implement the callback contract.                              *)
(***************************************************************************)

Recorded(i)   == Entries(i) # {}
CanCallBack(i) == \E p \in Entries(i) : p.callable

\* Who is on record has not been called back, and nobody is called back twice.
AnswerInv ==
  \A i \in Ids :
    /\ calls[i] <= 1
    /\ i > nextRequestId \/ Recorded(i) => calls[i] = 0

\* A step that moves one call along the contract, or none, is a step of it.
LEMMA OneCallMoves ==
  ASSUME NEW i \in Ids,
         \A k \in Ids : k # i => StatusOf(k)' = StatusOf(k),
         \/ StatusOf(i)' = StatusOf(i)
         \/ StatusOf(i) = "idle" /\ StatusOf(i)' \in {"waiting", "answered", "dropped"}
         \/ StatusOf(i) = "waiting" /\ StatusOf(i)' = "answered"
  PROVE  [Contract!Next]_Status
<1>1. /\ Status = [k \in Ids |-> StatusOf(k)]
      /\ Status' = [Status EXCEPT ![i] = StatusOf(i)']
  BY DEF Status
<1>2. CASE StatusOf(i)' = StatusOf(i)
  BY <1>1, <1>2
<1>3. CASE StatusOf(i) = "idle" /\ StatusOf(i)' \in {"waiting", "answered", "dropped"}
  <2>1. Contract!Ask(i, StatusOf(i)')
    BY <1>1, <1>3 DEF Contract!Ask
  <2> QED BY <1>3, <2>1 DEF Contract!Next
<1>4. CASE StatusOf(i) = "waiting" /\ StatusOf(i)' = "answered"
  <2>1. Contract!Answer(i)
    BY <1>1, <1>4 DEF Contract!Answer
  <2> QED BY <2>1 DEF Contract!Next
<1> QED BY <1>2, <1>3, <1>4

\* A step that changes neither a count nor what an entry can do moves no call.
LEMMA NoCallMoves ==
  ASSUME CallInv, AnswerInv, nextRequestId' = nextRequestId, calls' = calls,
         \A i \in Ids : Recorded(i)' <=> Recorded(i),
         \A i \in Ids : CanCallBack(i)' <=> CanCallBack(i)
  PROVE  AnswerInv' /\ [Contract!Next]_Status
<1>1. AnswerInv'
  BY DEF AnswerInv
<1>2. \A i \in Ids : StatusOf(i)' = StatusOf(i)
  BY DEF StatusOf, CanCallBack
<1> QED BY <1>1, <1>2 DEF Status

\* deliver(): the entry goes, and its callback runs if it has one.
LEMMA DeliverMoves ==
  ASSUME CallInv, AnswerInv, NEW i \in Ids, Deliver(pending, i), nextRequestId' = nextRequestId
  PROVE  AnswerInv' /\ [Contract!Next]_Status
<1> USE DEF CallInv
<1>1. calls \in [Ids -> Nat] /\ nextRequestId \in Nat
  BY DEF TypeOK
<1>2. ~Recorded(i)' /\ ~CanCallBack(i)'
  BY DEF Deliver, Erase, Entries, Recorded, CanCallBack
<1>3. \A k \in Ids : k # i => /\ calls'[k] = calls[k] /\ Entries(k)' = Entries(k)
  BY <1>1 DEF Deliver, Erase, Entries
<1>4. CASE CanCallBack(i)
  <2>1. calls[i] = 0 /\ calls'[i] = 1 /\ i <= nextRequestId
    BY <1>1, <1>4 DEF AnswerInv, Recorded, CanCallBack, Entries, Deliver, FreshAreNowhere, Ids
  <2>2. AnswerInv'
    BY <1>1, <1>2, <1>3, <2>1 DEF AnswerInv, Recorded, Ids
  <2>3. StatusOf(i) = "waiting" /\ StatusOf(i)' = "answered"
    BY <1>1, <1>4, <2>1 DEF StatusOf, CanCallBack, Ids
  <2>4. \A k \in Ids : k # i => StatusOf(k)' = StatusOf(k)
    BY <1>3 DEF StatusOf
  <2> QED BY <2>2, <2>3, <2>4, OneCallMoves
<1>5. CASE ~CanCallBack(i)
  <2>1. calls'[i] = calls[i]
    BY <1>1, <1>5 DEF Deliver, CanCallBack, Entries
  <2>2. AnswerInv'
    BY <1>1, <1>2, <1>3, <2>1 DEF AnswerInv, Recorded
  <2>3. StatusOf(i)' = StatusOf(i)
    BY <1>2, <1>5, <2>1 DEF StatusOf, CanCallBack
  <2>4. \A k \in Ids : k # i => StatusOf(k)' = StatusOf(k)
    BY <1>3 DEF StatusOf
  <2> QED BY <2>2, <2>3, <2>4, OneCallMoves
<1> QED BY <1>4, <1>5

\* The new entry is on record, sent or not, and the others are what they were.
Kept(entries) ==
  /\ \A q \in pending' : \E p \in entries : p.id = q.id /\ p.callable = q.callable
  /\ \A p \in entries : \E q \in pending' : p.id = q.id /\ p.callable = q.callable

LEMMA CallKeeps ==
  ASSUME CallInv, NEW p \in PendingCall, p.id \in Ids,
         \/ Hold(p) \/ DispatchNow(p)
         \/ \E connects \in BOOLEAN : AcquireKnown(p, connects)
  PROVE  Kept(pending \cup {p}) /\ calls' = calls
<1> DEFINE entries == pending \cup {p}
<1>1. /\ entries \in SUBSET PendingCall /\ toWorker \in [Ids -> Nat] /\ lost \subseteq Ids
      /\ TypeOK
  BY DEF CallInv, TypeOK
<1>2. CASE Hold(p)
  BY <1>2 DEF Hold, Kept
<1>3. CASE DispatchNow(p)
  <2>1. DispatchDue(entries, toWorker, p.id)
    BY <1>3 DEF DispatchNow
  <2> HIDE DEF entries
  <2>2. DueSent(entries, toWorker, p.id)
    BY <1>1, <2>1, DueNow
  <2> USE DEF entries
  <2> QED BY <2>2 DEF DueSent, Kept
<1>4. ASSUME NEW connects \in BOOLEAN, AcquireKnown(p, connects)
      PROVE  Kept(entries) /\ calls' = calls
  <2> DEFINE after == OnRouterInitialized(entries, connects)
  <2>1. DispatchDue(after.entries, after.wire, p.id)
    BY <1>4 DEF AcquireKnown
  <2> HIDE DEF entries
  <2>2. /\ after.entries \in SUBSET PendingCall /\ after.wire \in [Ids -> Nat]
        /\ \A q \in after.entries : \E r \in entries : r.id = q.id /\ r.callable = q.callable
        /\ \A r \in entries : \E q \in after.entries : r.id = q.id /\ r.callable = q.callable
    <3>1. CASE connects = TRUE
      BY <1>1, <3>1, Drained
    <3>2. CASE connects = FALSE
      BY <1>1, <3>2 DEF OnRouterInitialized
    <3> QED BY <3>1, <3>2
  <2> HIDE DEF after
  <2>3. DueSent(after.entries, after.wire, p.id)
    BY <1>1, <2>1, <2>2, DueNow
  <2>4. calls' = calls
    BY <2>3 DEF DueSent
  <2>5. /\ \A q \in pending' :
             \E r \in after.entries : r.id = q.id /\ r.callable = q.callable
        /\ \A r \in after.entries :
             \E q \in pending' : r.id = q.id /\ r.callable = q.callable
    BY <2>3 DEF DueSent
  <2>6. Kept(entries)
    BY <2>2, <2>5 DEF Kept
  <2> QED BY <2>4, <2>6
<1> QED BY <1>2, <1>3, <1>4

\* callModuleAsync(): refused on the spot, or on record from now on.
LEMMA CallMoves ==
  ASSUME CallInv, AnswerInv, NEW callable \in BOOLEAN, NEW timed \in BOOLEAN,
         CallModuleAsync(callable, timed)
  PROVE  AnswerInv' /\ [Contract!Next]_Status
<1>0. PICK i \in Ids : i = nextRequestId + 1
  BY WebAssumptions DEF CallInv, TypeOK, CallModuleAsync, Ids
<1> DEFINE p == [id |-> i, callable |-> callable, dispatched |-> FALSE]
<1>1. /\ nextRequestId' = i /\ i = nextRequestId + 1 /\ nextRequestId \in Nat
      /\ calls \in [Ids -> Nat]
  BY <1>0, WebAssumptions DEF CallInv, TypeOK, CallModuleAsync, NextId
<1>2. calls[i] = 0 /\ Entries(i) = {} /\ StatusOf(i) = "idle"
  BY <1>1 DEF CallInv, AnswerInv, FreshAreNowhere, StatusOf, Ids
<1>3. \A k \in Ids : k # i => (k > nextRequestId' <=> k > nextRequestId)
  BY <1>1 DEF Ids
<1>4. \/ Refuse(p) \/ Hold(p) \/ DispatchNow(p)
      \/ \E connects \in BOOLEAN : AcquireKnown(p, connects)
  BY <1>0 DEF CallModuleAsync, NextId
<1>5. p \in PendingCall /\ p.id = i /\ p.callable = callable
  BY DEF PendingCall
<1> HIDE DEF p
<1>6. CASE Refuse(p)
  <2> DEFINE more == IF \E q \in pending \cup {p} : q.id = i /\ q.callable THEN 1 ELSE 0
  <2>1. /\ pending' = {q \in pending \cup {p} : q.id # i}
        /\ calls' = [calls EXCEPT ![i] = @ + more]
    BY <1>5, <1>6 DEF Refuse, Deliver, Erase
  <2>2. more \in {0, 1}
    OBVIOUS
  <2> HIDE DEF more
  <2>3. /\ \A k \in Ids : k # i => Entries(k)' = Entries(k) /\ calls'[k] = calls[k]
        /\ Entries(i)' = {}
        /\ calls'[i] \in {0, 1}
    BY <1>1, <1>2, <1>5, <2>1, <2>2 DEF Entries
  <2>4. AnswerInv'
    BY <1>1, <1>2, <2>3 DEF AnswerInv, Recorded, Ids
  <2>5. StatusOf(i)' \in {"answered", "dropped"}
    BY <1>1, <1>2, <2>3 DEF StatusOf, Ids
  <2>6. \A k \in Ids : k # i => StatusOf(k)' = StatusOf(k)
    BY <1>3, <2>3 DEF StatusOf
  <2>7. StatusOf(i) = "idle" /\ StatusOf(i)' \in {"waiting", "answered", "dropped"}
    BY <1>2, <2>5
  <2>8. [Contract!Next]_Status
    BY <2>6, <2>7, OneCallMoves
  <2> QED BY <2>4, <2>8
<1>7. CASE Hold(p) \/ DispatchNow(p) \/ \E connects \in BOOLEAN : AcquireKnown(p, connects)
  <2>1. Kept(pending \cup {p}) /\ calls' = calls
    BY <1>5, <1>7, CallKeeps
  <2>2. \A k \in Ids : k # i => /\ Recorded(k)' <=> Recorded(k)
                                /\ CanCallBack(k)' <=> CanCallBack(k)
    BY <1>5, <2>1 DEF Kept, Recorded, CanCallBack, Entries
  <2>3. AnswerInv'
    BY <1>1, <1>2, <2>1, <2>2 DEF AnswerInv, Ids
  <2>4. StatusOf(i)' \in {"waiting", "dropped"}
    BY <1>1, <1>2, <2>1 DEF StatusOf, Ids
  <2>5. \A k \in Ids : k # i => StatusOf(k)' = StatusOf(k)
    BY <1>3, <2>1, <2>2 DEF StatusOf, CanCallBack
  <2>6. StatusOf(i) = "idle" /\ StatusOf(i)' \in {"waiting", "answered", "dropped"}
    BY <1>2, <2>4
  <2>7. [Contract!Next]_Status
    BY <2>5, <2>6, OneCallMoves
  <2> QED BY <2>3, <2>7
<1> QED BY <1>4, <1>6, <1>7

\* The drain changes no entry but for its being dispatched.
LEMMA DrainMoves ==
  ASSUME CallInv, AnswerInv, NEW connects \in BOOLEAN, RouterInitialized(connects)
  PROVE  AnswerInv' /\ [Contract!Next]_Status
<1>1. /\ pending' = OnRouterInitialized(pending, connects).entries
      /\ UNCHANGED <<nextRequestId, calls>>
  BY DEF RouterInitialized
<1>2. pending \in SUBSET PendingCall /\ TypeOK
  BY DEF CallInv, TypeOK
<1>3. Kept(pending)
  <2>1. CASE connects = TRUE
    <3>1. /\ \A q \in pending' : \E p \in pending : p.id = q.id /\ p.callable = q.callable
          /\ \A p \in pending : \E q \in pending' : p.id = q.id /\ p.callable = q.callable
      BY <1>1, <1>2, <2>1, Drained
    <3> QED BY <3>1 DEF Kept
  <2>2. CASE connects = FALSE
    <3>1. pending' = pending
      BY <1>1, <2>2 DEF OnRouterInitialized
    <3> QED BY <3>1 DEF Kept
  <2> QED BY <2>1, <2>2
<1>4. \A i \in Ids : (Recorded(i)' <=> Recorded(i)) /\ (CanCallBack(i)' <=> CanCallBack(i))
  BY <1>3 DEF Kept, Recorded, CanCallBack, Entries
<1> QED BY <1>1, <1>4, NoCallMoves

\* A destroyed bridge drops whatever it has on record.
LEMMA DestructionDrops ==
  ASSUME CallInv, AnswerInv, DestroyBridge
  PROVE  AnswerInv' /\ [Contract!Next]_Status
<1> DEFINE S == {i \in Ids : StatusOf(i) = "waiting"}
<1>1. pending' = {} /\ calls' = calls /\ nextRequestId' = nextRequestId
  BY DEF DestroyBridge
<1>2. AnswerInv'
  BY <1>1 DEF AnswerInv, Recorded, Entries
<1>3. \A i \in Ids : StatusOf(i)' = IF i \in S THEN "dropped" ELSE StatusOf(i)
  BY <1>1 DEF StatusOf, Entries
<1>4. Status' = [i \in Ids |-> IF i \in S THEN "dropped" ELSE Status[i]]
  BY <1>3 DEF Status
<1>5. Contract!Drop(S) /\ S \in SUBSET Ids
  BY <1>4 DEF Contract!Drop, Status
<1> QED BY <1>2, <1>5 DEF Contract!Next

LEMMA ContractStep ==
  ASSUME CallInv, AnswerInv, [Next]_vars
  PROVE  AnswerInv' /\ [Contract!Next]_Status
<1>1. ASSUME NEW callable \in BOOLEAN, NEW timed \in BOOLEAN, CallModuleAsync(callable, timed)
      PROVE  AnswerInv' /\ [Contract!Next]_Status
  BY <1>1, CallMoves
<1>2. ASSUME NEW i \in Ids, TimerFires(i) \/ CompletionArrives(i)
      PROVE  AnswerInv' /\ [Contract!Next]_Status
  <2>1. nextRequestId' = nextRequestId
    BY <1>2 DEF TimerFires, CompletionArrives
  <2>2. CASE Deliver(pending, i)
    BY <2>1, <2>2, DeliverMoves
  <2>3. CASE UNCHANGED <<pending, calls>>
    BY <2>1, <2>3, NoCallMoves DEF Recorded, CanCallBack, Entries
  <2> QED BY <1>2, <2>2, <2>3 DEF TimerFires, CompletionArrives
<1>3. ASSUME NEW connects \in BOOLEAN, RouterInitialized(connects)
      PROVE  AnswerInv' /\ [Contract!Next]_Status
  BY <1>3, DrainMoves
<1>4. CASE DestroyBridge
  BY <1>4, DestructionDrops
<1>5. ASSUME \/ ConnectToBackend \/ SetHandler \/ WorkerDies \/ UNCHANGED vars
             \/ \E i \in Ids : CallArrives(i) \/ HostCompletes(i)
      PROVE  AnswerInv' /\ [Contract!Next]_Status
  <2>1. UNCHANGED <<nextRequestId, pending, calls>>
    BY <1>5 DEF ConnectToBackend, SetHandler, WorkerDies, vars, CallArrives, HostCompletes,
                bridgeVars
  <2> QED BY <2>1, NoCallMoves DEF Recorded, CanCallBack, Entries
<1> QED BY <1>1, <1>2, <1>3, <1>4, <1>5 DEF Next

\* The bridge's calls implement the callback contract: reply, timeout, refusal
\* and destruction race, and one of them ends each call.
THEOREM KeepsContract == BridgeSpec => ImplementsContract
<1>1. Init => AnswerInv /\ Contract!Init
  BY WebAssumptions DEF Init, AnswerInv, Recorded, Entries, Contract!Init, Status, StatusOf, Ids
<1>2. CallInv /\ AnswerInv /\ [Next]_vars => AnswerInv' /\ [Contract!Next]_Status
  BY ContractStep
<1>3. BridgeSpec => []CallInv /\ Init /\ [][Next]_vars
  BY CallsAreSound, BridgeCalls, PTL DEF Spec
<1> QED BY <1>1, <1>2, <1>3, PTL DEF ImplementsContract, Contract!Spec

-----------------------------------------------------------------------------
(***************************************************************************)
(* Watched slot calls.  What a call's callbacks heard is told by where the *)
(* call is: nothing before it is watched and while it has a watcher, which *)
(* is as long as it runs.                                                  *)
(***************************************************************************)

UncalledIsUnwatched ==
  \A c \in SlotCalls : reply[c] = "uncalled" => watched[c] = {"never"}

UnwatchedIsUntold ==
  \A c \in SlotCalls : watched[c] = {"never"} => told[c] = Watching!Untold /\ c \notin watchers

WatchersWait ==
  \A c \in watchers : alive /\ reply[c] = "running" /\ told[c] = Watching!Untold

RunningHaveWatchers ==
  \A c \in SlotCalls :
    alive /\ watched[c] # {"never"} /\ reply[c] = "running" => c \in watchers

\* The inductive invariant.
WatchInv ==
  /\ Watching!TypeOK
  /\ UncalledIsUnwatched
  /\ UnwatchedIsUntold
  /\ WatchersWait
  /\ RunningHaveWatchers
  /\ EveryOutcomeIsTold

\* To tell a call once more than nothing.
LEMMA Telling ==
  ASSUME Watching!TypeOK, NEW c \in SlotCalls, NEW callback \in {"onSuccess", "onError"},
         NEW callables, told[c] = Watching!Untold, Watching!Tell(c, callback, callables)
  PROVE  /\ told' \in [SlotCalls -> Watching!Told]
         /\ \A d \in SlotCalls : d # c => told'[d] = told[d]
         /\ callback \in callables =>
              told'[c] = [Watching!Untold EXCEPT ![callback] = 1]
<1>1. CASE callback \in callables
  <2>0. [Watching!Untold EXCEPT ![callback] = @ + 1] = [Watching!Untold EXCEPT ![callback] = 1]
    <3>1. Watching!Untold[callback] + 1 = 1
      BY DEF Watching!Untold
    <3> QED BY <3>1
  <2>1. told' = [told EXCEPT ![c] = [Watching!Untold EXCEPT ![callback] = 1]]
    <3>1. told' = [told EXCEPT ![c] = [told[c] EXCEPT ![callback] = @ + 1]]
      BY <1>1 DEF Watching!Tell
    <3> QED BY <2>0, <3>1
  <2>2. [Watching!Untold EXCEPT ![callback] = 1] \in Watching!Told
    BY DEF Watching!Untold, Watching!Told
  <2> QED BY <1>1, <2>1, <2>2 DEF Watching!TypeOK
<1>2. CASE callback \notin callables
  BY <1>2 DEF Watching!Tell, Watching!TypeOK
<1> QED BY <1>1, <1>2

\* A step that leaves the slot calls alone, but for the bridge's end.
LEMMA QuietWatch ==
  ASSUME WatchInv, UNCHANGED <<reply, watched, told>>, alive' \in BOOLEAN,
         \/ alive' = alive /\ watchers' = watchers
         \/ ~alive' /\ watchers' = {}
  PROVE  WatchInv'
<1>1. Watching!TypeOK'
  BY DEF WatchInv, Watching!TypeOK
<1>2. UncalledIsUnwatched' /\ UnwatchedIsUntold'
  BY DEF WatchInv, UncalledIsUnwatched, UnwatchedIsUntold
<1>3. WatchersWait' /\ RunningHaveWatchers'
  BY DEF WatchInv, WatchersWait, RunningHaveWatchers
<1>4. EveryOutcomeIsTold'
  BY DEF WatchInv, EveryOutcomeIsTold, Watching!EveryOutcomeIsTold, Watching!Heard
<1> QED BY <1>1, <1>2, <1>3, <1>4 DEF WatchInv

\* A slot call is not watched yet, whatever came of it.
LEMMA SlotCallWatch ==
  ASSUME WatchInv, NEW c \in SlotCalls, NEW r \in {"running", "plain", "invalid"},
         Watching!CallSlot(c, r)
  PROVE  WatchInv'
<1>1. /\ watched[c] = {"never"} /\ c \notin watchers
      /\ reply' = [reply EXCEPT ![c] = r]
      /\ UNCHANGED <<alive, watchers, watched, told>>
  BY DEF Watching!CallSlot, WatchInv, UncalledIsUnwatched, UnwatchedIsUntold
<1>2. \A d \in SlotCalls : d # c => reply'[d] = reply[d]
  BY <1>1 DEF WatchInv, Watching!TypeOK
<1>3. Watching!TypeOK'
  BY <1>1 DEF WatchInv, Watching!TypeOK
<1>4. UncalledIsUnwatched' /\ UnwatchedIsUntold' /\ RunningHaveWatchers'
  BY <1>1, <1>2 DEF WatchInv, UncalledIsUnwatched, UnwatchedIsUntold, RunningHaveWatchers
<1>5. WatchersWait'
  BY <1>1, <1>2 DEF WatchInv, Watching!TypeOK, WatchersWait
<1>6. EveryOutcomeIsTold'
  BY <1>1, <1>2
     DEF WatchInv, EveryOutcomeIsTold, Watching!EveryOutcomeIsTold, Watching!Heard
<1> QED BY <1>3, <1>4, <1>5, <1>6 DEF WatchInv

\* watch(): what is over is told now, what runs gets a watcher.
LEMMA WatchWatch ==
  ASSUME WatchInv, NEW c \in SlotCalls, NEW callables \in Watching!Callbacks,
         Watching!Watch(c, callables)
  PROVE  WatchInv'
<1>1. /\ alive /\ reply[c] # "uncalled" /\ watched[c] = {"never"}
      /\ watched' = [watched EXCEPT ![c] = callables]
      /\ UNCHANGED <<alive, reply>>
  BY DEF Watching!Watch
<1>2. /\ told[c] = Watching!Untold /\ c \notin watchers
      /\ callables # {"never"}
  BY <1>1 DEF WatchInv, UnwatchedIsUntold, Watching!Callbacks
<1>3. /\ watched' \in [SlotCalls -> Watching!Callbacks \cup {{"never"}}]
      /\ watched'[c] = callables
      /\ \A d \in SlotCalls : d # c => watched'[d] = watched[d]
  BY <1>1 DEF WatchInv, Watching!TypeOK
<1>4. UncalledIsUnwatched'
  BY <1>1, <1>3 DEF WatchInv, UncalledIsUnwatched
<1>5. CASE Watching!FinishedFirst(c)
  <2>1. /\ Watching!Tell(c, Watching!Outcome(reply[c]), callables)
        /\ watchers' = watchers /\ reply[c] # "running"
    BY <1>5 DEF Watching!Watch, Watching!FinishedFirst, Watching!Finished
  <2>2. Watching!Outcome(reply[c]) \in {"onSuccess", "onError"}
    BY DEF Watching!Outcome
  <2>3. /\ told' \in [SlotCalls -> Watching!Told]
        /\ \A d \in SlotCalls : d # c => told'[d] = told[d]
        /\ Watching!Outcome(reply[c]) \in callables =>
             told'[c] = [Watching!Untold EXCEPT ![Watching!Outcome(reply[c])] = 1]
    BY <1>2, <2>1, <2>2, Telling DEF WatchInv
  <2>4. Watching!TypeOK'
    BY <1>1, <1>3, <2>1, <2>3 DEF WatchInv, Watching!TypeOK
  <2>5. UnwatchedIsUntold' /\ RunningHaveWatchers'
    BY <1>1, <1>2, <1>3, <2>1, <2>3 DEF WatchInv, UnwatchedIsUntold, RunningHaveWatchers
  <2>6. WatchersWait'
    BY <1>1, <1>2, <2>1, <2>3 DEF WatchInv, Watching!TypeOK, WatchersWait
  <2>7. callables = {"onSuccess", "onError"} =>
          /\ told'[c].onSuccess + told'[c].onError = 1
          /\ reply[c] \in {"value", "plain"} => told'[c].onSuccess = 1
          /\ reply[c] = "invalid" => told'[c].onError = 1
    BY <2>2, <2>3 DEF Watching!Outcome, Watching!Untold
  <2>8. EveryOutcomeIsTold'
    BY <1>1, <1>3, <2>1, <2>3, <2>7
       DEF WatchInv, EveryOutcomeIsTold, Watching!EveryOutcomeIsTold, Watching!Heard
  <2> QED BY <1>4, <2>4, <2>5, <2>6, <2>8 DEF WatchInv
<1>6. CASE ~Watching!FinishedFirst(c)
  <2>1. watchers' = watchers \cup {c} /\ told' = told
    BY <1>6 DEF Watching!Watch
  <2>2. reply[c] = "running"
    BY <1>1, <1>6 DEF WatchInv, Watching!TypeOK, Watching!FinishedFirst
  <2>3. Watching!TypeOK'
    BY <1>1, <1>3, <2>1 DEF WatchInv, Watching!TypeOK
  <2>4. UnwatchedIsUntold' /\ RunningHaveWatchers' /\ WatchersWait'
    BY <1>1, <1>2, <1>3, <2>1, <2>2
       DEF WatchInv, UnwatchedIsUntold, RunningHaveWatchers, WatchersWait
  <2>5. EveryOutcomeIsTold'
    BY <1>1, <1>2, <1>3, <2>1, <2>2
       DEF WatchInv, EveryOutcomeIsTold, Watching!EveryOutcomeIsTold, Watching!Heard,
           Watching!Untold
  <2> QED BY <1>4, <2>3, <2>4, <2>5 DEF WatchInv
<1> QED BY <1>5, <1>6

\* A call that finishes has a watcher, or is not watched, or nobody is left.
LEMMA FinishWatch ==
  ASSUME WatchInv, NEW c \in SlotCalls, NEW r \in Watching!Finished, Watching!Finish(c, r)
  PROVE  WatchInv'
<1>1. /\ reply[c] = "running" /\ reply' = [reply EXCEPT ![c] = r]
      /\ watchers' = watchers \ {c}
      /\ UNCHANGED <<alive, watched>>
      /\ r \notin {"uncalled", "running", "plain", "invalid"}
  BY DEF Watching!Finish, Watching!Finished
<1>2. /\ reply' \in [SlotCalls -> {"uncalled", "running", "plain", "invalid"}
                                    \cup Watching!Finished]
      /\ reply'[c] = r
      /\ \A d \in SlotCalls : d # c => reply'[d] = reply[d]
  BY <1>1 DEF WatchInv, Watching!TypeOK
<1>3. UncalledIsUnwatched' /\ RunningHaveWatchers'
  BY <1>1, <1>2 DEF WatchInv, UncalledIsUnwatched, RunningHaveWatchers
<1>4. CASE c \in watchers
  <2>1. /\ told[c] = Watching!Untold /\ watched[c] # {"never"}
        /\ Watching!Tell(c, Watching!OutcomeOfFinish(r), watched[c])
    <3>1. reply[c] = "running" /\ told[c] = Watching!Untold
      BY <1>4 DEF WatchInv, WatchersWait
    <3> QED BY <1>4, <3>1 DEF Watching!Finish, WatchInv, UnwatchedIsUntold
  <2>2. Watching!OutcomeOfFinish(r) \in {"onSuccess", "onError"}
    BY DEF Watching!OutcomeOfFinish
  <2>3. /\ told' \in [SlotCalls -> Watching!Told]
        /\ \A d \in SlotCalls : d # c => told'[d] = told[d]
        /\ Watching!OutcomeOfFinish(r) \in watched[c] =>
             told'[c] = [Watching!Untold EXCEPT ![Watching!OutcomeOfFinish(r)] = 1]
    BY <2>1, <2>2, Telling DEF WatchInv
  <2>4. Watching!TypeOK'
    BY <1>1, <1>2, <2>3 DEF WatchInv, Watching!TypeOK
  <2>5. UnwatchedIsUntold'
    BY <1>1, <2>1, <2>3 DEF WatchInv, UnwatchedIsUntold
  <2>6. WatchersWait'
    BY <1>1, <1>2, <2>3 DEF WatchInv, Watching!TypeOK, WatchersWait
  <2>7. watched[c] = {"onSuccess", "onError"} =>
          /\ told'[c].onSuccess + told'[c].onError = 1
          /\ r = "value" => told'[c].onSuccess = 1
    BY <2>2, <2>3 DEF Watching!OutcomeOfFinish, Watching!Untold
  <2>8. EveryOutcomeIsTold'
    BY <1>1, <1>2, <2>3, <2>7
       DEF WatchInv, EveryOutcomeIsTold, Watching!EveryOutcomeIsTold, Watching!Heard
  <2> QED BY <1>3, <2>4, <2>5, <2>6, <2>8 DEF WatchInv
<1>5. CASE c \notin watchers
  <2>1. told' = told /\ watchers' = watchers
    BY <1>1, <1>5 DEF Watching!Finish
  <2>2. Watching!TypeOK'
    BY <1>1, <1>2, <2>1 DEF WatchInv, Watching!TypeOK
  <2>3. UnwatchedIsUntold'
    BY <1>1, <2>1 DEF WatchInv, UnwatchedIsUntold
  <2>4. WatchersWait'
    BY <1>1, <1>2, <1>5, <2>1 DEF WatchInv, Watching!TypeOK, WatchersWait
  <2>5. ~alive \/ watched[c] = {"never"}
    BY <1>1, <1>5 DEF WatchInv, RunningHaveWatchers
  <2>6. EveryOutcomeIsTold'
    BY <1>1, <1>2, <2>1, <2>5
       DEF WatchInv, EveryOutcomeIsTold, Watching!EveryOutcomeIsTold, Watching!Heard
  <2> QED BY <1>3, <2>2, <2>3, <2>4, <2>6 DEF WatchInv
<1> QED BY <1>4, <1>5

LEMMA WatchStepInv ==
  ASSUME WatchInv, [BridgeNext]_<<vars, watchVars>>
  PROVE  WatchInv'
<1>1. CASE CallStep /\ UNCHANGED watchVars
  <2>1. alive' = alive
    BY <1>1 DEF CallStep, ConnectToBackend, CallModuleAsync, RouterInitialized, TimerFires,
                CompletionArrives, CallArrives, HostCompletes, SetHandler, WorkerDies, bridgeVars
  <2> QED BY <1>1, <2>1, QuietWatch DEF watchVars, WatchInv, Watching!TypeOK
<1>2. CASE WatchStep /\ UNCHANGED vars
  BY <1>2, SlotCallWatch, WatchWatch, FinishWatch DEF WatchStep
<1>3. CASE DestroyBridge /\ Watching!DestroyBridge
  BY <1>3, QuietWatch DEF Watching!DestroyBridge
<1>4. CASE UNCHANGED <<vars, watchVars>>
  BY <1>4, QuietWatch DEF vars, bridgeVars, watchVars, WatchInv, Watching!TypeOK
<1> QED BY <1>1, <1>2, <1>3, <1>4 DEF BridgeNext

THEOREM WatchersSound == BridgeSpec => []WatchInv
<1>1. BridgeInit => WatchInv
  <2> SUFFICES ASSUME BridgeInit PROVE WatchInv
    OBVIOUS
  <2>1. /\ alive = TRUE /\ watchers = {}
        /\ \A c \in SlotCalls : /\ reply[c] = "uncalled" /\ watched[c] = {"never"}
                                /\ told[c] = Watching!Untold
    BY DEF BridgeInit, Watching!Init
  <2>2. Watching!TypeOK
    BY DEF BridgeInit, Watching!Init, Watching!TypeOK, Watching!Told, Watching!Untold
  <2>3. EveryOutcomeIsTold
    BY <2>1 DEF EveryOutcomeIsTold, Watching!EveryOutcomeIsTold
  <2> QED BY <2>1, <2>2, <2>3
          DEF WatchInv, UncalledIsUnwatched, UnwatchedIsUntold, WatchersWait, RunningHaveWatchers
<1>2. WatchInv /\ [BridgeNext]_<<vars, watchVars>> => WatchInv'
  BY WatchStepInv
<1> QED BY <1>1, <1>2, PTL DEF BridgeSpec

\* A view that watches a slot call with two functions hears of every outcome
\* once, of any number of calls, whether the call was over before it was
\* watched or finishes after.
THEOREM OutcomesAreTold == BridgeSpec => []EveryOutcomeIsTold
<1>1. WatchInv => EveryOutcomeIsTold
  BY DEF WatchInv
<1> QED BY <1>1, WatchersSound, PTL
=============================================================================
