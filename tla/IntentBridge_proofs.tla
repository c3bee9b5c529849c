------------------------ MODULE IntentBridge_proofs ------------------------
(***************************************************************************)
(* Proofs about IntentBridge for every set of bridges, routers, engines    *)
(* and requests and every bound, and about IntentVocabulary for every name *)
(* and every payload.                                                      *)
(***************************************************************************)
EXTENDS IntentBridge, IntentVocabulary,
        SequenceTheorems, FiniteSetTheorems, WellFoundedInduction, TLAPS

\* Entering a frame keeps the stack a sequence of frames.
LEMMA PushType ==
  ASSUME NEW f \in Frame, stack \in Seq(Frame), Push(f)
  PROVE  stack' \in Seq(Frame)
<1>1. <<f>> \in Seq(Frame)
  OBVIOUS
<1>2. <<f>> \o stack \in Seq(Frame)
  BY <1>1, ConcatProperties
<1> QED
  BY <1>2 DEF Push

\* Leaving one does too.
LEMMA PopType ==
  ASSUME stack \in Seq(Frame), stack # <<>>
  PROVE  Tail(stack) \in Seq(Frame)
  OBVIOUS

\* The frames the actions push are frames.
LEMMA FrameTypes ==
  /\ \A b \in Bridges, e \in Engines : JsFrame(b, e) \in Frame
  /\ \A m \in Routers : RouterFrame(m) \in Frame
  BY DEF Frame, JsFrame, RouterFrame

\* Whoever calls request() runs in an engine.
LEMMA CallerEngine ==
  ASSUME TypeOK, NEW b \in Bridges, NEW r \in Requests, NEW c \in BOOLEAN, Request(b, r, c)
  PROVE  Head(stack).engine \in Engines
<1>1. stack # <<>> /\ Head(stack).kind = "js" /\ stack \in Seq(Frame)
  BY DEF Request, InJs, TypeOK
<1>2. Head(stack) \in Frame
  BY <1>1
<1> QED
  BY <1>1, <1>2 DEF Frame

\* Queueing a delivery keeps the queue typed and the callback untouched.
LEMMA PostDeliveryType ==
  ASSUME NEW p \in PendingIntent, posted \in Seq(PendingIntent), PostDelivery(p)
  PROVE  posted' \in Seq(PendingIntent)
  BY DEF PostDelivery

\* Every step of the bridge keeps the types.
LEMMA TypeStep ==
  ASSUME TypeOK, [Next]_vars
  PROVE  TypeOK'
<1> USE IntentAssumptions
<1>1. ASSUME NEW b \in Bridges, NEW e \in Engines, EnterJs(b, e) PROVE TypeOK'
  <2>1. stack' \in Seq(Frame)
    BY <1>1, FrameTypes, PushType DEF EnterJs, TypeOK
  <2> QED
    BY <1>1, <2>1 DEF EnterJs, TypeOK, hostVars, historyVars
<1>2. CASE Return
  BY <1>2, PopType DEF Return, TypeOK, hostVars, historyVars
<1>3. ASSUME NEW b \in Bridges, NEW r \in Requests, NEW c \in BOOLEAN, Request(b, r, c)
      PROVE  TypeOK'
  <2> DEFINE p == [id |-> r, bridge |-> b, callable |-> c, home |-> Head(stack).engine,
                   engine |-> engineOf[b], generation |-> generation[b]]
  <2>1. p \in PendingIntent
    BY <1>3, CallerEngine DEF TypeOK, PendingIntent
  <2>2. origin' \in [Requests -> Origin]
    <3>1. OriginOf(p) \in Origin
      BY <2>1 DEF PendingIntent, Origin, OriginOf
    <3> QED
      BY <1>3, <3>1 DEF Request, TypeOK
  <2>3. CASE intentRouter[b] = NoRouter
    <3>1. FailIntentLocally(p) /\ UNCHANGED <<tracking, stack>>
      BY <1>3, <2>3 DEF Request
    <3>2. posted' \in Seq(PendingIntent)
      BY <2>1, <3>1, PostDeliveryType DEF FailIntentLocally, TypeOK
    <3> QED
      BY <1>3, <2>1, <2>2, <3>1, <3>2
      DEF Request, FailIntentLocally, Erase, PostDelivery, TypeOK, hostVars
  <2>4. CASE intentRouter[b] # NoRouter
    <3>1. intentRouter[b] \in Routers
      BY <2>4 DEF TypeOK
    <3>2. /\ pending' = pending \cup {p}
          /\ tracking' = tracking \cup
               {[router |-> intentRouter[b], id |-> r, bridge |-> b]}
          /\ Push(RouterFrame(intentRouter[b]))
          /\ UNCHANGED <<posted, calls, valueEngine>>
      BY <1>3, <2>4 DEF Request
    <3>3. stack' \in Seq(Frame)
      BY <3>1, <3>2, FrameTypes, PushType DEF TypeOK
    <3>4. tracking' \subseteq Track
      BY <3>1, <3>2 DEF TypeOK, Track
    <3> QED
      BY <1>3, <2>1, <2>2, <3>2, <3>3, <3>4 DEF Request, TypeOK, hostVars
  <2> QED
    BY <2>3, <2>4
<1>4. ASSUME NEW b \in Bridges, Respond(b) PROVE TypeOK'
  <2>1. stack' \in Seq(Frame)
    BY <1>4, FrameTypes, PushType DEF Respond, TypeOK
  <2> QED
    BY <1>4, <2>1 DEF Respond, TypeOK, hostVars, historyVars
<1>5. ASSUME NEW b \in Bridges, NEW e \in Engines, DeliverIntentRequest(b, e)
      PROVE  TypeOK'
  <2>1. stack' \in Seq(Frame)
    BY <1>5, FrameTypes, PushType DEF DeliverIntentRequest, TypeOK
  <2> QED
    BY <1>5, <2>1 DEF DeliverIntentRequest, TypeOK, hostVars, historyVars
<1>6. ASSUME NEW b \in Bridges, NEW r \in Requests, DeliverIntentResult(b, r)
      PROVE  TypeOK'
  <2>1. CASE \A p \in Entries(b) : p.id # r
    BY <1>6, <2>1 DEF DeliverIntentResult, TypeOK, hostVars
  <2>2. ASSUME NEW p \in Entries(b), p.id = r,
               pending' = Erase(pending, p), PostDelivery(p)
        PROVE  TypeOK'
    <3>1. p \in PendingIntent
      BY DEF Entries, TypeOK
    <3>2. posted' \in Seq(PendingIntent)
      BY <2>2, <3>1, PostDeliveryType DEF TypeOK
    <3> QED
      BY <1>6, <2>2, <3>2 DEF DeliverIntentResult, Erase, PostDelivery, TypeOK, hostVars
  <2> QED
    BY <1>6, <2>1, <2>2 DEF DeliverIntentResult
<1>7. CASE RunPosted
  <2> DEFINE p == Head(posted)
  <2>1. p \in PendingIntent /\ Tail(posted) \in Seq(PendingIntent)
    BY <1>7 DEF RunPosted, TypeOK
  <2>2. p.bridge \in Bridges /\ p.engine \in Engines \cup {NoEngine} /\ p.home \in Engines
      /\ p.id \in Requests
    BY <2>1 DEF PendingIntent
  <2>3. CASE Deliverable(p)
    <3>1. stack' \in Seq(Frame)
      BY <1>7, <2>2, <2>3, FrameTypes, PushType DEF RunPosted, TypeOK
    <3>2. /\ calls' = [calls EXCEPT ![p.id] = calls[p.id] + 1]
          /\ valueEngine' = [valueEngine EXCEPT ![p.id] = p.engine]
      BY <1>7, <2>3 DEF RunPosted, ValueEngine
    <3>3. /\ calls' \in [Requests -> Nat]
          /\ valueEngine' \in [Requests -> Engines \cup {NoEngine}]
      BY <2>2, <3>2 DEF TypeOK
    <3> HIDE DEF p
    <3> QED
      BY <1>7, <2>1, <3>1, <3>3 DEF RunPosted, TypeOK, hostVars
  <2>4. CASE ~Deliverable(p)
    BY <1>7, <2>1, <2>4 DEF RunPosted, TypeOK, hostVars
  <2> QED
    BY <2>3, <2>4
<1>8. ASSUME NEW b \in Bridges, AbandonPendingIntents(b) PROVE TypeOK'
  <2>1. stack' \in Seq(Frame)
    BY <1>8, FrameTypes, PushType DEF AbandonPendingIntents, TypeOK
  <2> QED
    BY <1>8, <2>1 DEF AbandonPendingIntents, NextGeneration, KeptAfterAbandon,
                      Outstanding, TypeOK, hostVars
<1>9. ASSUME NEW b \in Bridges, DestroyBridge(b) PROVE TypeOK'
  <2>1. stack' \in Seq(Frame)
    BY <1>9, FrameTypes, PushType DEF DestroyBridge, TypeOK
  <2> QED
    BY <1>9, <2>1 DEF DestroyBridge, Outstanding, TypeOK
<1>10. ASSUME NEW b \in Bridges, NEW m \in Routers \cup {NoRouter}, SetIntentRouter(b, m)
       PROVE  TypeOK'
  BY <1>10 DEF SetIntentRouter, TypeOK, historyVars
<1>11. ASSUME NEW b \in Bridges, NEW e \in Engines, BindEngine(b, e) PROVE TypeOK'
  BY <1>11 DEF BindEngine, TypeOK, historyVars
<1>12. ASSUME NEW e \in Engines, DestroyEngine(e) PROVE TypeOK'
  BY <1>12 DEF DestroyEngine, TypeOK, historyVars
<1>13. CASE UNCHANGED vars
  BY <1>13 DEF vars, TypeOK, hostVars, historyVars
<1> QED
  BY <1>1, <1>2, <1>3, <1>4, <1>5, <1>6, <1>7, <1>8, <1>9, <1>10, <1>11, <1>12, <1>13
  DEF Next

\* The initial state is typed.
LEMMA TypeInit == Init => TypeOK
  BY IntentAssumptions DEF Init, TypeOK, Origin, NotAsked

\* Type correctness of the bridges' state, the event queue and the call stack.
THEOREM TypeCorrect == Spec => []TypeOK
  BY TypeInit, TypeStep, PTL DEF Spec

-----------------------------------------------------------------------------
\* What queueing leaves in the queue: what was there, and at most p after it.
LEMMA Enqueued ==
  ASSUME NEW p \in PendingIntent, posted \in Seq(PendingIntent), PostDelivery(p)
  PROVE  /\ Len(posted') \in Nat
         /\ Len(posted') <= Len(posted) + 1
         /\ \A i \in 1..Len(posted') :
              \/ i \in 1..Len(posted) /\ posted'[i] = posted[i]
              \/ i = Len(posted) + 1 /\ posted'[i] = p
  BY DEF PostDelivery

\* What a turn of the event loop leaves: everything but the first.
LEMMA Dequeued ==
  ASSUME posted \in Seq(PendingIntent), posted # <<>>, posted' = Tail(posted)
  PROVE  /\ Head(posted) = posted[1]
         /\ 1 \in 1..Len(posted)
         /\ Len(posted') = Len(posted) - 1
         /\ \A i \in 1..Len(posted') : i + 1 \in 1..Len(posted) /\ posted'[i] = posted[i + 1]
  OBVIOUS

\* A fresh id has left no trace.
LEMMA FreshId ==
  ASSUME DeliveryInv, NEW r \in Requests, origin[r] = NotAsked
  PROVE  /\ calls[r] = 0 /\ r \notin cancelled
         /\ \A q \in pending : q.id # r
         /\ \A i \in 1..Len(posted) : posted[i].id # r
<1>1. calls[r] = 0 /\ r \notin cancelled
  BY DEF DeliveryInv, HistorySound, NotAsked
<1>2. ASSUME NEW q \in pending, q.id = r PROVE FALSE
  <2>1. q.bridge \in Bridges
    BY DEF DeliveryInv, TypeOK, PendingIntent
  <2>2. origin[r] = OriginOf(q)
    BY <1>2 DEF DeliveryInv, EntriesSound
  <2> QED
    BY <2>1, <2>2, IntentAssumptions DEF NotAsked, OriginOf
<1>3. ASSUME NEW i \in 1..Len(posted), posted[i].id = r PROVE FALSE
  <2>1. posted[i] \in PendingIntent
    BY DEF DeliveryInv, TypeOK
  <2>2. posted[i].bridge \in Bridges
    BY <2>1 DEF PendingIntent
  <2>3. origin[r] = OriginOf(posted[i])
    BY <1>3 DEF DeliveryInv, PostedSound
  <2> QED
    BY <2>2, <2>3, IntentAssumptions DEF NotAsked, OriginOf
<1> QED
  BY <1>1, <1>2, <1>3

\* Steps that touch neither the entries, the queue nor the history.
LEMMA DeliveryFrame ==
  ASSUME DeliveryInv, TypeOK',
         UNCHANGED <<alive, generation, pending, posted, origin, calls, cancelled>>
  PROVE  DeliveryInv'
  BY DEF DeliveryInv, EntriesSound, PostedSound, HistorySound

\* request() records an entry for a fresh id, or queues its failure at once.
LEMMA DeliveryRequest ==
  ASSUME DeliveryInv, TypeOK',
         NEW b \in Bridges, NEW r \in Requests, NEW c \in BOOLEAN,
         Request(b, r, c)
  PROVE  DeliveryInv'
<1> DEFINE p == [id |-> r, bridge |-> b, callable |-> c, home |-> Head(stack).engine,
                 engine |-> engineOf[b], generation |-> generation[b]]
<1>0. Head(stack).engine \in Engines
  BY CallerEngine DEF DeliveryInv
<1>1. /\ p \in PendingIntent
      /\ p.id = r /\ p.bridge = b /\ p.generation = generation[b]
  BY <1>0 DEF DeliveryInv, TypeOK, PendingIntent
<1>2. /\ calls[r] = 0 /\ r \notin cancelled /\ b \in alive
      /\ \A q \in pending : q.id # r
      /\ \A i \in 1..Len(posted) : posted[i].id # r
  BY FreshId DEF Request, InJs
<1>3. /\ origin' = [origin EXCEPT ![r] = OriginOf(p)]
      /\ calls' = calls /\ cancelled' = cancelled
      /\ alive' = alive /\ generation' = generation
  BY DEF Request, FailIntentLocally, PostDelivery, hostVars
<1>4. /\ origin'[r] = OriginOf(p)
      /\ \A x \in Requests : x # r => origin'[x] = origin[x]
  BY <1>1, <1>3 DEF DeliveryInv, TypeOK
<1>5. \/ pending' = pending /\ PostDelivery(p)
      \/ pending' = pending \cup {p} /\ posted' = posted
  <2>1. CASE intentRouter[b] = NoRouter
    <3>1. FailIntentLocally(p)
      BY <2>1 DEF Request
    <3>2. p \notin pending
      BY <1>1, <1>2
    <3> HIDE DEF p
    <3> QED
      BY <3>1, <3>2 DEF FailIntentLocally, Erase
  <2>2. CASE intentRouter[b] # NoRouter
    BY <2>2 DEF Request
  <2> QED
    BY <2>1, <2>2
<1> HIDE DEF p
<1>6. generation[b] \in Nat
  BY DEF DeliveryInv, TypeOK
<1>7. EntriesSound'
  <2> SUFFICES ASSUME NEW q \in pending'
               PROVE  /\ origin'[q.id] = OriginOf(q)
                      /\ calls[q.id] = 0 /\ q.id \notin cancelled
                      /\ q.bridge \in alive /\ q.generation = generation[q.bridge]
                      /\ \A z \in pending' : z.id = q.id => z = q
    BY <1>3 DEF EntriesSound
  <2>1. CASE q = p
    BY <1>1, <1>2, <1>4, <1>5, <2>1
  <2>2. CASE q \in pending
    <3>1. q.id \in Requests /\ q.id # r
      BY <1>2, <2>2 DEF DeliveryInv, TypeOK, PendingIntent
    <3> QED
      BY <1>1, <1>4, <1>5, <2>2, <3>1 DEF DeliveryInv, EntriesSound
  <2> QED
    BY <1>5, <2>1, <2>2
<1>8. PostedSound'
  <2> SUFFICES ASSUME NEW i \in 1..Len(posted')
               PROVE  LET q == posted'[i]
                      IN /\ origin'[q.id] = OriginOf(q)
                         /\ calls[q.id] = 0 /\ q.generation <= generation[q.bridge]
                         /\ q.id \in cancelled =>
                              q.bridge \notin alive \/ q.generation < generation[q.bridge]
                         /\ \A z \in pending' : z.id # q.id
                         /\ \A j \in 1..Len(posted') : posted'[j].id = q.id => i = j
    BY <1>3 DEF PostedSound
  <2>1. CASE pending' = pending /\ PostDelivery(p)
    <3>1. /\ Len(posted') \in Nat
          /\ \A j \in 1..Len(posted') :
              \/ j \in 1..Len(posted) /\ posted'[j] = posted[j]
              \/ j = Len(posted) + 1 /\ posted'[j] = p
      BY <1>1, <2>1, Enqueued DEF DeliveryInv, TypeOK
    <3>2. CASE i = Len(posted) + 1 /\ posted'[i] = p
      BY <1>1, <1>2, <1>4, <1>6, <2>1, <3>1, <3>2
    <3>3. CASE i \in 1..Len(posted) /\ posted'[i] = posted[i]
      <4>1. posted[i] \in PendingIntent
        BY <3>3 DEF DeliveryInv, TypeOK
      <4>2. posted[i].id \in Requests /\ posted[i].id # r
        BY <1>2, <3>3, <4>1 DEF PendingIntent
      <4>3. origin'[posted[i].id] = origin[posted[i].id]
        BY <1>4, <4>2
      <4> QED
        BY <1>1, <2>1, <3>1, <3>3, <4>2, <4>3 DEF DeliveryInv, PostedSound
    <3> QED
      BY <3>1, <3>2, <3>3
  <2>2. CASE pending' = pending \cup {p} /\ posted' = posted
    <3>1. posted[i] \in PendingIntent
      BY <2>2 DEF DeliveryInv, TypeOK
    <3>2. posted[i].id \in Requests /\ posted[i].id # r
      BY <1>2, <2>2, <3>1 DEF PendingIntent
    <3>3. origin'[posted[i].id] = origin[posted[i].id]
      BY <1>4, <3>2
    <3> QED
      BY <1>1, <2>2, <3>2, <3>3 DEF DeliveryInv, PostedSound
  <2> QED
    BY <1>5, <2>1, <2>2
<1>9. HistorySound'
  BY <1>1, <1>3, <1>4, IntentAssumptions DEF DeliveryInv, HistorySound, OriginOf
<1> QED
  BY <1>7, <1>8, <1>9 DEF DeliveryInv

\* deliverIntentResult() moves the entry it finds to the queue, or drops it.
LEMMA DeliveryResult ==
  ASSUME DeliveryInv, TypeOK',
         NEW b \in Bridges, NEW r \in Requests, DeliverIntentResult(b, r)
  PROVE  DeliveryInv'
<1>1. UNCHANGED <<alive, generation, origin, cancelled>>
  BY DEF DeliverIntentResult, hostVars
<1>2. CASE UNCHANGED <<pending, posted, calls, valueEngine>>
  BY <1>1, <1>2, DeliveryFrame
<1>3. ASSUME NEW p \in Entries(b), pending' = Erase(pending, p), PostDelivery(p)
      PROVE  DeliveryInv'
  <2>1. /\ p \in pending /\ p \in PendingIntent
        /\ calls' = calls
        /\ pending' = pending \ {p}
    BY <1>3 DEF Entries, Erase, PostDelivery, DeliveryInv, TypeOK
  <2>2. /\ Len(posted') \in Nat
        /\ \A j \in 1..Len(posted') :
             \/ j \in 1..Len(posted) /\ posted'[j] = posted[j]
             \/ j = Len(posted) + 1 /\ posted'[j] = p
    BY <1>3, <2>1, Enqueued DEF DeliveryInv, TypeOK
  <2>3. /\ origin[p.id] = OriginOf(p)
        /\ calls[p.id] = 0 /\ p.id \notin cancelled
        /\ p.bridge \in alive /\ p.generation = generation[p.bridge]
        /\ \A q \in pending : q.id = p.id => q = p
        /\ \A j \in 1..Len(posted) : posted[j].id # p.id
        /\ generation[p.bridge] \in Nat
    <3>1. generation[p.bridge] \in Nat
      BY <2>1 DEF DeliveryInv, TypeOK, PendingIntent
    <3>2. \A j \in 1..Len(posted) : posted[j].id # p.id
      BY <2>1 DEF DeliveryInv, PostedSound
    <3> QED
      BY <2>1, <3>1, <3>2 DEF DeliveryInv, EntriesSound
  <2>4. EntriesSound'
    BY <1>1, <2>1 DEF DeliveryInv, EntriesSound
  <2>5. PostedSound'
    <3> SUFFICES ASSUME NEW i \in 1..Len(posted')
                 PROVE  LET q == posted'[i]
                        IN /\ origin[q.id] = OriginOf(q)
                           /\ calls[q.id] = 0 /\ q.generation <= generation[q.bridge]
                           /\ q.id \in cancelled =>
                                q.bridge \notin alive \/ q.generation < generation[q.bridge]
                           /\ \A z \in pending' : z.id # q.id
                           /\ \A j \in 1..Len(posted') : posted'[j].id = q.id => i = j
      BY <1>1, <2>1 DEF PostedSound
    <3>1. CASE i = Len(posted) + 1 /\ posted'[i] = p
      BY <2>1, <2>2, <2>3, <3>1
    <3>2. CASE i \in 1..Len(posted) /\ posted'[i] = posted[i]
      BY <2>1, <2>2, <2>3, <3>2 DEF DeliveryInv, PostedSound
    <3> QED
      BY <2>2, <3>1, <3>2
  <2>6. HistorySound'
    BY <1>1, <2>1 DEF DeliveryInv, HistorySound
  <2> QED
    BY <2>4, <2>5, <2>6 DEF DeliveryInv
<1> QED
  BY <1>2, <1>3 DEF DeliverIntentResult

\* A turn of the event loop takes the first delivery out and calls its
\* callback at most once.
LEMMA DeliveryTurn ==
  ASSUME DeliveryInv, TypeOK', RunPosted
  PROVE  DeliveryInv'
<1> DEFINE p == posted[1]
<1>1. /\ UNCHANGED <<alive, generation, pending, origin, cancelled>>
      /\ posted # <<>> /\ posted' = Tail(posted) /\ posted \in Seq(PendingIntent)
  BY DEF RunPosted, hostVars, DeliveryInv, TypeOK
<1>2. /\ p = Head(posted) /\ 1 \in 1..Len(posted) /\ p \in PendingIntent
      /\ Len(posted) \in Nat /\ Len(posted') = Len(posted) - 1
      /\ \A i \in 1..Len(posted') : i + 1 \in 1..Len(posted) /\ posted'[i] = posted[i + 1]
  BY <1>1, Dequeued
<1>3. p.id \in Requests /\ p.bridge \in Bridges
  BY <1>2 DEF PendingIntent
<1>4. /\ calls[p.id] = 0
      /\ origin[p.id] = OriginOf(p)
      /\ \A q \in pending : q.id # p.id
      /\ \A j \in 1..Len(posted) : posted[j].id = p.id => j = 1
  BY <1>2 DEF DeliveryInv, PostedSound
<1>5. calls' = calls \/ calls' = [calls EXCEPT ![p.id] = calls[p.id] + 1]
  BY <1>2 DEF RunPosted
<1> HIDE DEF p
<1>6. /\ calls'[p.id] \in {0, 1}
      /\ \A x \in Requests : x # p.id => calls'[x] = calls[x]
  BY <1>3, <1>4, <1>5 DEF DeliveryInv, TypeOK
<1>7. EntriesSound'
  <2> SUFFICES ASSUME NEW q \in pending
               PROVE  calls'[q.id] = calls[q.id]
    BY <1>1 DEF DeliveryInv, EntriesSound
  <2>1. q.id \in Requests
    BY DEF DeliveryInv, TypeOK, PendingIntent
  <2> QED
    BY <1>4, <1>6, <2>1
<1>8. PostedSound'
  <2> SUFFICES ASSUME NEW i \in 1..Len(posted')
               PROVE  LET q == posted'[i]
                      IN /\ origin[q.id] = OriginOf(q)
                         /\ calls'[q.id] = 0 /\ q.generation <= generation[q.bridge]
                         /\ q.id \in cancelled =>
                              q.bridge \notin alive \/ q.generation < generation[q.bridge]
                         /\ \A z \in pending : z.id # q.id
                         /\ \A j \in 1..Len(posted') : posted'[j].id = q.id => i = j
    BY <1>1 DEF PostedSound
  <2>1. i + 1 \in 1..Len(posted) /\ posted'[i] = posted[i + 1] /\ i + 1 # 1
    BY <1>2
  <2>2. posted[i + 1] \in PendingIntent
    BY <1>1, <2>1
  <2>3. posted[i + 1].id \in Requests /\ posted[i + 1].id # p.id
    BY <1>4, <2>1, <2>2 DEF PendingIntent
  <2>4. calls'[posted[i + 1].id] = 0
    BY <1>6, <2>1, <2>3 DEF DeliveryInv, PostedSound
  <2>5. ASSUME NEW j \in 1..Len(posted'), posted'[j].id = posted[i + 1].id
        PROVE  i = j
    <3>1. j + 1 \in 1..Len(posted) /\ posted[j + 1].id = posted[i + 1].id
      BY <1>2, <2>5
    <3>2. i + 1 = j + 1
      BY <2>1, <3>1 DEF DeliveryInv, PostedSound
    <3> QED
      BY <1>2, <3>2
  <2> QED
    BY <2>1, <2>4, <2>5 DEF DeliveryInv, PostedSound
<1>9. HistorySound'
  <2>1. origin[p.id].bridge # NoBridge
    BY <1>3, <1>4, IntentAssumptions DEF OriginOf
  <2> QED
    BY <1>1, <1>3, <1>6, <2>1 DEF DeliveryInv, HistorySound
<1> QED
  BY <1>7, <1>8, <1>9 DEF DeliveryInv

\* A request outstanding at b that has been asked of b.
LEMMA OutstandingOf ==
  ASSUME DeliveryInv, NEW b \in Bridges, NEW p \in PendingIntent,
         origin[p.id] = OriginOf(p),
         p.id \in Outstanding(b)
  PROVE  p.bridge = b
  BY DEF Outstanding, OriginOf

\* abandonPendingIntents() outdates what is queued by moving the generation,
\* and forgets what is pending.
LEMMA DeliveryAbandon ==
  ASSUME DeliveryInv, TypeOK', NEW b \in Bridges, AbandonPendingIntents(b)
  PROVE  DeliveryInv'
<1>1. /\ UNCHANGED <<alive, posted, origin, calls>>
      /\ pending' = pending \ Entries(b)
      /\ cancelled' = cancelled \cup Outstanding(b)
      /\ generation' = [generation EXCEPT ![b] = generation[b] + 1]
  BY DEF AbandonPendingIntents, NextGeneration, hostVars
<1>2. /\ generation[b] \in Nat /\ generation'[b] = generation[b] + 1
      /\ \A x \in Bridges : generation[x] \in Nat /\ generation[x] <= generation'[x]
      /\ \A x \in Bridges : x # b => generation'[x] = generation[x]
  BY <1>1 DEF DeliveryInv, TypeOK
<1>3. EntriesSound'
  <2> SUFFICES ASSUME NEW q \in pending, q.bridge # b
               PROVE  q.id \notin cancelled' /\ generation'[q.bridge] = generation[q.bridge]
    BY <1>1 DEF DeliveryInv, EntriesSound, Entries
  <2>1. q \in PendingIntent /\ q.bridge \in Bridges
    BY DEF DeliveryInv, TypeOK, PendingIntent
  <2>2. q.id \notin Outstanding(b) /\ q.id \notin cancelled
    BY <2>1, OutstandingOf DEF DeliveryInv, EntriesSound
  <2> QED
    BY <1>1, <1>2, <2>1, <2>2
<1>4. PostedSound'
  <2> SUFFICES ASSUME NEW i \in 1..Len(posted)
               PROVE  /\ posted[i].generation <= generation'[posted[i].bridge]
                      /\ posted[i].id \in cancelled' =>
                           \/ posted[i].bridge \notin alive
                           \/ posted[i].generation < generation'[posted[i].bridge]
    BY <1>1 DEF DeliveryInv, PostedSound
  <2>1. posted[i] \in PendingIntent
    BY DEF DeliveryInv, TypeOK
  <2>2. posted[i].bridge \in Bridges /\ posted[i].generation \in Nat
    BY <2>1 DEF PendingIntent
  <2>3. posted[i].generation <= generation[posted[i].bridge]
    BY DEF DeliveryInv, PostedSound
  <2>4. CASE posted[i].id \in Outstanding(b)
    <3>1. posted[i].bridge = b
      BY <2>1, <2>4, OutstandingOf DEF DeliveryInv, PostedSound
    <3> QED
      BY <1>2, <2>2, <2>3, <3>1
  <2>5. CASE posted[i].id \notin Outstanding(b)
    <3>1. posted[i].id \in cancelled =>
            posted[i].bridge \notin alive
              \/ posted[i].generation < generation[posted[i].bridge]
      BY DEF DeliveryInv, PostedSound
    <3> QED
      BY <1>1, <1>2, <2>2, <2>3, <2>5, <3>1
  <2> QED
    BY <2>4, <2>5
<1>5. HistorySound'
  BY <1>1, IntentAssumptions DEF DeliveryInv, HistorySound, Outstanding
<1> QED
  BY <1>3, <1>4, <1>5 DEF DeliveryInv

\* ~LogosQmlBridge() takes the bridge itself away from what is queued.
LEMMA DeliveryDestroy ==
  ASSUME DeliveryInv, TypeOK', NEW b \in Bridges, DestroyBridge(b)
  PROVE  DeliveryInv'
<1>1. /\ UNCHANGED <<generation, posted, origin, calls>>
      /\ alive' = alive \ {b}
      /\ pending' = pending \ Entries(b)
      /\ cancelled' = cancelled \cup Outstanding(b)
  BY DEF DestroyBridge
<1>2. EntriesSound'
  <2> SUFFICES ASSUME NEW q \in pending, q.bridge # b
               PROVE  q.id \notin Outstanding(b)
    BY <1>1 DEF DeliveryInv, EntriesSound, Entries
  <2> QED
    BY OutstandingOf DEF DeliveryInv, EntriesSound, TypeOK
<1>3. PostedSound'
  <2> SUFFICES ASSUME NEW i \in 1..Len(posted), posted[i].id \in Outstanding(b)
               PROVE  posted[i].bridge = b
    BY <1>1 DEF DeliveryInv, PostedSound
  <2>1. posted[i] \in PendingIntent
    BY DEF DeliveryInv, TypeOK
  <2> QED
    BY <2>1, OutstandingOf DEF DeliveryInv, PostedSound
<1>4. HistorySound'
  BY <1>1, IntentAssumptions DEF DeliveryInv, HistorySound, Outstanding
<1> QED
  BY <1>2, <1>3, <1>4 DEF DeliveryInv

\* Every step preserves the delivery invariant.
LEMMA DeliveryStep ==
  ASSUME DeliveryInv, [Next]_vars
  PROVE  DeliveryInv'
<1>1. TypeOK'
  BY TypeStep DEF DeliveryInv
<1>2. ASSUME NEW b \in Bridges,
             Respond(b) \/ \E e \in Engines : EnterJs(b, e) \/ DeliverIntentRequest(b, e)
      PROVE  DeliveryInv'
  BY <1>1, <1>2, DeliveryFrame
  DEF EnterJs, Respond, DeliverIntentRequest, hostVars, historyVars
<1>3. CASE Return \/ UNCHANGED vars
  BY <1>1, <1>3, DeliveryFrame DEF Return, vars, hostVars, historyVars
<1>4. ASSUME NEW b \in Bridges, NEW m \in Routers \cup {NoRouter}, SetIntentRouter(b, m)
      PROVE  DeliveryInv'
  BY <1>1, <1>4, DeliveryFrame DEF SetIntentRouter, historyVars
<1>5. ASSUME NEW b \in Bridges, NEW e \in Engines, BindEngine(b, e)
      PROVE  DeliveryInv'
  BY <1>1, <1>5, DeliveryFrame DEF BindEngine, historyVars
<1>6. ASSUME NEW e \in Engines, DestroyEngine(e)
      PROVE  DeliveryInv'
  BY <1>1, <1>6, DeliveryFrame DEF DestroyEngine, historyVars
<1> QED
  BY <1>1, <1>2, <1>3, <1>4, <1>5, <1>6, DeliveryRequest, DeliveryResult, DeliveryTurn,
     DeliveryAbandon, DeliveryDestroy
  DEF Next

\* The delivery invariant holds in every reachable state.
THEOREM DeliverySafe == Spec => []DeliveryInv
<1>1. Init => DeliveryInv
  BY TypeInit DEF Init, DeliveryInv, EntriesSound, PostedSound, HistorySound, NotAsked
<1> QED
  BY <1>1, DeliveryStep, PTL DEF Spec

\* No callback is invoked twice, however often, late or wrongly the router
\* answers.
THEOREM AtMostOnce == Spec => []FiresAtMostOnce
<1>1. DeliveryInv => FiresAtMostOnce
  BY DEF DeliveryInv, HistorySound, FiresAtMostOnce
<1> QED
  BY <1>1, DeliverySafe, PTL

\* Only a turn of the event loop invokes callbacks.
LEMMA OnlyTurnsCall ==
  ASSUME [Next]_vars, calls' # calls
  PROVE  RunPosted
<1>1. \A b \in Bridges : ~Respond(b) /\ \A e \in Engines : ~EnterJs(b, e) /\ ~DeliverIntentRequest(b, e)
  BY DEF EnterJs, Respond, DeliverIntentRequest, historyVars
<1>2. ~Return /\ ~UNCHANGED vars
  BY DEF Return, vars, historyVars
<1>3. \A b \in Bridges, r \in Requests, c \in BOOLEAN : ~Request(b, r, c)
  BY DEF Request, FailIntentLocally, PostDelivery
<1>4. \A b \in Bridges, r \in Requests : ~DeliverIntentResult(b, r)
  BY DEF DeliverIntentResult, PostDelivery
<1>5. \A b \in Bridges : ~AbandonPendingIntents(b) /\ ~DestroyBridge(b)
  BY DEF AbandonPendingIntents, DestroyBridge
<1>6. \A b \in Bridges, m \in Routers \cup {NoRouter} : ~SetIntentRouter(b, m)
  BY DEF SetIntentRouter, historyVars
<1>7. \A e \in Engines : ~DestroyEngine(e) /\ \A b \in Bridges : ~BindEngine(b, e)
  BY DEF BindEngine, DestroyEngine, historyVars
<1> QED
  BY <1>1, <1>2, <1>3, <1>4, <1>5, <1>6, <1>7 DEF Next

\* A callback starts from the event loop, never on the stack of the call that
\* asked or answered.
THEOREM Asynchronous == Spec => AlwaysAsync
<1>1. [Next]_vars => [calls' # calls => AtLoop]_vars
  BY OnlyTurnsCall DEF RunPosted
<1> QED
  BY <1>1, PTL DEF Spec, AlwaysAsync

\* What a turn calls: the first delivery's callback, and only if deliverable.
LEMMA TurnCalls ==
  ASSUME DeliveryInv, [Next]_vars, NEW r \in Requests, calls'[r] # calls[r]
  PROVE  /\ posted # <<>> /\ Head(posted) = posted[1] /\ 1 \in 1..Len(posted)
         /\ posted[1].id = r
         /\ Deliverable(posted[1])
         /\ posted[1] \in PendingIntent
         /\ valueEngine' = [valueEngine EXCEPT ![r] = posted[1].engine]
<1>1. RunPosted
  BY OnlyTurnsCall
<1>2. /\ posted # <<>> /\ Head(posted) = posted[1] /\ 1 \in 1..Len(posted)
      /\ posted[1] \in PendingIntent
  BY <1>1 DEF RunPosted, DeliveryInv, TypeOK
<1>3. /\ Deliverable(posted[1])
      /\ calls' = [calls EXCEPT ![posted[1].id] = calls[posted[1].id] + 1]
      /\ valueEngine' = [valueEngine EXCEPT ![posted[1].id] = posted[1].engine]
  BY <1>1, <1>2 DEF RunPosted, ValueEngine
<1>4. posted[1].id = r
  BY <1>3 DEF DeliveryInv, TypeOK
<1> QED
  BY <1>2, <1>3, <1>4

\* A request silenced by a reload or by the bridge's destruction stays silent.
THEOREM Silence == Spec => NoCallAfterAbandon
<1>1. ASSUME DeliveryInv, [Next]_vars, NEW r \in Requests, calls'[r] # calls[r],
             r \in cancelled
      PROVE  FALSE
  <2>1. /\ 1 \in 1..Len(posted) /\ posted[1].id = r
        /\ Deliverable(posted[1]) /\ posted[1] \in PendingIntent
    BY <1>1, TurnCalls
  <2>2. posted[1].bridge \notin alive
          \/ posted[1].generation < generation[posted[1].bridge]
    BY <1>1, <2>1 DEF DeliveryInv, PostedSound
  <2>3. posted[1].generation \in Nat
    BY <2>1 DEF PendingIntent
  <2> QED
    BY <2>1, <2>2, <2>3 DEF Deliverable
<1>2. DeliveryInv /\ [Next]_vars =>
        [\A r \in Requests : calls'[r] # calls[r] => r \notin cancelled]_vars
  BY <1>1
<1> QED
  BY <1>2, DeliverySafe, PTL DEF Spec, NoCallAfterAbandon

\* A callback is called only while its own engine is alive, and on a value of
\* that engine unless it was passed in from an engine the bridge was not bound
\* to; then on a value of the engine the bridge was bound to, which is alive too.
THEOREM OwnEngine == Spec => OwnLiveEngine
<1>1. ASSUME DeliveryInv, [Next]_vars, NEW r \in Requests, calls'[r] # calls[r]
      PROVE  /\ origin[r].engine \in liveEngines
             /\ valueEngine'[r] \in liveEngines
             /\ valueEngine'[r] = origin[r].engine \/ Strayed(r)
  <2>1. /\ 1 \in 1..Len(posted) /\ posted[1].id = r /\ Deliverable(posted[1])
        /\ valueEngine' = [valueEngine EXCEPT ![r] = posted[1].engine]
    BY <1>1, TurnCalls
  <2>2. origin[r] = OriginOf(posted[1])
    BY <1>1, <2>1 DEF DeliveryInv, PostedSound
  <2>3. valueEngine'[r] = posted[1].engine
    BY <1>1, <2>1 DEF DeliveryInv, TypeOK
  <2>4. origin[r].engine = posted[1].home /\ origin[r].bound = posted[1].engine
    BY <2>2 DEF OriginOf
  <2>5. posted[1].home \in liveEngines /\ posted[1].engine \in liveEngines
    BY <2>1 DEF Deliverable, IsCallable
  <2> QED
    BY <2>3, <2>4, <2>5 DEF Strayed
<1>2. DeliveryInv /\ [Next]_vars =>
        [\A r \in Requests :
           calls'[r] # calls[r] =>
             /\ origin[r].engine \in liveEngines
             /\ valueEngine'[r] \in liveEngines
             /\ valueEngine'[r] = origin[r].engine \/ Strayed(r)]_vars
  BY <1>1
<1> QED
  BY <1>2, DeliverySafe, PTL DEF Spec, OwnLiveEngine
-----------------------------------------------------------------------------
(***************************************************************************)
(* The books of bridge and router.                                         *)
(***************************************************************************)

\* What the router owes a steady bridge is on record there, it is the bridge's
\* present router that owes it, and the other way round.
Owed(b, r)   == \E t \in tracking : t.bridge = b /\ t.id = r
Open(b, r)   == \E p \in pending : p.bridge = b /\ p.id = r
BooksSound   ==
  \A b \in steady :
    /\ \A t \in tracking : t.bridge = b => t.router = intentRouter[b]
    /\ \A r \in Requests : Owed(b, r) <=> Open(b, r)

\* Steps that touch neither books nor routers.
LEMMA BooksFrame ==
  ASSUME BooksSound, UNCHANGED <<tracking, pending, intentRouter, steady>>
  PROVE  BooksSound'
  BY DEF BooksSound, Owed, Open

\* A request handed to the router enters both books at once, or neither.
LEMMA BooksRequest ==
  ASSUME DeliveryInv, BooksSound,
         NEW b \in Bridges, NEW r \in Requests, NEW c \in BOOLEAN, Request(b, r, c)
  PROVE  BooksSound'
<1> DEFINE p == [id |-> r, bridge |-> b, callable |-> c, home |-> Head(stack).engine,
                 engine |-> engineOf[b], generation |-> generation[b]]
           t == [router |-> intentRouter[b], id |-> r, bridge |-> b]
<1>1. p.id = r /\ p.bridge = b /\ t.id = r /\ t.bridge = b /\ t.router = intentRouter[b]
  OBVIOUS
<1>2. steady' = steady /\ intentRouter' = intentRouter
  BY DEF Request, hostVars
<1>3. \A q \in pending : q.id # r
  BY FreshId DEF Request
<1>4. \/ pending' = pending /\ tracking' = tracking
      \/ pending' = pending \cup {p} /\ tracking' = tracking \cup {t}
  <2>1. CASE intentRouter[b] = NoRouter
    <3>1. FailIntentLocally(p) /\ tracking' = tracking
      BY <2>1 DEF Request
    <3>2. p \notin pending
      BY <1>1, <1>3
    <3> HIDE DEF p
    <3> QED
      BY <3>1, <3>2 DEF FailIntentLocally, Erase
  <2>2. CASE intentRouter[b] # NoRouter
    BY <2>2 DEF Request
  <2> QED
    BY <2>1, <2>2
<1> HIDE DEF p, t
<1>5. CASE pending' = pending \cup {p} /\ tracking' = tracking \cup {t}
  <2> SUFFICES ASSUME NEW x \in steady
               PROVE  /\ \A u \in tracking' : u.bridge = x => u.router = intentRouter[x]
                      /\ \A y \in Requests : Owed(x, y)' <=> Open(x, y)'
    BY <1>2 DEF BooksSound
  <2>1. \A y \in Requests : Owed(x, y)' <=> Owed(x, y) \/ (x = b /\ y = r)
    BY <1>1, <1>5 DEF Owed
  <2>2. \A y \in Requests : Open(x, y)' <=> Open(x, y) \/ (x = b /\ y = r)
    BY <1>1, <1>5 DEF Open
  <2> QED
    BY <1>1, <1>5, <2>1, <2>2 DEF BooksSound
<1> QED
  BY <1>2, <1>4, <1>5, BooksFrame

\* An answer leaves both books at once: one that is on record nowhere was owed
\* to no steady bridge.
LEMMA BooksResult ==
  ASSUME DeliveryInv, BooksSound,
         NEW b \in Bridges, NEW r \in Requests, DeliverIntentResult(b, r)
  PROVE  BooksSound'
<1>1. /\ steady' = steady /\ intentRouter' = intentRouter
      /\ tracking' = {t \in tracking : ~(t.id = r /\ t.bridge = b)}
  BY DEF DeliverIntentResult, hostVars
<1>2. pending' = {q \in pending : ~(q.id = r /\ q.bridge = b)}
  <2>1. CASE pending' = pending /\ \A q \in Entries(b) : q.id # r
    BY <2>1 DEF Entries
  <2>2. ASSUME NEW p \in Entries(b), p.id = r, pending' = pending \ {p}
        PROVE  pending' = {q \in pending : ~(q.id = r /\ q.bridge = b)}
    <3>1. p \in pending /\ p.bridge = b
      BY DEF Entries
    <3>2. \A q \in pending : q.id = r /\ q.bridge = b <=> q = p
      <4>1. \A q \in pending : q.id = p.id => q = p
        BY <3>1 DEF DeliveryInv, EntriesSound
      <4> QED
        BY <2>2, <3>1, <4>1
    <3> QED
      BY <2>2, <3>2
  <2> QED
    BY <2>1, <2>2 DEF DeliverIntentResult, Erase
<1> SUFFICES ASSUME NEW x \in steady
             PROVE  /\ \A u \in tracking' : u.bridge = x => u.router = intentRouter[x]
                    /\ \A y \in Requests : Owed(x, y)' <=> Open(x, y)'
  BY <1>1 DEF BooksSound
<1>3. \A y \in Requests : Owed(x, y)' <=> Owed(x, y) /\ ~(x = b /\ y = r)
  BY <1>1 DEF Owed
<1>4. \A y \in Requests : Open(x, y)' <=> Open(x, y) /\ ~(x = b /\ y = r)
  BY <1>2 DEF Open
<1> QED
  BY <1>1, <1>3, <1>4 DEF BooksSound

\* What the present router still owes a steady bridge after an abandonment or a
\* destruction: nothing.
LEMMA BooksCleared ==
  ASSUME BooksSound, NEW b \in Bridges,
         pending' = pending \ Entries(b), steady' = steady, tracking' \subseteq tracking,
         \A t \in tracking : t.bridge # b => t \in tracking',
         b \in steady => \A t \in tracking' : t.bridge # b,
         \A x \in steady : x # b => intentRouter'[x] = intentRouter[x]
  PROVE  BooksSound'
<1> SUFFICES ASSUME NEW x \in steady
             PROVE  /\ \A u \in tracking' : u.bridge = x => u.router = intentRouter'[x]
                    /\ \A y \in Requests : Owed(x, y)' <=> Open(x, y)'
  BY DEF BooksSound
<1>1. CASE x = b
  BY <1>1 DEF Owed, Open, Entries
<1>2. CASE x # b
  <2>1. \A y \in Requests : Owed(x, y)' <=> Owed(x, y)
    BY <1>2 DEF Owed
  <2>2. \A y \in Requests : Open(x, y)' <=> Open(x, y)
    BY <1>2 DEF Open, Entries
  <2> QED
    BY <1>2, <2>1, <2>2 DEF BooksSound
<1> QED
  BY <1>1, <1>2

\* A reload empties the bridge's book, and the router's with it.
LEMMA BooksAbandon ==
  ASSUME DeliveryInv, BooksSound, NEW b \in Bridges, AbandonPendingIntents(b)
  PROVE  BooksSound'
<1>1. pending' = pending \ Entries(b) /\ steady' = steady /\ intentRouter' = intentRouter
  BY DEF AbandonPendingIntents, hostVars
<1>2. tracking' = tracking \/ tracking' = KeptAfterAbandon(b)
  BY DEF AbandonPendingIntents
<1>3. tracking' \subseteq tracking /\ \A t \in tracking : t.bridge # b => t \in tracking'
  BY <1>2 DEF KeptAfterAbandon
<1>4. ASSUME b \in steady, NEW t \in tracking', t.bridge = b
      PROVE  FALSE
  <2>1. t \in tracking /\ t.id \in Requests /\ t.router \in Routers
    BY <1>3 DEF DeliveryInv, TypeOK, Track
  <2>2. t.router = intentRouter[b] /\ Open(b, t.id)
    BY <1>4, <2>1 DEF BooksSound, Owed
  <2>3. PICK p \in Entries(b) : p.id = t.id
    BY <2>2 DEF Open, Entries
  <2>4. tracking' = KeptAfterAbandon(b)
    BY <2>1, <2>2, <2>3, IntentAssumptions DEF AbandonPendingIntents
  <2> QED
    BY <1>4, <2>2, <2>3, <2>4 DEF KeptAfterAbandon
<1> QED
  BY <1>1, <1>3, <1>4, BooksCleared

\* A destroyed bridge has told its router, and owes nothing more.
LEMMA BooksDestroy ==
  ASSUME DeliveryInv, BooksSound, NEW b \in Bridges, DestroyBridge(b)
  PROVE  BooksSound'
<1>1. /\ pending' = pending \ Entries(b) /\ steady' = steady
      /\ intentRouter' = [intentRouter EXCEPT ![b] = NoRouter]
  BY DEF DestroyBridge
<1>2. \/ intentRouter[b] = NoRouter /\ tracking' = tracking
      \/ tracking' = {t \in tracking : ~(t.router = intentRouter[b] /\ t.bridge = b)}
  BY DEF DestroyBridge
<1>3. tracking' \subseteq tracking /\ \A t \in tracking : t.bridge # b => t \in tracking'
  BY <1>2
<1>4. ASSUME b \in steady, NEW t \in tracking', t.bridge = b
      PROVE  FALSE
  <2>1. t \in tracking /\ t.router \in Routers
    BY <1>3 DEF DeliveryInv, TypeOK, Track
  <2>2. t.router = intentRouter[b]
    BY <1>4, <2>1 DEF BooksSound
  <2> QED
    BY <1>2, <1>4, <2>1, <2>2, IntentAssumptions
<1>5. \A x \in steady : x # b => intentRouter'[x] = intentRouter[x]
  BY <1>1 DEF DeliveryInv, TypeOK
<1> QED
  BY <1>1, <1>3, <1>4, <1>5, BooksCleared

\* A replaced router owes nothing, or the bridge is steady no longer.
LEMMA BooksRouter ==
  ASSUME DeliveryInv, BooksSound, NEW b \in Bridges, NEW m \in Routers \cup {NoRouter},
         SetIntentRouter(b, m)
  PROVE  BooksSound'
<1>1. /\ UNCHANGED <<tracking, pending>>
      /\ intentRouter' = [intentRouter EXCEPT ![b] = m]
      /\ steady' \subseteq steady
      /\ b \in steady' => \A t \in tracking : t.bridge # b
  BY DEF SetIntentRouter
<1>2. \A x \in steady : x # b => intentRouter'[x] = intentRouter[x]
  BY <1>1 DEF DeliveryInv, TypeOK
<1> QED
  BY <1>1, <1>2 DEF BooksSound, Owed, Open

\* Every step keeps the books in balance.
LEMMA BooksStep ==
  ASSUME DeliveryInv, BooksSound, [Next]_vars
  PROVE  BooksSound'
<1>1. ASSUME NEW b \in Bridges, Respond(b) \/ \E e \in Engines : EnterJs(b, e) \/ DeliverIntentRequest(b, e)
      PROVE  BooksSound'
  BY <1>1, BooksFrame DEF EnterJs, Respond, DeliverIntentRequest, hostVars
<1>2. CASE Return \/ RunPosted \/ UNCHANGED vars
  BY <1>2, BooksFrame DEF Return, RunPosted, vars, hostVars
<1>3. ASSUME NEW e \in Engines, DestroyEngine(e) \/ \E b \in Bridges : BindEngine(b, e)
      PROVE  BooksSound'
  BY <1>3, BooksFrame DEF BindEngine, DestroyEngine
<1> QED
  BY <1>1, <1>2, <1>3, BooksRequest, BooksResult, BooksAbandon, BooksDestroy, BooksRouter
  DEF Next

\* Bridge and router agree on what is open, at every bridge whose router was not
\* replaced under open requests.
THEOREM Balanced == Spec => []BooksBalance
<1>1. Init => BooksSound
  BY DEF Init, BooksSound, Owed, Open
<1>2. ASSUME DeliveryInv, BooksSound, NEW b \in steady
      PROVE  {t.id : t \in {u \in tracking : u.bridge = b}} = {p.id : p \in Entries(b)}
  <2>1. \A t \in tracking : t.id \in Requests
    BY <1>2 DEF DeliveryInv, TypeOK, Track
  <2>2. \A p \in pending : p.id \in Requests
    BY <1>2 DEF DeliveryInv, TypeOK, PendingIntent
  <2> QED
    BY <1>2, <2>1, <2>2 DEF BooksSound, Owed, Open, Entries
<1>3. DeliveryInv /\ BooksSound => BooksBalance
  BY <1>2 DEF BooksBalance
<1> QED
  BY <1>1, <1>3, BooksStep, DeliverySafe, PTL DEF Spec
-----------------------------------------------------------------------------
(***************************************************************************)
(* The callback contract.                                                  *)
(***************************************************************************)

\* The converse of what PostedSound says of cancelled deliveries: one that is
\* queued and was not cancelled is of a living bridge's present generation.
PostedFresh ==
  \A i \in 1..Len(posted) :
    posted[i].id \notin cancelled =>
      posted[i].bridge \in alive /\ posted[i].generation = generation[posted[i].bridge]

\* Cancelling what is outstanding at b catches all that b has queued.
LEMMA QueuedIsOutstanding ==
  ASSUME DeliveryInv, NEW i \in 1..Len(posted)
  PROVE  /\ posted[i] \in PendingIntent /\ posted[i].id \in Requests
         /\ posted[i].bridge \in Bridges
         /\ posted[i].id \in Outstanding(posted[i].bridge)
<1>1. posted[i] \in PendingIntent
  BY DEF DeliveryInv, TypeOK
<1>2. posted[i].id \in Requests /\ posted[i].bridge \in Bridges
  BY <1>1 DEF PendingIntent
<1>3. /\ origin[posted[i].id] = OriginOf(posted[i])
      /\ calls[posted[i].id] = 0
  BY DEF DeliveryInv, PostedSound
<1> QED
  BY <1>1, <1>2, <1>3 DEF Outstanding, OriginOf

\* Every step keeps PostedFresh: whatever ends a generation cancels what was queued.
LEMMA FreshStep ==
  ASSUME DeliveryInv, PostedFresh, [Next]_vars
  PROVE  PostedFresh'
<1>1. CASE UNCHANGED <<alive, generation, posted, cancelled>>
  BY <1>1 DEF PostedFresh
<1>2. ASSUME NEW b \in Bridges, NEW r \in Requests, NEW c \in BOOLEAN, Request(b, r, c)
      PROVE  PostedFresh'
  <2> DEFINE p == [id |-> r, bridge |-> b, callable |-> c, home |-> Head(stack).engine,
                   engine |-> engineOf[b], generation |-> generation[b]]
  <2>1. p \in PendingIntent /\ p.bridge = b /\ p.generation = generation[b]
    BY <1>2, CallerEngine DEF DeliveryInv, TypeOK, PendingIntent
  <2>2. UNCHANGED <<alive, generation, cancelled>> /\ b \in alive
    BY <1>2 DEF Request, hostVars, InJs
  <2>3. posted' = posted \/ PostDelivery(p)
    BY <1>2 DEF Request, FailIntentLocally
  <2> HIDE DEF p
  <2>4. CASE PostDelivery(p)
    BY <2>1, <2>2, <2>4, Enqueued DEF DeliveryInv, TypeOK, PostedFresh
  <2> QED
    BY <2>2, <2>3, <2>4, <1>1
<1>3. ASSUME NEW b \in Bridges, NEW r \in Requests, DeliverIntentResult(b, r)
      PROVE  PostedFresh'
  <2>1. UNCHANGED <<alive, generation, cancelled>>
    BY <1>3 DEF DeliverIntentResult, hostVars
  <2>2. ASSUME NEW p \in Entries(b), PostDelivery(p)
        PROVE  PostedFresh'
    <3>1. p \in PendingIntent /\ p.bridge \in alive /\ p.generation = generation[p.bridge]
      BY DEF Entries, DeliveryInv, TypeOK, EntriesSound
    <3> QED
      BY <2>1, <2>2, <3>1, Enqueued DEF DeliveryInv, TypeOK, PostedFresh
  <2> QED
    BY <1>1, <1>3, <2>1, <2>2 DEF DeliverIntentResult
<1>4. CASE RunPosted
  <2>1. UNCHANGED <<alive, generation, cancelled>> /\ posted # <<>> /\ posted' = Tail(posted)
    BY <1>4 DEF RunPosted, hostVars
  <2> QED
    BY <2>1, Dequeued DEF DeliveryInv, TypeOK, PostedFresh
<1>5. ASSUME NEW b \in Bridges, AbandonPendingIntents(b) \/ DestroyBridge(b)
      PROVE  PostedFresh'
  <2>1. /\ posted' = posted /\ cancelled' = cancelled \cup Outstanding(b)
        /\ \A x \in Bridges : x # b =>
             /\ x \in alive => x \in alive'
             /\ generation'[x] = generation[x]
    BY <1>5 DEF AbandonPendingIntents, DestroyBridge, hostVars, DeliveryInv, TypeOK
  <2> SUFFICES ASSUME NEW i \in 1..Len(posted), posted[i].id \notin cancelled'
               PROVE  /\ posted[i].bridge \in alive'
                      /\ posted[i].generation = generation'[posted[i].bridge]
    BY <2>1 DEF PostedFresh
  <2>2. posted[i].bridge \in Bridges /\ posted[i].bridge # b /\ posted[i].id \notin cancelled
    BY <2>1, QueuedIsOutstanding
  <2> QED
    BY <2>1, <2>2 DEF PostedFresh
<1>6. ASSUME NEW b \in Bridges, Respond(b) \/ \E e \in Engines : EnterJs(b, e) \/ DeliverIntentRequest(b, e)
      PROVE  PostedFresh'
  BY <1>1, <1>6 DEF EnterJs, Respond, DeliverIntentRequest, hostVars, historyVars
<1>7. CASE Return \/ UNCHANGED vars
  BY <1>1, <1>7 DEF Return, vars, hostVars, historyVars
<1>8. ASSUME NEW b \in Bridges, NEW m \in Routers \cup {NoRouter}, SetIntentRouter(b, m)
      PROVE  PostedFresh'
  BY <1>1, <1>8 DEF SetIntentRouter, historyVars
<1>9. ASSUME NEW e \in Engines, DestroyEngine(e) \/ \E b \in Bridges : BindEngine(b, e)
      PROVE  PostedFresh'
  BY <1>1, <1>9 DEF BindEngine, DestroyEngine, historyVars
<1> QED
  BY <1>2, <1>3, <1>4, <1>5, <1>6, <1>7, <1>8, <1>9 DEF Next

-----------------------------------------------------------------------------
\* What changes neither a request's history nor its waiting leaves its status.
LEMMA SameStatus ==
  ASSUME NEW r \in Requests, origin'[r] = origin[r], calls'[r] = calls[r],
         Waits(r)' <=> Waits(r)
  PROVE  StatusOf(r)' = StatusOf(r)
  BY DEF StatusOf

\* A step that moves one request along the contract, or none, is a step of it.
LEMMA OneMoves ==
  ASSUME NEW r \in Requests,
         \A x \in Requests : x # r => StatusOf(x)' = StatusOf(x),
         \/ StatusOf(r)' = StatusOf(r)
         \/ StatusOf(r) = "idle" /\ StatusOf(r)' \in {"waiting", "answered", "dropped"}
         \/ StatusOf(r) = "waiting" /\ StatusOf(r)' = "answered"
  PROVE  [Contract!Next]_Status
<1>1. /\ Status = [x \in Requests |-> StatusOf(x)]
      /\ Status' = [Status EXCEPT ![r] = StatusOf(r)']
  BY DEF Status
<1>2. CASE StatusOf(r)' = StatusOf(r)
  BY <1>1, <1>2
<1>3. CASE StatusOf(r) = "idle" /\ StatusOf(r)' \in {"waiting", "answered", "dropped"}
  <2>1. Contract!Ask(r, StatusOf(r)')
    BY <1>1, <1>3 DEF Contract!Ask
  <2> QED
    BY <1>3, <2>1 DEF Contract!Next
<1>4. CASE StatusOf(r) = "waiting" /\ StatusOf(r)' = "answered"
  <2>1. Contract!Answer(r)
    BY <1>1, <1>4 DEF Contract!Answer
  <2> QED
    BY <2>1 DEF Contract!Next
<1> QED
  BY <1>2, <1>3, <1>4

\* A step after which no request waits that did not is a step of the contract.
LEMMA SomeDropped ==
  ASSUME DeliveryInv, origin' = origin, calls' = calls,
         \A r \in Requests : Waits(r)' => Waits(r)
  PROVE  [Contract!Next]_Status
<1> DEFINE S == {r \in Requests : StatusOf(r) = "waiting" /\ ~Waits(r)'}
<1>1. \A r \in S : StatusOf(r)' = "dropped"
  BY DEF StatusOf
<1>2. \A r \in Requests \ S : StatusOf(r)' = StatusOf(r)
  BY DEF StatusOf
<1>3. Contract!Drop(S) /\ S \in SUBSET Requests
  BY <1>1, <1>2 DEF Contract!Drop, Status
<1> QED
  BY <1>3 DEF Contract!Next

\* request(): its own status moves, and no other's.
LEMMA RequestAsks ==
  ASSUME DeliveryInv, NEW b \in Bridges, NEW r \in Requests, NEW c \in BOOLEAN,
         Request(b, r, c)
  PROVE  [Contract!Next]_Status
<1> DEFINE p == [id |-> r, bridge |-> b, callable |-> c, home |-> Head(stack).engine,
                 engine |-> engineOf[b], generation |-> generation[b]]
<1>1. p \in PendingIntent /\ p.id = r
  BY CallerEngine DEF DeliveryInv, TypeOK, PendingIntent
<1>2. /\ calls' = calls /\ cancelled' = cancelled /\ liveEngines' = liveEngines
      /\ origin[r] = NotAsked /\ origin'[r] # NotAsked
      /\ \A x \in Requests : x # r => origin'[x] = origin[x]
  BY IntentAssumptions
  DEF Request, FailIntentLocally, PostDelivery, hostVars, DeliveryInv, TypeOK, NotAsked, OriginOf
<1>3. p \notin pending
  BY <1>1, <1>2, FreshId
<1>4. \/ pending' = pending /\ PostDelivery(p)
      \/ pending' = pending \cup {p} /\ posted' = posted
  <2>1. CASE intentRouter[b] = NoRouter
    <3>1. FailIntentLocally(p)
      BY <2>1 DEF Request
    <3> HIDE DEF p
    <3> QED
      BY <1>3, <3>1 DEF FailIntentLocally, Erase
  <2>2. CASE intentRouter[b] # NoRouter
    BY <2>2 DEF Request
  <2> QED
    BY <2>1, <2>2
<1> HIDE DEF p
<1>5. ASSUME NEW x \in Requests, x # r PROVE Waits(x)' <=> Waits(x)
  <2>1. CASE pending' = pending /\ PostDelivery(p)
    <3>1. posted' = posted \/ posted' = Append(posted, p)
      BY <2>1 DEF PostDelivery
    <3>2. CASE posted' = posted
      BY <1>2, <2>1, <3>2 DEF Waits, CanDeliver, IsCallable
    <3>3. CASE posted' = Append(posted, p)
      <4>1. /\ posted \in Seq(PendingIntent) /\ Len(posted) \in Nat
            /\ Len(posted') = Len(posted) + 1
            /\ \A i \in 1..Len(posted) : posted'[i] = posted[i]
            /\ posted'[Len(posted) + 1] = p
        BY <1>1, <3>3 DEF DeliveryInv, TypeOK
      <4>2. \A i \in 1..Len(posted') :
              i \in 1..Len(posted) \/ posted'[i].id # x
        BY <1>1, <1>5, <4>1
      <4>3. \A i \in 1..Len(posted) : i \in 1..Len(posted')
        BY <4>1
      <4> QED
        BY <1>2, <2>1, <4>1, <4>2, <4>3 DEF Waits, CanDeliver, IsCallable
    <3> QED
      BY <3>1, <3>2, <3>3
  <2>2. CASE pending' = pending \cup {p} /\ posted' = posted
    BY <1>1, <1>2, <1>5, <2>2 DEF Waits, CanDeliver, IsCallable
  <2> QED
    BY <1>4, <2>1, <2>2
<1>6. \A x \in Requests : x # r => StatusOf(x)' = StatusOf(x)
  BY <1>2, <1>5, SameStatus
<1>7. StatusOf(r) = "idle" /\ StatusOf(r)' \in {"waiting", "dropped"}
  <2>1. calls[r] = 0
    BY <1>2, FreshId
  <2> QED
    BY <1>2, <2>1 DEF StatusOf
<1> QED
  BY <1>6, <1>7, OneMoves

\* deliverIntentResult(): a callback that can be called waits in the queue now.
LEMMA ResultKeepsStatus ==
  ASSUME DeliveryInv, NEW b \in Bridges, NEW r \in Requests, DeliverIntentResult(b, r)
  PROVE  [Contract!Next]_Status
<1>1. UNCHANGED <<origin, calls, cancelled, liveEngines>>
  BY DEF DeliverIntentResult, hostVars, PostDelivery
<1>2. CASE UNCHANGED <<pending, posted>>
  BY <1>1, <1>2 DEF Status, StatusOf, Waits, CanDeliver, IsCallable
<1>3. ASSUME NEW p \in Entries(b), pending' = Erase(pending, p), PostDelivery(p)
      PROVE  \A x \in Requests : Waits(x)' => Waits(x)
  <2>1. p \in pending /\ p \in PendingIntent /\ pending' = pending \ {p}
    BY <1>3 DEF Entries, Erase, DeliveryInv, TypeOK
  <2>2. /\ posted \in Seq(PendingIntent)
        /\ \A i \in 1..Len(posted') :
             \/ i \in 1..Len(posted) /\ posted'[i] = posted[i]
             \/ i = Len(posted) + 1 /\ posted'[i] = p
    BY <1>3, <2>1, Enqueued DEF DeliveryInv, TypeOK
  <2> QED
    BY <1>1, <2>1, <2>2 DEF Waits, CanDeliver, IsCallable
<1> QED
  BY <1>1, <1>2, <1>3, SomeDropped DEF DeliverIntentResult

\* A turn of the event loop answers the request it calls back, and no other
\* request depended on the delivery it took out.
LEMMA TurnAnswers ==
  ASSUME DeliveryInv, PostedFresh, RunPosted
  PROVE  [Contract!Next]_Status
<1> DEFINE p == posted[1]
<1>1. /\ UNCHANGED <<origin, cancelled, liveEngines, pending>>
      /\ posted # <<>> /\ posted' = Tail(posted) /\ posted \in Seq(PendingIntent)
  BY DEF RunPosted, hostVars, DeliveryInv, TypeOK
<1>2. /\ p = Head(posted) /\ 1 \in 1..Len(posted) /\ p \in PendingIntent
      /\ Len(posted) \in Nat /\ Len(posted') = Len(posted) - 1
      /\ \A i \in 1..Len(posted') : i + 1 \in 1..Len(posted) /\ posted'[i] = posted[i + 1]
  BY <1>1, Dequeued
<1>3. p.id \in Requests /\ p.bridge \in Bridges
  BY <1>2 DEF PendingIntent
<1>4. /\ calls[p.id] = 0
      /\ origin[p.id] = OriginOf(p)
  BY <1>2 DEF DeliveryInv, PostedSound
<1>5. \/ Deliverable(p) /\ calls' = [calls EXCEPT ![p.id] = calls[p.id] + 1]
      \/ ~Deliverable(p) /\ calls' = calls
  BY <1>2 DEF RunPosted
<1>6. /\ p.id \in cancelled => p.bridge \notin alive \/ p.generation < generation[p.bridge]
      /\ p.id \notin cancelled => p.bridge \in alive /\ p.generation = generation[p.bridge]
      /\ p.generation \in Nat
  BY <1>2 DEF DeliveryInv, PostedSound, PostedFresh, PendingIntent
<1>7. Deliverable(p) <=> CanDeliver(p)
  <2> HIDE DEF p
  <2> QED
    BY <1>6 DEF Deliverable, CanDeliver, IsCallable
<1>8. origin[p.id] # NotAsked
  BY <1>3, <1>4, IntentAssumptions DEF NotAsked, OriginOf
<1> HIDE DEF p
<1>9. ASSUME NEW x \in Requests, Waits(x)' PROVE Waits(x)
  BY <1>1, <1>2, <1>9 DEF Waits, CanDeliver, IsCallable
<1>10. ASSUME NEW x \in Requests, Waits(x), ~(x = p.id /\ CanDeliver(p)) PROVE Waits(x)'
  <2>1. CASE \E q \in pending : q.id = x /\ CanDeliver(q)
    BY <1>1, <2>1 DEF Waits, CanDeliver, IsCallable
  <2>2. ASSUME NEW i \in 1..Len(posted), posted[i].id = x, CanDeliver(posted[i])
        PROVE  Waits(x)'
    <3>1. i # 1
      BY <1>10, <2>2 DEF p
    <3>2. i - 1 \in 1..Len(posted') /\ posted'[i - 1] = posted[i]
      BY <1>2, <2>2, <3>1
    <3> QED
      BY <1>1, <2>2, <3>2 DEF Waits, CanDeliver, IsCallable
  <2> QED
    BY <1>10, <2>1, <2>2 DEF Waits
<1>11. CASE ~Deliverable(p)
  BY <1>1, <1>5, <1>9, <1>11, SomeDropped
<1>12. CASE Deliverable(p)
  <2>1. PICK r \in Requests : r = p.id
    BY <1>3
  <2>2. /\ calls[r] = 0 /\ calls'[r] = 1
        /\ origin[r] # NotAsked /\ origin'[r] # NotAsked
        /\ \A x \in Requests : x # r => calls'[x] = calls[x]
    BY <1>1, <1>4, <1>5, <1>8, <1>12, <2>1 DEF DeliveryInv, TypeOK
  <2>3. \A x \in Requests : x # r => StatusOf(x)' = StatusOf(x)
    BY <1>1, <1>9, <1>10, <2>1, <2>2, SameStatus
  <2>4. Waits(r)
    BY <1>2, <1>7, <1>12, <2>1 DEF Waits, p
  <2>5. StatusOf(r) = "waiting" /\ StatusOf(r)' = "answered"
    BY <2>2, <2>4 DEF StatusOf
  <2> QED
    BY <2>3, <2>5, OneMoves
<1> QED
  BY <1>11, <1>12

\* Every step of the bridges leaves each request's status or moves it along
\* the contract.
LEMMA ContractStep ==
  ASSUME DeliveryInv, PostedFresh, [Next]_vars
  PROVE  [Contract!Next]_Status
<1>1. ASSUME UNCHANGED <<origin, calls, pending, posted, cancelled, liveEngines>>
      PROVE  [Contract!Next]_Status
  BY <1>1 DEF Status, StatusOf, Waits, CanDeliver, IsCallable
<1>2. ASSUME NEW b \in Bridges, Respond(b) \/ \E e \in Engines : EnterJs(b, e) \/ DeliverIntentRequest(b, e)
      PROVE  [Contract!Next]_Status
  BY <1>1, <1>2 DEF EnterJs, Respond, DeliverIntentRequest, hostVars, historyVars
<1>3. CASE Return \/ UNCHANGED vars
  BY <1>1, <1>3 DEF Return, vars, hostVars, historyVars
<1>4. ASSUME NEW b \in Bridges, NEW m \in Routers \cup {NoRouter}, SetIntentRouter(b, m)
      PROVE  [Contract!Next]_Status
  BY <1>1, <1>4 DEF SetIntentRouter, historyVars
<1>5. ASSUME NEW e \in Engines, NEW b \in Bridges, BindEngine(b, e)
      PROVE  [Contract!Next]_Status
  BY <1>1, <1>5 DEF BindEngine, historyVars
<1>6. ASSUME NEW e \in Engines, DestroyEngine(e)
      PROVE  [Contract!Next]_Status
  <2>1. /\ UNCHANGED <<origin, calls, pending, posted, cancelled>>
        /\ liveEngines' \subseteq liveEngines
    BY <1>6 DEF DestroyEngine, historyVars
  <2> QED
    BY <2>1, SomeDropped DEF Waits, CanDeliver, IsCallable
<1>7. ASSUME NEW b \in Bridges, AbandonPendingIntents(b) \/ DestroyBridge(b)
      PROVE  [Contract!Next]_Status
  <2>1. /\ UNCHANGED <<origin, calls, posted, liveEngines>>
        /\ pending' \subseteq pending /\ cancelled \subseteq cancelled'
    BY <1>7 DEF AbandonPendingIntents, DestroyBridge, hostVars
  <2> QED
    BY <2>1, SomeDropped DEF Waits, CanDeliver, IsCallable
<1> QED
  BY <1>2, <1>3, <1>4, <1>5, <1>6, <1>7, RequestAsks, ResultKeepsStatus, TurnAnswers DEF Next

\* request() implements the callback contract: it is asked once, and then
\* answered once or dropped for good.
THEOREM KeepsContract == Spec => ImplementsContract
<1>1. Init => Contract!Init
  BY DEF Init, Contract!Init, Status, StatusOf
<1>2. Init => PostedFresh
  BY DEF Init, PostedFresh
<1>3. DeliveryInv /\ PostedFresh /\ [Next]_vars => [Contract!Next]_Status
  BY ContractStep
<1> QED
  BY <1>1, <1>2, <1>3, FreshStep, DeliverySafe, PTL DEF Spec, ImplementsContract, Contract!Spec

-----------------------------------------------------------------------------
(***************************************************************************)
(* The vocabulary: what its passes over names and payloads compute.        *)
(***************************************************************************)

\* A set of naturals that is not empty has a least member.
LEMMA Least ==
  ASSUME NEW T, T \subseteq Nat, T # {}
  PROVE  \E n \in T : \A k \in T : n <= k
<1>1. PICK n \in T : \A k \in T : ~(<<k, n>> \in OpToRel(<, Nat))
  BY NatLessThanWellFounded, WFMin, Zenon
<1>2. \A k \in T : <<k, n>> \in Nat \X Nat /\ <<k, n>>[1] = k /\ <<k, n>>[2] = n
  OBVIOUS
<1>3. \A k \in T : ~(k < n)
  BY <1>1, <1>2, Zenon DEF OpToRel
<1> QED BY <1>3

\* What holds at 0 and is passed on holds as far as n: T are the numbers it holds of.
LEMMA AsFarAs ==
  ASSUME NEW n \in Nat, NEW T, 0 \in T, \A i \in 1..n : i - 1 \in T => i \in T
  PROVE  \A i \in 0..n : i \in T
<1> DEFINE Missing == (0..n) \ T
<1> SUFFICES ASSUME Missing # {} PROVE FALSE
  OBVIOUS
<1>1. Missing \subseteq Nat
  OBVIOUS
<1>2. PICK m \in Missing : \A k \in Missing : m <= k
  BY <1>1, Least
<1>3. m \in 1..n /\ m \notin T
  BY <1>2
<1>4. m - 1 \in 0..n /\ m - 1 \notin Missing
  BY <1>2, <1>3
<1> QED
  BY <1>3, <1>4

\* Folds(f, n, start, step) : f is what the code's passes leave behind, step by step,
\* where step is the function from a place and what was so far.
Folds(f, n, start, step) ==
  f = [i \in 0..n |-> IF i = 0 THEN start ELSE step[<<i, f[i - 1]>>]]

\* There is such a function for every length.
LEMMA FoldExists == \A start, step : \A n \in Nat : \E f : Folds(f, n, start, step)
<1> SUFFICES ASSUME NEW start, NEW step PROVE \A n \in Nat : \E f : Folds(f, n, start, step)
  OBVIOUS
<1> DEFINE Found == {n \in Nat : \E f : Folds(f, n, start, step)}
<1>1. 0 \in Found
  <2> DEFINE f == [k \in 0..0 |-> start]
  <2>1. f = [k \in 0..0 |-> IF k = 0 THEN start ELSE step[<<k, f[k - 1]>>]]
    OBVIOUS
  <2> QED BY <2>1 DEF Folds
<1>2. ASSUME NEW n \in Nat, n # 0, n - 1 \in Found
      PROVE  n \in Found
  <2>1. PICK f : Folds(f, n - 1, start, step)
    BY <1>2
  <2> DEFINE g == [k \in 0..n |-> IF k = 0 THEN start ELSE step[<<k, f[k - 1]>>]]
  <2>3. \A k \in 0..(n - 1) : f[k] = IF k = 0 THEN start ELSE step[<<k, f[k - 1]>>]
    BY <2>1 DEF Folds
  <2>4. \A k \in 0..(n - 1) : g[k] = f[k]
    BY <2>3
  <2>5. \A k \in 0..n : k # 0 => k - 1 \in 0..(n - 1)
    OBVIOUS
  <2>6. \A k \in 0..n : (IF k = 0 THEN start ELSE step[<<k, f[k - 1]>>])
                         = (IF k = 0 THEN start ELSE step[<<k, g[k - 1]>>])
    <3> HIDE DEF g
    <3> QED BY <2>4, <2>5
  <2>7. g = [k \in 0..n |-> IF k = 0 THEN start ELSE step[<<k, g[k - 1]>>]]
    BY <2>6, Zenon
  <2> QED BY <2>7 DEF Folds
<1>3. ASSUME NEW n \in Nat PROVE n \in Found
  <2> HIDE DEF Found
  <2>1. \A i \in 1..n : i - 1 \in Found => i \in Found
    BY <1>2
  <2> QED BY <1>1, <2>1, AsFarAs
<1> QED BY <1>3

\* ... and it stays within S if its steps do.
LEMMA FoldWithin ==
  ASSUME NEW n \in Nat, NEW S, NEW start \in S, NEW step \in [(1..n) \X S -> S]
  PROVE  \E f \in [0..n -> S] : Folds(f, n, start, step)
<1>1. PICK f : Folds(f, n, start, step)
  BY FoldExists
<1>2. \A i \in 0..n : f[i] = IF i = 0 THEN start ELSE step[<<i, f[i - 1]>>]
  BY <1>1 DEF Folds
<1> DEFINE T == {i \in 0..n : f[i] \in S}
<1>3. \A i \in 0..n : i \in T
  <2>1. 0 \in T
    <3>1. 0 \in 0..n
      OBVIOUS
    <3> QED BY <1>2, <3>1
  <2>2. \A i \in 1..n : i - 1 \in T => i \in T
    <3> SUFFICES ASSUME NEW i \in 1..n, f[i - 1] \in S PROVE f[i] \in S
      OBVIOUS
    <3>1. i \in 0..n /\ i # 0 /\ <<i, f[i - 1]>> \in (1..n) \X S
      OBVIOUS
    <3>2. step[<<i, f[i - 1]>>] \in S
      BY <3>1, Zenon
    <3> QED BY <1>2, <3>1, <3>2, Zenon
  <2> HIDE DEF T
  <2> QED BY <2>1, <2>2, AsFarAs
<1>4. f = [i \in 0..n |-> f[i]]
  BY <1>1, Zenon DEF Folds
<1>5. f \in [0..n -> S]
  BY <1>3, <1>4
<1> QED BY <1>1, <1>5

-----------------------------------------------------------------------------
\* What a scan of a segment remembers.
Seen == [ok : BOOLEAN, underscore : BOOLEAN]

LEMMA ScannedUnfolds ==
  ASSUME NEW seg \in Seq(Characters)
  PROVE  /\ Scanned(seg)[0] = [ok |-> TRUE, underscore |-> FALSE]
         /\ \A i \in 1..Len(seg) : Scanned(seg)[i] = Scan(Scanned(seg)[i - 1], seg[i])
<1> DEFINE n == Len(seg)
           start == [ok |-> TRUE, underscore |-> FALSE]
           step == [x \in (1..n) \X Seen |-> Scan(x[2], seg[x[1]])]
<1>1. n \in Nat
  OBVIOUS
<1>2. start \in Seen
  BY DEF Seen
<1>3. \A s \in Seen, c \in Characters : Scan(s, c) \in Seen
  BY DEF Scan, Seen
<1>4. step \in [(1..n) \X Seen -> Seen]
  BY <1>3
<1>5. PICK f \in [0..n -> Seen] : Folds(f, n, start, step)
  <2> HIDE DEF n, start, step
  <2> QED BY <1>1, <1>2, <1>4, FoldWithin
<1>6. \A i \in 0..n : i # 0 => step[<<i, f[i - 1]>>] = Scan(f[i - 1], seg[i])
  <2> SUFFICES ASSUME NEW i \in 0..n, i # 0 PROVE step[<<i, f[i - 1]>>] = Scan(f[i - 1], seg[i])
    OBVIOUS
  <2>1. i \in 1..n /\ f[i - 1] \in Seen
    BY <1>5
  <2>2. <<i, f[i - 1]>> \in (1..n) \X Seen
    BY <2>1
  <2> QED BY <2>2
<1>7. f = [i \in 0..n |-> IF i = 0 THEN start ELSE Scan(f[i - 1], seg[i])]
  <2> HIDE DEF n, start, step
  <2>1. \A i \in 0..n : (IF i = 0 THEN start ELSE step[<<i, f[i - 1]>>])
                        = (IF i = 0 THEN start ELSE Scan(f[i - 1], seg[i]))
    BY <1>6
  <2> QED BY <1>5, <2>1, Zenon DEF Folds
<1>8. Scanned(seg) = [i \in 0..n |-> IF i = 0 THEN start ELSE Scan(Scanned(seg)[i - 1], seg[i])]
  BY <1>7 DEF Scanned
<1> HIDE DEF start
<1>9. \A i \in 0..n : Scanned(seg)[i] = IF i = 0 THEN start ELSE Scan(Scanned(seg)[i - 1], seg[i])
  BY <1>8, Zenon
<1>10. 0 \in 0..n /\ \A i \in 1..n : i \in 0..n /\ i # 0
  OBVIOUS
<1> QED BY <1>9, <1>10, Zenon DEF start

\* After i characters the scan knows whether they are fine and whether the last was "_".
LEMMA ScanKnows ==
  ASSUME NEW seg \in Seq(Characters), NEW i \in 0..Len(seg)
  PROVE  /\ Scanned(seg)[i] \in Seen
         /\ Scanned(seg)[i].underscore <=> i # 0 /\ seg[i] = "underscore"
         /\ Scanned(seg)[i].ok <=>
              \A k \in 1..i : /\ seg[k] \in {"letter", "digit", "underscore"}
                              /\ k # 1 /\ seg[k] = "underscore" => seg[k - 1] # "underscore"
<1> DEFINE n == Len(seg)
           seen == Scanned(seg)
           Fine(k) == /\ seg[k] \in {"letter", "digit", "underscore"}
                      /\ k # 1 /\ seg[k] = "underscore" => seg[k - 1] # "underscore"
           Knows(j) == /\ seen[j] \in Seen
                       /\ seen[j].underscore <=> j # 0 /\ seg[j] = "underscore"
                       /\ seen[j].ok <=> \A k \in 1..j : Fine(k)
           T == {j \in 0..n : Knows(j)}
<1>1. n \in Nat
  OBVIOUS
<1>2. /\ seen[0] = [ok |-> TRUE, underscore |-> FALSE]
      /\ \A j \in 1..n : seen[j] = Scan(seen[j - 1], seg[j])
  BY ScannedUnfolds
<1> HIDE DEF seen
<1>3. 0 \in T
  <2>1. 0 \in 0..n /\ seen[0] \in Seen /\ ~(0 # 0)
    BY <1>1, <1>2 DEF Seen
  <2>2. seen[0].ok = TRUE /\ seen[0].underscore = FALSE
    BY <1>2
  <2>3. \A k \in 1..0 : Fine(k)
    OBVIOUS
  <2>4. Knows(0)
    <3> HIDE DEF Fine
    <3> QED BY <2>1, <2>2, <2>3
  <2> QED
    <3> HIDE DEF Knows
    <3> QED BY <2>1, <2>4
<1>4. ASSUME NEW j \in 1..n, j - 1 \in T
      PROVE  j \in T
  <2>1. Knows(j - 1)
    BY <1>4
  <2>2. /\ seen[j] \in Seen
        /\ seen[j].underscore <=> seg[j] = "underscore"
        /\ seen[j].ok <=> /\ seen[j - 1].ok
                          /\ seg[j] = "underscore" => ~seen[j - 1].underscore
                          /\ seg[j] \in {"letter", "digit", "underscore"}
    <3>1. seen[j] = Scan(seen[j - 1], seg[j])
      BY <1>2
    <3>2. seen[j - 1].ok \in BOOLEAN /\ seen[j - 1].underscore \in BOOLEAN
      BY <2>1 DEF Seen
    <3>3. CASE seg[j] = "underscore"
      <4>1. seen[j] = [ok |-> seen[j - 1].ok /\ ~seen[j - 1].underscore, underscore |-> TRUE]
        BY <3>1, <3>3 DEF Scan
      <4>2. /\ seen[j].underscore = TRUE
            /\ seen[j].ok = (seen[j - 1].ok /\ ~seen[j - 1].underscore)
        BY <4>1
      <4>3. seen[j] \in Seen
        BY <4>1 DEF Seen
      <4> QED BY <3>3, <4>2, <4>3
    <3>4. CASE seg[j] # "underscore"
      <4>1. seen[j] = [ok |-> seen[j - 1].ok /\ seg[j] \in {"letter", "digit"},
                       underscore |-> FALSE]
        BY <3>1, <3>4 DEF Scan
      <4>2. /\ seen[j].underscore = FALSE
            /\ seen[j].ok = (seen[j - 1].ok /\ seg[j] \in {"letter", "digit"})
        BY <4>1
      <4>3. seen[j] \in Seen
        BY <4>1 DEF Seen
      <4> QED BY <3>4, <4>2, <4>3
    <3> QED BY <3>3, <3>4
  <2>3. seen[j].ok <=> seen[j - 1].ok /\ Fine(j)
    BY <2>1, <2>2
  <2>4. \A k \in 1..j : k = j \/ k \in 1..(j - 1)
    OBVIOUS
  <2>5. 1..(j - 1) \subseteq 1..j /\ j \in 1..j
    OBVIOUS
  <2>6. seen[j].ok <=> \A k \in 1..j : Fine(k)
    <3> HIDE DEF Fine
    <3> QED BY <2>1, <2>3, <2>4, <2>5
  <2>7. Knows(j)
    <3> HIDE DEF Fine
    <3> QED BY <2>2, <2>6
  <2> QED
    <3> HIDE DEF Knows
    <3> QED BY <2>7
<1>5. i \in T
  <2> HIDE DEF T, n
  <2> QED BY <1>1, <1>3, <1>4, AsFarAs DEF n
<1> QED
  BY <1>5 DEF seen

\* isValidSegment() accepts the segments of the grammar, and nothing else: words of
\* lower-case letters and digits that single underscores join, a letter first.
THEOREM SegmentsFollowTheGrammar ==
  ASSUME NEW seg \in Seq(Characters)
  PROVE  IsValidSegment(seg) <=> WellFormedSegment(seg)
<1> DEFINE n == Len(seg)
<1>1. CASE seg = <<>>
  BY <1>1 DEF IsValidSegment, WellFormedSegment
<1>2. CASE seg # <<>>
  <2>1. n \in Nat /\ n # 0 /\ n \in 0..n /\ DOMAIN seg = 1..n /\ Head(seg) = seg[1]
    BY <1>2
  <2>2. /\ Scanned(seg)[n].underscore <=> seg[n] = "underscore"
        /\ Scanned(seg)[n].ok <=>
             \A k \in 1..n : /\ seg[k] \in {"letter", "digit", "underscore"}
                             /\ k # 1 /\ seg[k] = "underscore" => seg[k - 1] # "underscore"
    BY <2>1, ScanKnows
  <2>3. ASSUME seg[1] = "letter", Scanned(seg)[n].ok, ~Scanned(seg)[n].underscore, NEW i \in 1..n
        PROVE  /\ seg[i] \in {"letter", "digit", "underscore"}
               /\ seg[i] = "underscore" => i < n /\ seg[i + 1] \in {"letter", "digit"}
    <3>1. seg[i] = "underscore" => i < n
      BY <2>1, <2>2, <2>3
    <3>2. seg[i] = "underscore" => i + 1 \in 1..n /\ i + 1 # 1 /\ (i + 1) - 1 = i
      BY <3>1, <2>1
    <3> QED BY <2>2, <2>3, <3>1, <3>2
  <2>4. ASSUME \A i \in 1..n : /\ seg[i] \in {"letter", "digit", "underscore"}
                               /\ seg[i] = "underscore" => i < n /\ seg[i + 1] \in {"letter", "digit"}
        PROVE  Scanned(seg)[n].ok /\ ~Scanned(seg)[n].underscore
    <3>1. seg[n] # "underscore"
      BY <2>1, <2>4
    <3>2. ASSUME NEW k \in 1..n, k # 1, seg[k] = "underscore"
          PROVE  seg[k - 1] # "underscore"
      <4>1. k - 1 \in 1..n /\ (k - 1) + 1 = k
        BY <3>2
      <4> QED BY <4>1, <2>4, <3>2
    <3> QED BY <2>2, <2>4, <3>1, <3>2
  <2> QED
    BY <1>2, <2>1, <2>3, <2>4 DEF IsValidSegment, WellFormedSegment
<1> QED BY <1>1, <1>2

-----------------------------------------------------------------------------
\* The budget of a payload.
Budget == [nodes : Nat, chars : Nat, ok : BOOLEAN]

LEMMA CharsType == \A v \in PayloadValue : Chars(v) \in Nat
  BY DEF Chars, PayloadValue

\* What checkPayloadValue() demands of one value, given the budget so far.
Passes(b, v) ==
  /\ v.key <= MaxKey
  /\ b.chars + v.key <= MaxPayloadChars
  /\ v.depth <= MaxNesting
  /\ b.nodes + 1 <= MaxNodes
  /\ v.type \in Scalars \cup {"string", "list", "map"}
  /\ v.type = "string" =>
       v.length <= MaxString /\ b.chars + Chars(v) <= MaxPayloadChars

\* One value against the budget, part by part.
LEMMA CheckIs ==
  ASSUME NEW b \in Budget, NEW v \in PayloadValue
  PROVE  /\ CheckPayloadValue(b, v) \in Budget
         /\ ~b.ok => CheckPayloadValue(b, v) = b
         /\ b.ok => /\ CheckPayloadValue(b, v).nodes = b.nodes + 1
                    /\ CheckPayloadValue(b, v).chars = b.chars + Chars(v)
                    /\ CheckPayloadValue(b, v).ok = Passes(b, v)
<1>1. b.nodes + 1 \in Nat /\ b.chars + Chars(v) \in Nat
  BY CharsType DEF Budget
<1>2. Passes(b, v) \in BOOLEAN
  BY DEF Passes
<1>3. CheckPayloadValue(b, v) =
        IF ~b.ok THEN b
        ELSE [nodes |-> b.nodes + 1, chars |-> b.chars + Chars(v), ok |-> Passes(b, v)]
  BY Zenon DEF CheckPayloadValue, Passes
<1>4. CASE b.ok
  <2>1. CheckPayloadValue(b, v) =
          [nodes |-> b.nodes + 1, chars |-> b.chars + Chars(v), ok |-> Passes(b, v)]
    BY <1>3, <1>4, Zenon
  <2>2. CheckPayloadValue(b, v) \in Budget
    BY <2>1, <1>1, <1>2 DEF Budget
  <2> QED BY <1>4, <2>1, <2>2
<1>5. CASE ~b.ok
  BY <1>3, <1>5, Zenon
<1> QED BY <1>4, <1>5

\* The walk of checkPayloadValue() over a payload, value by value.
LEMMA SpentUnfolds ==
  ASSUME NEW walk \in Seq(PayloadValue)
  PROVE  /\ Spent(walk)[0] = [nodes |-> 0, chars |-> 0, ok |-> TRUE]
         /\ \A i \in 1..Len(walk) :
              Spent(walk)[i] = CheckPayloadValue(Spent(walk)[i - 1], walk[i])
<1> DEFINE n == Len(walk)
           start == [nodes |-> 0, chars |-> 0, ok |-> TRUE]
           step == [x \in (1..n) \X Budget |-> CheckPayloadValue(x[2], walk[x[1]])]
<1>1. n \in Nat
  OBVIOUS
<1>2. start \in Budget
  BY DEF Budget
<1>3. \A b \in Budget, v \in PayloadValue : CheckPayloadValue(b, v) \in Budget
  BY CheckIs
<1>4. step \in [(1..n) \X Budget -> Budget]
  BY <1>3
<1>5. PICK f \in [0..n -> Budget] : Folds(f, n, start, step)
  <2> HIDE DEF n, start, step
  <2> QED BY <1>1, <1>2, <1>4, FoldWithin
<1>6. \A i \in 0..n : i # 0 => step[<<i, f[i - 1]>>] = CheckPayloadValue(f[i - 1], walk[i])
  <2> SUFFICES ASSUME NEW i \in 0..n, i # 0
               PROVE  step[<<i, f[i - 1]>>] = CheckPayloadValue(f[i - 1], walk[i])
    OBVIOUS
  <2>1. i \in 1..n /\ f[i - 1] \in Budget
    BY <1>5
  <2>2. <<i, f[i - 1]>> \in (1..n) \X Budget
    BY <2>1
  <2> QED BY <2>2
<1>7. f = [i \in 0..n |-> IF i = 0 THEN start ELSE CheckPayloadValue(f[i - 1], walk[i])]
  <2> HIDE DEF n, start, step
  <2>1. \A i \in 0..n : (IF i = 0 THEN start ELSE step[<<i, f[i - 1]>>])
                        = (IF i = 0 THEN start ELSE CheckPayloadValue(f[i - 1], walk[i]))
    BY <1>6
  <2> QED BY <1>5, <2>1, Zenon DEF Folds
<1>8. Spent(walk) =
        [i \in 0..n |-> IF i = 0 THEN start ELSE CheckPayloadValue(Spent(walk)[i - 1], walk[i])]
  BY <1>7 DEF Spent
<1> HIDE DEF start
<1>9. \A i \in 0..n : Spent(walk)[i] =
        IF i = 0 THEN start ELSE CheckPayloadValue(Spent(walk)[i - 1], walk[i])
  BY <1>8, Zenon
<1>10. 0 \in 0..n /\ \A i \in 1..n : i \in 0..n /\ i # 0
  OBVIOUS
<1> QED BY <1>9, <1>10, Zenon DEF start

\* The sum of the characters, value by value.
LEMMA TotalUnfolds ==
  ASSUME NEW walk \in Seq(PayloadValue)
  PROVE  /\ Total(walk)[0] = 0
         /\ \A i \in 1..Len(walk) : Total(walk)[i] = Total(walk)[i - 1] + Chars(walk[i])
<1> DEFINE n == Len(walk)
           step == [x \in (1..n) \X Nat |-> x[2] + Chars(walk[x[1]])]
<1>1. n \in Nat
  OBVIOUS
<1>2. \A i \in 1..n : Chars(walk[i]) \in Nat
  BY CharsType
<1>4. step \in [(1..n) \X Nat -> Nat]
  BY <1>2
<1>5. PICK f \in [0..n -> Nat] : Folds(f, n, 0, step)
  <2> HIDE DEF n, step
  <2> QED BY <1>1, <1>4, FoldWithin
<1>6. \A i \in 0..n : i # 0 => step[<<i, f[i - 1]>>] = f[i - 1] + Chars(walk[i])
  <2> SUFFICES ASSUME NEW i \in 0..n, i # 0
               PROVE  step[<<i, f[i - 1]>>] = f[i - 1] + Chars(walk[i])
    OBVIOUS
  <2>1. i \in 1..n /\ i - 1 \in 0..n
    BY <1>1
  <2>3. f[i - 1] \in Nat
    BY <1>5, <2>1
  <2>2. <<i, f[i - 1]>> \in (1..n) \X Nat
    BY <2>1, <2>3
  <2> QED BY <2>2
<1>7. f = [i \in 0..n |-> IF i = 0 THEN 0 ELSE f[i - 1] + Chars(walk[i])]
  <2> HIDE DEF n, step
  <2>1. \A i \in 0..n : (IF i = 0 THEN 0 ELSE step[<<i, f[i - 1]>>])
                        = (IF i = 0 THEN 0 ELSE f[i - 1] + Chars(walk[i]))
    BY <1>6
  <2> QED BY <1>5, <2>1, Zenon DEF Folds
<1>8. Total(walk) = [i \in 0..n |-> IF i = 0 THEN 0 ELSE Total(walk)[i - 1] + Chars(walk[i])]
  BY <1>7 DEF Total
<1>9. \A i \in 0..n : Total(walk)[i] = IF i = 0 THEN 0 ELSE Total(walk)[i - 1] + Chars(walk[i])
  BY <1>8, Zenon
<1>10. 0 \in 0..n /\ \A i \in 1..n : i \in 0..n /\ i # 0
  OBVIOUS
<1> QED BY <1>9, <1>10, Zenon

\* A value that is fine by itself.
FineValue(v) ==
  /\ v.type \in Scalars \cup {"string", "list", "map"}
  /\ v.depth <= MaxNesting
  /\ v.key <= MaxKey
  /\ v.type = "string" => v.length <= MaxString

\* What the budget says of the first i values of a payload: whether they are within
\* bounds and, if they are, how many there are and how long.
BudgetKnows(walk, i) ==
  /\ Total(walk)[i] \in Nat
  /\ Spent(walk)[i] \in Budget
  /\ Spent(walk)[i].ok => Spent(walk)[i].nodes = i /\ Spent(walk)[i].chars = Total(walk)[i]
  /\ Spent(walk)[i].ok <=>
       /\ i <= MaxNodes
       /\ \A k \in 1..i : FineValue(walk[k])
       /\ Total(walk)[i] <= MaxPayloadChars

\* One more value.
LEMMA BudgetStep ==
  ASSUME NEW walk \in Seq(PayloadValue), NEW i \in 1..Len(walk), BudgetKnows(walk, i - 1)
  PROVE  BudgetKnows(walk, i)
<1> DEFINE b == Spent(walk)[i - 1]
           v == walk[i]
           fine == \A k \in 1..(i - 1) : FineValue(walk[k])
<1>1. i \in Nat /\ i - 1 \in Nat /\ v \in PayloadValue /\ b \in Budget
  BY DEF BudgetKnows
<1>2. /\ Spent(walk)[i] = CheckPayloadValue(b, v)
      /\ Total(walk)[i] = Total(walk)[i - 1] + Chars(v)
  BY SpentUnfolds, TotalUnfolds
<1>3. /\ Total(walk)[i - 1] \in Nat /\ Chars(v) \in Nat
      /\ Total(walk)[i] \in Nat /\ Total(walk)[i - 1] <= Total(walk)[i]
  BY <1>1, <1>2, CharsType DEF BudgetKnows
<1>4. /\ b.ok => b.nodes = i - 1 /\ b.chars = Total(walk)[i - 1]
      /\ b.ok <=> i - 1 <= MaxNodes /\ fine /\ Total(walk)[i - 1] <= MaxPayloadChars
  BY DEF BudgetKnows
<1>5. (\A k \in 1..i : FineValue(walk[k])) <=> fine /\ FineValue(v)
  <2>1. \A k \in 1..i : k = i \/ k \in 1..(i - 1)
    OBVIOUS
  <2>2. 1..(i - 1) \subseteq 1..i /\ i \in 1..i
    OBVIOUS
  <2> QED BY <2>1, <2>2
<1>6. MaxNodes \in Nat /\ MaxPayloadChars \in Nat
  BY VocabularyAssumptions
<1>7. Spent(walk)[i] \in Budget
  BY <1>1, <1>2, CheckIs
<1> HIDE DEF b, v, fine
<1>10. b.ok =>
      /\ Spent(walk)[i].nodes = b.nodes + 1
      /\ Spent(walk)[i].chars = b.chars + Chars(v)
      /\ Spent(walk)[i].ok = Passes(b, v)
  BY <1>1, <1>2, CheckIs
<1>11. /\ v.key \in Nat /\ b.chars \in Nat /\ v.key <= Chars(v)
       /\ v.type # "string" => Chars(v) = v.key
  BY <1>1 DEF Chars, PayloadValue, Budget
<1>8. CASE b.ok
  <2>3. b.nodes + 1 = i /\ b.chars + Chars(v) = Total(walk)[i]
    BY <1>1, <1>2, <1>4, <1>8
  <2>1. /\ Spent(walk)[i].nodes = i
        /\ Spent(walk)[i].chars = Total(walk)[i]
    BY <2>3, <1>8, <1>10
  <2>4. /\ b.chars + v.key <= b.chars + Chars(v)
        /\ v.type # "string" => b.chars + v.key = b.chars + Chars(v)
        /\ b.chars + v.key \in Nat
    BY <2>3, <1>3, <1>11
  <2>5. /\ b.chars + v.key <= MaxPayloadChars
        /\ v.type = "string" => b.chars + Chars(v) <= MaxPayloadChars
        <=> Total(walk)[i] <= MaxPayloadChars
    BY <2>3, <2>4, <1>3, <1>6
  <2>6. Spent(walk)[i].ok <=> i <= MaxNodes /\ FineValue(v) /\ Total(walk)[i] <= MaxPayloadChars
    BY <1>8, <1>10, <2>3, <2>5 DEF FineValue, Passes
  <2> QED BY <2>1, <2>6, <1>3, <1>4, <1>5, <1>7, <1>8 DEF BudgetKnows
<1>9. CASE ~b.ok
  <2>1. Spent(walk)[i] = b
    BY <1>1, <1>2, <1>9, CheckIs
  <2>2. ~(i <= MaxNodes /\ (\A k \in 1..i : FineValue(walk[k])) /\ Total(walk)[i] <= MaxPayloadChars)
    BY <1>1, <1>3, <1>4, <1>5, <1>6, <1>9
  <2> QED BY <2>1, <2>2, <1>3, <1>7, <1>9 DEF BudgetKnows
<1> QED BY <1>8, <1>9

\* isCanonicalPayload() and isCanonicalValue() refuse a payload exactly when the whole
\* of it is out of bounds, wherever in it the excess lies: the budget that is spent
\* while the walk goes on, and the early returns, decide nothing else.
THEOREM PayloadsWithinBounds ==
  ASSUME NEW walk \in Seq(PayloadValue)
  PROVE  IsCanonicalValue(walk) <=> WithinBounds(walk)
<1> DEFINE n == Len(walk)
           T == {i \in 0..n : BudgetKnows(walk, i)}
<1>1. n \in Nat /\ DOMAIN walk = 1..n
  OBVIOUS
<1>2. 0 \in T
  <2>1. /\ Spent(walk)[0] = [nodes |-> 0, chars |-> 0, ok |-> TRUE]
        /\ Total(walk)[0] = 0
    BY SpentUnfolds, TotalUnfolds
  <2>2. /\ Spent(walk)[0].nodes = 0 /\ Spent(walk)[0].chars = 0 /\ Spent(walk)[0].ok = TRUE
        /\ Spent(walk)[0] \in Budget
    BY <2>1 DEF Budget
  <2>3. 0 <= MaxNodes /\ 0 <= MaxPayloadChars /\ 1..0 = {}
    BY VocabularyAssumptions
  <2>4. BudgetKnows(walk, 0)
    BY <2>1, <2>2, <2>3 DEF BudgetKnows
  <2> QED BY <1>1, <2>4
<1>3. \A i \in 1..n : i - 1 \in T => i \in T
  BY BudgetStep
<1>4. n \in T
  <2>1. \A i \in 0..n : i \in T
    <3> HIDE DEF n, T
    <3> QED BY <1>1, <1>2, <1>3, AsFarAs
  <2> QED BY <1>1, <2>1
<1>5. BudgetKnows(walk, n)
  BY <1>4
<1> HIDE DEF T
<1> QED
  BY <1>1, <1>5 DEF BudgetKnows, IsCanonicalValue, WithinBounds, FineValue

\* Whatever a provider claims, what arrives of a failure is one of its own codes,
\* never a broker's, and coercing it again on the way changes nothing more.
THEOREM ProvidersClaimNoMore ==
  ASSUME NEW ok \in BOOLEAN, NEW error
  PROVE  LET told == NormalizeError(ok, error)
         IN  /\ told \in ProvidersCodes <=> ~ok
             /\ told \notin BrokersCodes
             /\ NormalizeError(ok, told) = told
  BY DEF NormalizeError, ProvidersCodes, BrokersCodes, NoError

-----------------------------------------------------------------------------
\* What split() has of a prefix: at least one segment, perhaps an empty one.
Cuttings == {s \in Seq(Seq(Characters)) : s # <<>>}

LEMMA CutType ==
  ASSUME NEW s \in Cuttings, NEW c \in Characters, NEW sep \in Characters
  PROVE  /\ Cut(s, c, sep) \in Cuttings
         /\ c = sep => /\ Len(Cut(s, c, sep)) = Len(s) + 1
                       /\ Cut(s, c, sep)[Len(s) + 1] = <<>>
                       /\ \A j \in 1..Len(s) : Cut(s, c, sep)[j] = s[j]
         /\ c # sep => /\ Len(Cut(s, c, sep)) = Len(s)
                       /\ Cut(s, c, sep)[Len(s)] = Append(s[Len(s)], c)
                       /\ \A j \in 1..(Len(s) - 1) : Cut(s, c, sep)[j] = s[j]
<1>1. s \in Seq(Seq(Characters)) /\ Len(s) \in Nat /\ Len(s) # 0 /\ s[Len(s)] \in Seq(Characters)
  BY DEF Cuttings
<1>2. CASE c = sep
  <2>1. Cut(s, c, sep) = Append(s, <<>>)
    BY <1>2 DEF Cut
  <2>2. <<>> \in Seq(Characters)
    OBVIOUS
  <2>3. Append(s, <<>>) \in Seq(Seq(Characters)) /\ Append(s, <<>>) # <<>>
    BY <1>1, <2>2
  <2> QED BY <1>1, <1>2, <2>1, <2>3 DEF Cuttings
<1>3. CASE c # sep
  <2>1. Cut(s, c, sep) = [s EXCEPT ![Len(s)] = Append(s[Len(s)], c)]
    BY <1>3 DEF Cut
  <2>2. Append(s[Len(s)], c) \in Seq(Characters)
    BY <1>1
  <2>3. /\ [s EXCEPT ![Len(s)] = Append(s[Len(s)], c)] \in Seq(Seq(Characters))
        /\ Len([s EXCEPT ![Len(s)] = Append(s[Len(s)], c)]) = Len(s)
    BY <1>1, <2>2
  <2>4. Cut(s, c, sep) # <<>>
    BY <1>1, <2>1, <2>3
  <2>5. Cut(s, c, sep)[Len(s)] = Append(s[Len(s)], c)
    BY <1>1, <2>1
  <2>6. \A j \in 1..(Len(s) - 1) : Cut(s, c, sep)[j] = s[j]
    BY <1>1, <2>1
  <2> QED BY <1>3, <2>1, <2>3, <2>4, <2>5, <2>6 DEF Cuttings
<1> QED BY <1>2, <1>3

\* split(), character by character.
LEMMA CutUpUnfolds ==
  ASSUME NEW name \in Seq(Characters), NEW sep \in Characters
  PROVE  /\ CutUp(name, sep)[0] = <<<<>>>>
         /\ \A i \in 1..Len(name) :
              CutUp(name, sep)[i] = Cut(CutUp(name, sep)[i - 1], name[i], sep)
<1> DEFINE n == Len(name)
           start == <<<<>>>>
           step == [x \in (1..n) \X Cuttings |-> Cut(x[2], name[x[1]], sep)]
<1>1. n \in Nat
  OBVIOUS
<1>2. start \in Cuttings
  BY DEF Cuttings
<1>3. \A s \in Cuttings, c \in Characters : Cut(s, c, sep) \in Cuttings
  BY CutType
<1>4. step \in [(1..n) \X Cuttings -> Cuttings]
  BY <1>3
<1>5. PICK f \in [0..n -> Cuttings] : Folds(f, n, start, step)
  <2> HIDE DEF n, start, step
  <2> QED BY <1>1, <1>2, <1>4, FoldWithin
<1>6. \A i \in 0..n : i # 0 => step[<<i, f[i - 1]>>] = Cut(f[i - 1], name[i], sep)
  <2> SUFFICES ASSUME NEW i \in 0..n, i # 0
               PROVE  step[<<i, f[i - 1]>>] = Cut(f[i - 1], name[i], sep)
    OBVIOUS
  <2>1. i \in 1..n /\ i - 1 \in 0..n
    BY <1>1
  <2>2. f[i - 1] \in Cuttings
    BY <1>5, <2>1
  <2>3. <<i, f[i - 1]>> \in (1..n) \X Cuttings
    BY <2>1, <2>2
  <2> QED BY <2>3
<1>7. f = [i \in 0..n |-> IF i = 0 THEN start ELSE Cut(f[i - 1], name[i], sep)]
  <2> HIDE DEF n, start, step
  <2>1. \A i \in 0..n : (IF i = 0 THEN start ELSE step[<<i, f[i - 1]>>])
                        = (IF i = 0 THEN start ELSE Cut(f[i - 1], name[i], sep))
    BY <1>6
  <2> QED BY <1>5, <2>1, Zenon DEF Folds
<1>8. CutUp(name, sep) =
        [i \in 0..n |-> IF i = 0 THEN start ELSE Cut(CutUp(name, sep)[i - 1], name[i], sep)]
  BY <1>7 DEF CutUp
<1> HIDE DEF start
<1>9. \A i \in 0..n : CutUp(name, sep)[i] =
        IF i = 0 THEN start ELSE Cut(CutUp(name, sep)[i - 1], name[i], sep)
  BY <1>8, Zenon
<1>10. 0 \in 0..n /\ \A i \in 1..n : i \in 0..n /\ i # 0
  OBVIOUS
<1> QED BY <1>9, <1>10, Zenon DEF start

\* What the grammar asks of the p-th character of a name, but for the last one's.
FineAt(name, p) ==
  /\ name[p] \in {"letter", "digit", "underscore", "dot"}
  /\ (p = 1 \/ name[p - 1] = "dot") => name[p] = "letter"
  /\ name[p] = "underscore" => p < Len(name) /\ name[p + 1] \in {"letter", "digit"}

\* A segment between two separators, or the ends of the name, by the characters of
\* the name it is made of.
LEMMA SegmentInPlace ==
  ASSUME NEW name \in Seq(Characters), NEW seg \in Seq(Characters), NEW o \in Nat,
         o + Len(seg) <= Len(name),
         o = 0 \/ name[o] = "dot",
         \A k \in 1..Len(seg) : seg[k] = name[o + k] /\ seg[k] # "dot",
         o + Len(seg) = Len(name) \/ name[o + Len(seg) + 1] = "dot"
  PROVE  WellFormedSegment(seg) <=>
           seg # <<>> /\ \A p \in (o + 1)..(o + Len(seg)) : FineAt(name, p)
<1> DEFINE m == Len(seg)
           n == Len(name)
<1>1. m \in Nat /\ n \in Nat /\ DOMAIN seg = 1..m /\ (seg = <<>> <=> m = 0)
  OBVIOUS
<1>2. o + m <= n /\ (o + m = n \/ name[o + m + 1] = "dot") /\ (o = 0 \/ name[o] = "dot")
  OBVIOUS
<1>3. \A k \in 1..m : seg[k] = name[o + k] /\ seg[k] # "dot"
  OBVIOUS
<1> HIDE DEF m, n
<1>4. ASSUME WellFormedSegment(seg), NEW p \in (o + 1)..(o + m)
      PROVE  FineAt(name, p)
  <2> DEFINE k == p - o
  <2>1. k \in 1..m /\ o + k = p
    BY <1>1
  <2>2. seg[k] = name[p] /\ seg[k] # "dot"
    BY <1>3, <2>1
  <2>3. /\ seg[1] = "letter"
        /\ seg[k] \in {"letter", "digit", "underscore"}
        /\ seg[k] = "underscore" => k < m /\ seg[k + 1] \in {"letter", "digit"}
    BY <1>1, <1>4, <2>1 DEF WellFormedSegment, m
  <2>4. (p = 1 \/ name[p - 1] = "dot") => k = 1
    <3> SUFFICES ASSUME k # 1, p = 1 \/ name[p - 1] = "dot" PROVE FALSE
      OBVIOUS
    <3>1. k - 1 \in 1..m /\ o + (k - 1) = p - 1 /\ p # 1
      BY <2>1, <1>1
    <3> HIDE DEF k
    <3> QED BY <1>3, <3>1
  <2>5. k < m => k + 1 \in 1..m /\ o + (k + 1) = p + 1
    BY <2>1, <1>1
  <2>6. k < m => seg[k + 1] = name[p + 1] /\ p < n
    BY <1>1, <1>2, <1>3, <2>1, <2>5
  <2> HIDE DEF k
  <2> QED
    BY <2>2, <2>3, <2>4, <2>6 DEF FineAt, n
<1>5. ASSUME seg # <<>>, \A p \in (o + 1)..(o + m) : FineAt(name, p)
      PROVE  WellFormedSegment(seg)
  <2>1. m # 0 /\ 1 \in 1..m /\ o + 1 \in (o + 1)..(o + m)
    BY <1>1, <1>5
  <2>2. seg[1] = "letter"
    <3>1. o + 1 = 1 \/ name[(o + 1) - 1] = "dot"
      BY <1>2
    <3> QED BY <1>3, <1>5, <2>1, <3>1 DEF FineAt
  <2>3. ASSUME NEW k \in 1..m
        PROVE  /\ seg[k] \in {"letter", "digit", "underscore"}
               /\ seg[k] = "underscore" => k < m /\ seg[k + 1] \in {"letter", "digit"}
    <3>1. o + k \in (o + 1)..(o + m) /\ seg[k] = name[o + k] /\ seg[k] # "dot"
      BY <1>1, <1>3
    <3>2. FineAt(name, o + k)
      BY <1>5, <3>1
    <3>3. seg[k] \in {"letter", "digit", "underscore"}
      BY <3>1, <3>2 DEF FineAt
    <3>4. ASSUME seg[k] = "underscore"
          PROVE  k < m /\ seg[k + 1] \in {"letter", "digit"}
      <4>1. o + k < n /\ name[o + k + 1] \in {"letter", "digit"}
        BY <3>1, <3>2, <3>4 DEF FineAt, n
      <4>2. k # m
        BY <1>1, <1>2, <4>1
      <4>3. k + 1 \in 1..m /\ o + (k + 1) = o + k + 1
        BY <4>2, <1>1
      <4> QED BY <1>1, <1>3, <4>1, <4>2, <4>3
    <3> QED BY <3>3, <3>4
  <2> QED
    BY <1>1, <1>5, <2>2, <2>3 DEF WellFormedSegment, m
<1>6. WellFormedSegment(seg) => seg # <<>>
  BY DEF WellFormedSegment
<1> QED
  BY <1>4, <1>5, <1>6 DEF m

Dots(name, i) == {p \in 1..i : name[p] = "dot"}

LEMMA DotsCount ==
  ASSUME NEW name, NEW i \in Nat \ {0}
  PROVE  /\ IsFiniteSet(Dots(name, i)) /\ Cardinality(Dots(name, i)) \in Nat
         /\ Cardinality(Dots(name, 0)) = 0
         /\ name[i] = "dot" => Cardinality(Dots(name, i)) = Cardinality(Dots(name, i - 1)) + 1
         /\ name[i] # "dot" => Dots(name, i) = Dots(name, i - 1)
<1>1. \A j \in Nat : IsFiniteSet(Dots(name, j)) /\ Cardinality(Dots(name, j)) \in Nat
  <2> SUFFICES ASSUME NEW j \in Nat
               PROVE  IsFiniteSet(Dots(name, j)) /\ Cardinality(Dots(name, j)) \in Nat
    OBVIOUS
  <2>1. IsFiniteSet(1..j)
    BY FS_Interval
  <2>2. Dots(name, j) \subseteq 1..j
    BY DEF Dots
  <2>3. IsFiniteSet(Dots(name, j))
    BY <2>1, <2>2, FS_Subset
  <2> QED BY <2>3, FS_CardinalityType
<1>2. Dots(name, 0) = {}
  BY DEF Dots
<1>3. Cardinality(Dots(name, 0)) = 0
  BY <1>2, FS_EmptySet
<1>4. ASSUME name[i] = "dot"
      PROVE  Cardinality(Dots(name, i)) = Cardinality(Dots(name, i - 1)) + 1
  <2>1. Dots(name, i) = Dots(name, i - 1) \cup {i} /\ i \notin Dots(name, i - 1)
    BY <1>4 DEF Dots
  <2>2. i - 1 \in Nat
    OBVIOUS
  <2> QED BY <1>1, <2>1, <2>2, FS_AddElement
<1>5. name[i] # "dot" => Dots(name, i) = Dots(name, i - 1)
  BY DEF Dots
<1> QED BY <1>1, <1>3, <1>4, <1>5

\* What a prefix of i characters was cut into, s, says of it: how many separators it
\* has, that the last segment is what follows the last of them, and that the others
\* are segments of the grammar exactly if all characters before are fine.
CutKnows(name, i, s) ==
  LET last == s[Len(s)]
      o    == i - Len(last)
  IN  /\ s \in Cuttings
      /\ Len(s) = Cardinality(Dots(name, i)) + 1
      /\ o \in Nat
      /\ o = 0 \/ name[o] = "dot"
      /\ \A k \in 1..Len(last) : last[k] = name[o + k] /\ last[k] # "dot"
      /\ (\A j \in 1..(Len(s) - 1) : WellFormedSegment(s[j])) <=> \A p \in 1..o : FineAt(name, p)

\* One more character of a segment.
LEMMA CutGrows ==
  ASSUME NEW name \in Seq(Characters), NEW i \in 1..Len(name), NEW s,
         CutKnows(name, i - 1, s), name[i] # "dot"
  PROVE  CutKnows(name, i, Cut(s, name[i], "dot"))
<1> DEFINE t == Cut(s, name[i], "dot")
           last == s[Len(s)]
           m == Len(last)
           o == (i - 1) - m
           now == t[Len(t)]
<1>1. s \in Cuttings /\ name[i] \in Characters /\ "dot" \in Characters
  BY DEF CutKnows, Characters
<1>2. /\ Len(s) \in Nat /\ Len(s) # 0 /\ last \in Seq(Characters) /\ m \in Nat
      /\ i \in Nat /\ i - 1 \in Nat /\ i # 0
  BY <1>1 DEF Cuttings
<1>3. /\ t \in Cuttings /\ Len(t) = Len(s) /\ now = Append(last, name[i])
      /\ \A j \in 1..(Len(s) - 1) : t[j] = s[j]
  <2>1. /\ t \in Cuttings /\ Len(t) = Len(s) /\ t[Len(s)] = Append(last, name[i])
        /\ \A j \in 1..(Len(s) - 1) : t[j] = s[j]
    BY <1>1, CutType, name[i] # "dot"
  <2> HIDE DEF t, last
  <2> QED BY <2>1
<1>4. /\ Len(s) = Cardinality(Dots(name, i - 1)) + 1
      /\ o \in Nat
      /\ o = 0 \/ name[o] = "dot"
      /\ \A k \in 1..m : last[k] = name[o + k] /\ last[k] # "dot"
      /\ (\A j \in 1..(Len(s) - 1) : WellFormedSegment(s[j])) <=> \A p \in 1..o : FineAt(name, p)
  BY DEF CutKnows
<1>5. Cardinality(Dots(name, i)) = Cardinality(Dots(name, i - 1))
  BY <1>2, DotsCount
<1>6. /\ Len(now) = m + 1 /\ i - Len(now) = o
      /\ now[m + 1] = name[i] /\ o + (m + 1) = i
      /\ \A k \in 1..m : now[k] = last[k]
  <2> HIDE DEF now, last
  <2> QED BY <1>1, <1>2, <1>3
<1>7. ASSUME NEW k \in 1..(m + 1)
      PROVE  now[k] = name[o + k] /\ now[k] # "dot"
  <2>1. k = m + 1 \/ k \in 1..m
    BY <1>2
  <2> HIDE DEF now, o, last, m
  <2> QED BY <1>4, <1>6, <2>1
<1>8. (\A j \in 1..(Len(t) - 1) : WellFormedSegment(t[j])) <=> \A p \in 1..o : FineAt(name, p)
  <2> HIDE DEF t, o, last, now
  <2> QED BY <1>3, <1>4
<1> HIDE DEF t, o, m, last
<1>9. Len(t) = Cardinality(Dots(name, i)) + 1
  BY <1>3, <1>4, <1>5
<1> QED
  BY <1>3, <1>4, <1>6, <1>7, <1>8, <1>9 DEF CutKnows, t

\* A separator, which ends the last segment.
LEMMA CutEnds ==
  ASSUME NEW name \in Seq(Characters), NEW i \in 1..Len(name), NEW s,
         CutKnows(name, i - 1, s), name[i] = "dot"
  PROVE  CutKnows(name, i, Cut(s, name[i], "dot"))
<1> DEFINE t == Cut(s, name[i], "dot")
           last == s[Len(s)]
           m == Len(last)
           o == (i - 1) - m
           now == t[Len(t)]
<1>1. s \in Cuttings /\ name[i] \in Characters /\ "dot" \in Characters
  BY DEF CutKnows, Characters
<1>2. /\ Len(s) \in Nat /\ Len(s) # 0 /\ last \in Seq(Characters) /\ m \in Nat
      /\ i \in Nat /\ i - 1 \in Nat /\ i # 0 /\ i <= Len(name) /\ Len(name) \in Nat
  BY <1>1 DEF Cuttings
<1>3. /\ t \in Cuttings /\ Len(t) = Len(s) + 1 /\ now = <<>>
      /\ \A j \in 1..Len(s) : t[j] = s[j]
  <2>1. /\ t \in Cuttings /\ Len(t) = Len(s) + 1 /\ t[Len(s) + 1] = <<>>
        /\ \A j \in 1..Len(s) : t[j] = s[j]
    BY <1>1, CutType, name[i] = "dot"
  <2> HIDE DEF t
  <2> QED BY <2>1
<1>4. /\ Len(s) = Cardinality(Dots(name, i - 1)) + 1
      /\ o \in Nat
      /\ o = 0 \/ name[o] = "dot"
      /\ \A k \in 1..m : last[k] = name[o + k] /\ last[k] # "dot"
      /\ (\A j \in 1..(Len(s) - 1) : WellFormedSegment(s[j])) <=> \A p \in 1..o : FineAt(name, p)
  BY DEF CutKnows
<1>5. Cardinality(Dots(name, i)) = Cardinality(Dots(name, i - 1)) + 1
  BY <1>2, DotsCount
<1>6. o + m = i - 1 /\ (last = <<>> <=> m = 0)
  BY <1>2
<1> HIDE DEF o, m, last, t, now
<1>7. WellFormedSegment(last) <=> last # <<>> /\ \A p \in (o + 1)..(o + m) : FineAt(name, p)
  <2>1. o + m <= Len(name) /\ o + m + 1 = i
    BY <1>2, <1>4, <1>6
  <2> QED BY <1>2, <1>4, <2>1, SegmentInPlace DEF m
<1>8. FineAt(name, i) <=> m # 0
  <2>1. CASE m = 0
    <3>1. i = o + 1
      BY <1>2, <1>4, <1>6, <2>1
    <3>2. i = 1 \/ name[i - 1] = "dot"
      BY <1>4, <3>1
    <3> QED BY <2>1, <3>2 DEF FineAt
  <2>2. CASE m # 0
    <3>1. m \in 1..m /\ i # 1 /\ o + m = i - 1
      BY <1>2, <1>4, <1>6, <2>2
    <3>2. name[i - 1] # "dot"
      BY <1>4, <3>1
    <3> QED BY <2>2, <3>1, <3>2 DEF FineAt
  <2> QED BY <2>1, <2>2
<1>9. (\A p \in 1..i : FineAt(name, p)) <=>
        /\ \A p \in 1..o : FineAt(name, p)
        /\ \A p \in (o + 1)..(o + m) : FineAt(name, p)
        /\ FineAt(name, i)
  <2>1. \A p \in 1..i : p \in 1..o \/ p \in (o + 1)..(o + m) \/ p = i
    BY <1>2, <1>4, <1>6
  <2>2. 1..o \subseteq 1..i /\ (o + 1)..(o + m) \subseteq 1..i /\ i \in 1..i
    BY <1>2, <1>4, <1>6
  <2> QED BY <2>1, <2>2
<1>10. (\A j \in 1..(Len(t) - 1) : WellFormedSegment(t[j])) <=>
         (\A j \in 1..(Len(s) - 1) : WellFormedSegment(s[j])) /\ WellFormedSegment(last)
  <2>1. Len(t) - 1 = Len(s)
    BY <1>2, <1>3
  <2>2. (\A j \in 1..Len(s) : WellFormedSegment(t[j])) <=> \A j \in 1..Len(s) : WellFormedSegment(s[j])
    BY <1>3
  <2>3. \A j \in 1..Len(s) : j \in 1..(Len(s) - 1) \/ j = Len(s)
    BY <1>2
  <2>4. 1..(Len(s) - 1) \subseteq 1..Len(s) /\ Len(s) \in 1..Len(s)
    BY <1>2
  <2> QED BY <2>1, <2>2, <2>3, <2>4 DEF last
<1>11. Len(t) = Cardinality(Dots(name, i)) + 1
  BY <1>3, <1>4, <1>5
<1>12. (\A j \in 1..(Len(t) - 1) : WellFormedSegment(t[j])) <=> \A p \in 1..i : FineAt(name, p)
  BY <1>4, <1>6, <1>7, <1>8, <1>9, <1>10
<1>13. Len(now) = 0 /\ i - 0 = i /\ 1..0 = {}
  BY <1>2, <1>3
<1> QED
  BY <1>2, <1>3, <1>11, <1>12, <1>13 DEF CutKnows, t, now

\* What the whole name was cut into.
LEMMA SplitKnows ==
  ASSUME NEW name \in Seq(Characters)
  PROVE  CutKnows(name, Len(name), Split(name, "dot"))
<1> DEFINE n == Len(name)
           cut == CutUp(name, "dot")
           T == {i \in 0..n : CutKnows(name, i, cut[i])}
<1>1. n \in Nat /\ 0 \in 0..n /\ n \in 0..n /\ "dot" \in Characters
  BY DEF Characters
<1>2. /\ cut[0] = <<<<>>>>
      /\ \A i \in 1..n : cut[i] = Cut(cut[i - 1], name[i], "dot")
  BY <1>1, CutUpUnfolds
<1> HIDE DEF cut
<1>3. 0 \in T
  <2> DEFINE s == <<<<>>>>
  <2>1. s \in Cuttings /\ Len(s) = 1 /\ s[1] = <<>> /\ Len(<<>>) = 0 /\ 1..0 = {}
    BY DEF Cuttings
  <2>2. Cardinality(Dots(name, 0)) = 0
    BY DotsCount, 1 \in Nat \ {0}
  <2> HIDE DEF s
  <2>3. s[Len(s)] = <<>> /\ 0 - Len(s[Len(s)]) = 0 /\ Len(s) - 1 = 0
    <3>1. s[Len(s)] = <<>>
      BY <2>1
    <3>2. Len(s[Len(s)]) = 0
      BY <2>1, <3>1
    <3>3. 0 - Len(s[Len(s)]) = 0
      BY <3>2
    <3>4. Len(s) - 1 = 0
      BY <2>1
    <3> QED BY <3>1, <3>3, <3>4, Zenon
  <2>4. (\A j \in 1..(Len(s) - 1) : WellFormedSegment(s[j])) /\ \A p \in 1..0 : FineAt(name, p)
    BY <2>1, <2>3
  <2>5. \A k \in 1..Len(s[Len(s)]) : s[Len(s)][k] = name[0 + k] /\ s[Len(s)][k] # "dot"
    BY <2>1, <2>3
  <2>6. Len(s) = Cardinality(Dots(name, 0)) + 1
    BY <2>1, <2>2
  <2>7. CutKnows(name, 0, s)
    BY <2>1, <2>3, <2>4, <2>5, <2>6 DEF CutKnows
  <2> QED BY <1>1, <1>2, <2>7 DEF s
<1>4. \A i \in 1..n : i - 1 \in T => i \in T
  <2> SUFFICES ASSUME NEW i \in 1..n, CutKnows(name, i - 1, cut[i - 1])
               PROVE  CutKnows(name, i, cut[i])
    BY <1>1
  <2> QED BY <1>2, CutGrows, CutEnds
<1>5. n \in T
  <2>1. \A i \in 0..n : i \in T
    <3> HIDE DEF n, T
    <3> QED BY <1>1, <1>3, <1>4, AsFarAs
  <2> QED BY <1>1, <2>1
<1> QED
  BY <1>5 DEF Split, cut

\* isValidName() accepts the names of the grammar and of a legal length, and no others.
THEOREM NamesFollowTheGrammar ==
  ASSUME NEW name \in Seq(Characters)
  PROVE  IsValidName(name) <=> WellFormed(name)
<1> DEFINE n == Len(name)
           s == Split(name, "dot")
           last == s[Len(s)]
           m == Len(last)
           o == n - m
<1>1. /\ s \in Cuttings
      /\ Len(s) = Cardinality(Dots(name, n)) + 1
      /\ o \in Nat
      /\ o = 0 \/ name[o] = "dot"
      /\ \A k \in 1..m : last[k] = name[o + k] /\ last[k] # "dot"
      /\ (\A j \in 1..(Len(s) - 1) : WellFormedSegment(s[j])) <=> \A p \in 1..o : FineAt(name, p)
  BY SplitKnows DEF CutKnows
<1>2. /\ n \in Nat /\ DOMAIN name = 1..n /\ Separators(name) = Dots(name, n)
  BY DEF Separators, Dots
<1>3. /\ s \in Seq(Seq(Characters)) /\ Len(s) \in Nat /\ Len(s) # 0 /\ DOMAIN s = 1..Len(s)
      /\ last \in Seq(Characters) /\ m \in Nat
  BY <1>1 DEF Cuttings
<1>4. o + m = n /\ (last = <<>> <=> m = 0)
  BY <1>2, <1>3
<1> HIDE DEF n, s, last, m, o
<1>5. WellFormedSegment(last) <=> last # <<>> /\ \A p \in (o + 1)..(o + m) : FineAt(name, p)
  <2>1. name \in Seq(Characters) /\ o + Len(last) = Len(name) /\ o + Len(last) <= Len(name)
    BY <1>2, <1>4 DEF m, n
  <2>2. \A k \in 1..Len(last) : last[k] = name[o + k] /\ last[k] # "dot"
    BY <1>1 DEF m
  <2> QED BY <1>1, <1>3, <2>1, <2>2, SegmentInPlace DEF m
<1>6. Len(s) \in 2..4 <=> Cardinality(Separators(name)) \in 1..3
  <2>1. Cardinality(Separators(name)) = Len(s) - 1
    <3>1. CASE n = 0
      BY <1>1, <1>2, <3>1, DotsCount, 1 \in Nat \ {0}
    <3>2. CASE n # 0
      BY <1>1, <1>2, <3>2, DotsCount
    <3> QED BY <3>1, <3>2
  <2> QED BY <1>3, <2>1
<1>7. (\A j \in DOMAIN s : IsValidSegment(s[j])) <=>
        (\A j \in 1..(Len(s) - 1) : WellFormedSegment(s[j])) /\ WellFormedSegment(last)
  <2>1. \A j \in 1..Len(s) : IsValidSegment(s[j]) <=> WellFormedSegment(s[j])
    BY <1>3, SegmentsFollowTheGrammar
  <2>4. Len(s) \in Nat /\ Len(s) # 0
    BY <1>3
  <2>2. \A j \in 1..Len(s) : j \in 1..(Len(s) - 1) \/ j = Len(s)
    BY <2>4
  <2>3. 1..(Len(s) - 1) \subseteq 1..Len(s) /\ Len(s) \in 1..Len(s)
    BY <2>4
  <2> QED BY <1>3, <2>1, <2>2, <2>3 DEF last
<1>8. (\A p \in 1..n : FineAt(name, p)) <=>
        (\A p \in 1..o : FineAt(name, p)) /\ \A p \in (o + 1)..(o + m) : FineAt(name, p)
  <2>1. \A p \in 1..n : p \in 1..o \/ p \in (o + 1)..(o + m)
    BY <1>1, <1>2, <1>3, <1>4
  <2>2. 1..o \subseteq 1..n /\ (o + 1)..(o + m) \subseteq 1..n
    BY <1>1, <1>2, <1>3, <1>4
  <2> QED BY <2>1, <2>2
<1>9. n # 0 => (m = 0 <=> name[n] = "dot")
  <2>1. m = 0 /\ n # 0 => name[n] = "dot"
    BY <1>1, <1>2, <1>4
  <2>2. m # 0 => m \in 1..m
    BY <1>3
  <2>3. m # 0 => name[n] # "dot"
    BY <1>1, <1>4, <2>2
  <2> QED BY <2>1, <2>3
<1>10. (\A j \in DOMAIN s : IsValidSegment(s[j])) <=> m # 0 /\ \A p \in 1..n : FineAt(name, p)
  BY <1>1, <1>4, <1>5, <1>7, <1>8
<1>11. ASSUME Len(s) \in 2..4
       PROVE  n # 0
  <2>1. n = 0 => Cardinality(Dots(name, n)) = 0
    BY DotsCount, 1 \in Nat \ {0}
  <2> QED BY <1>1, <1>11, <2>1
<1>12. ASSUME n # 0
       PROVE  m # 0 <=> \A p \in 1..n : name[p] = "dot" => p < n
  <2>1. n \in 1..n /\ ~(n < n) /\ \A p \in 1..n : p < n \/ p = n
    BY <1>2, <1>12
  <2> QED BY <1>9, <1>12, <2>1
<1>13. (\A p \in DOMAIN name :
           /\ name[p] \in {"letter", "digit", "underscore", "dot"}
           /\ (p = 1 \/ name[p - 1] = "dot") => name[p] = "letter"
           /\ name[p] = "underscore" => p < Len(name) /\ name[p + 1] \in {"letter", "digit"}
           /\ name[p] = "dot" => p < Len(name))
         <=> (\A p \in 1..n : FineAt(name, p)) /\ \A p \in 1..n : name[p] = "dot" => p < n
  BY <1>2 DEF FineAt, n
<1>14. IsValidName(name) <=>
         /\ n \in MinName..MaxName /\ Len(s) \in 2..4
         /\ \A j \in DOMAIN s : IsValidSegment(s[j])
  BY DEF IsValidName, n, s
<1>15. WellFormed(name) <=>
         /\ n \in MinName..MaxName /\ Len(s) \in 2..4
         /\ \A p \in 1..n : FineAt(name, p)
         /\ \A p \in 1..n : name[p] = "dot" => p < n
  BY <1>6, <1>13, Zenon DEF WellFormed, n
<1> QED
  BY <1>10, <1>11, <1>12, <1>14, <1>15
=============================================================================
