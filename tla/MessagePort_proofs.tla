-------------------------- MODULE MessagePort_proofs --------------------------
(***************************************************************************)
(* Proofs about MessagePort and PortDevice, for any number of messages,    *)
(* any sizes of theirs and any set of devices.                             *)
(***************************************************************************)
EXTENDS PortDevice, SequenceTheorems, WellFoundedInduction, TLAPS

\* A port has emitted closed() when it is closed, and only then.
SaidWhenClosed == \A p \in Ports : signals[p] = (IF open[p] THEN 0 ELSE 1)

PortInv == TypeOK /\ SaidWhenClosed

-----------------------------------------------------------------------------
LEMMA PeerIsPort == \A p \in Ports : Peer(p) \in Ports
BY DEF Ports, Peer

\* What is queued is an event.
LEMMA Events ==
  ASSUME TypeOK, NEW p \in Ports
  PROVE  Backlog(p) \in Event /\ Goodbye(p) \in Event
BY PeerIsPort DEF TypeOK, Backlog, Goodbye, Event

\* close(), of an open port, with the loop it leaves.
LEMMA ClosePortEffect ==
  ASSUME PortInv, NEW p \in Ports, NEW who \in {"itself", "peer"}, NEW rest \in Seq(Event),
         MayClose(p), ClosePort(p, who, rest)
  PROVE  /\ open' \in [Ports -> BOOLEAN] /\ signals' \in [Ports -> Nat]
         /\ closedBy' \in [Ports -> {"nobody", "itself", "peer"}]
         /\ loop' \in Seq(Event)
         /\ SaidWhenClosed'
         /\ signals[p] = 0 /\ \A q \in Ports : q # p => signals'[q] = signals[q]
<1>1. open[p] /\ signals[p] = 0
  BY DEF MayClose, PortInv, SaidWhenClosed
<1>2. Goodbye(p) \in Event
  BY Events DEF PortInv
<1>3. /\ open' = [open EXCEPT ![p] = FALSE] /\ signals' = [signals EXCEPT ![p] = @ + 1]
      /\ closedBy' = [closedBy EXCEPT ![p] = who] /\ loop' = Append(rest, Goodbye(p))
  BY DEF ClosePort
<1>4. /\ open' \in [Ports -> BOOLEAN] /\ signals' \in [Ports -> Nat]
      /\ closedBy' \in [Ports -> {"nobody", "itself", "peer"}]
  BY <1>3 DEF PortInv, TypeOK
<1>5. loop' \in Seq(Event)
  BY <1>2, <1>3
<1>6. \A q \in Ports : q # p => signals'[q] = signals[q] /\ open'[q] = open[q]
  BY <1>3 DEF PortInv, TypeOK
<1>7. signals'[p] = 1 /\ ~open'[p]
  BY <1>1, <1>3 DEF PortInv, TypeOK
<1>8. SaidWhenClosed'
  <2> SUFFICES ASSUME NEW q \in Ports PROVE signals'[q] = (IF open'[q] THEN 0 ELSE 1)
    BY DEF SaidWhenClosed
  <2>1. CASE q = p
    BY <1>7, <2>1
  <2>2. CASE q # p
    BY <1>6, <2>2 DEF PortInv, SaidWhenClosed
  <2> QED BY <2>1, <2>2
<1> QED BY <1>1, <1>4, <1>5, <1>6, <1>8

\* deliver() keeps, emits or drops messages.
LEMMA DeliverTypes ==
  ASSUME TypeOK, NEW p \in Ports, NEW ms \in Seq(Messages), Deliver(p, ms)
  PROVE  /\ received' \in [Ports -> Seq(Messages)] /\ queued' \in [Ports -> Seq(Messages)]
         /\ \A q \in Ports : received'[q] # received[q] => q = p /\ open[p]
<1>1. received[p] \o ms \in Seq(Messages) /\ Keep(p, ms) \in Seq(Messages)
  BY DEF TypeOK, Keep
<1>2. received' \in [Ports -> Seq(Messages)] /\ queued' \in [Ports -> Seq(Messages)]
  BY <1>1 DEF Deliver, TypeOK
<1>3. \A q \in Ports : received'[q] # received[q] => q = p /\ open[p]
  BY DEF Deliver, Hears, TypeOK
<1> QED BY <1>2, <1>3

-----------------------------------------------------------------------------
\* The loop's first lambda, and what remains.
LEMMA LoopTypes ==
  ASSUME TypeOK, loop # <<>>
  PROVE  Head(loop) \in Event /\ Tail(loop) \in Seq(Event)
BY DEF TypeOK

LEMMA PortStepInv == PortInv /\ [Next]_vars => PortInv'
<1> SUFFICES ASSUME PortInv, [Next]_vars PROVE PortInv'
  OBVIOUS
<1> USE DEF PortInv
<1>1. ASSUME NEW p \in Ports, Post(p) PROVE PortInv'
  <2>1. sent[p] \in Nat /\ sent[p] < MaxPosts /\ MaxPosts \in Nat
    BY <1>1, PortAssumptions DEF Post, TypeOK
  <2>2. sent[p] + 1 \in Messages /\ sent[p] + 1 \in 0..MaxPosts
    BY <2>1 DEF Messages
  <2>3. [kind |-> "deliver", owner |-> p, to |-> Peer(p), messages |-> <<sent[p] + 1>>] \in Event
    BY <2>2, PeerIsPort DEF Event
  <2>4. loop' \in Seq(Event) /\ sent' \in [Ports -> 0..MaxPosts]
    BY <1>1, <2>2, <2>3 DEF Post, NextMessage, TypeOK
  <2> QED BY <1>1, <2>4 DEF Post, TypeOK, SaidWhenClosed
<1>2. ASSUME NEW p \in Ports, Start(p) PROVE PortInv'
  <2>1. loop' \in Seq(Event)
    BY <1>2, Events DEF Start, TypeOK
  <2>2. /\ started' \in [Ports -> BOOLEAN] /\ queued' \in [Ports -> Seq(Messages)]
        /\ overtaken' \subseteq Ports
    BY <1>2 DEF Start, TypeOK
  <2> QED BY <1>2, <2>1, <2>2 DEF Start, TypeOK, SaidWhenClosed
<1>3. ASSUME NEW p \in Ports, Close(p) PROVE PortInv'
  <2>1. loop \in Seq(Event)
    BY DEF TypeOK
  <2> QED BY <1>3, <2>1, ClosePortEffect DEF Close, TypeOK
<1>4. ASSUME NEW p \in Ports, Delete(p) PROVE PortInv'
  BY <1>4 DEF Delete, TypeOK, SaidWhenClosed
<1>5. CASE RunEvent
  <2> DEFINE e == Head(loop)
  <2>0. /\ loop # <<>> /\ e \in Event /\ Tail(loop) \in Seq(Event)
        /\ UNCHANGED <<exists, started, sent, overtaken>>
    BY <1>5, LoopTypes DEF RunEvent
  <2>1. e.to \in Ports /\ e.messages \in Seq(Messages)
    BY <2>0 DEF Event
  <2>2. \/ /\ Deliver(e.to, e.messages) /\ loop' = Tail(loop)
           /\ UNCHANGED <<emitting, open, signals, closedBy>>
        \/ /\ emitting' = [port |-> e.to, messages |-> e.messages] /\ loop' = Tail(loop)
           /\ UNCHANGED <<received, queued, open, signals, closedBy>>
        \/ /\ MayClose(e.to) /\ ClosePort(e.to, "peer", Tail(loop))
           /\ UNCHANGED <<emitting, queued, received>>
        \/ /\ loop' = Tail(loop)
           /\ UNCHANGED <<emitting, queued, received, open, signals, closedBy>>
    BY <1>5 DEF RunEvent
  <2>3. CASE /\ Deliver(e.to, e.messages) /\ loop' = Tail(loop)
             /\ UNCHANGED <<emitting, open, signals, closedBy>>
    BY <2>0, <2>1, <2>3, DeliverTypes DEF TypeOK, SaidWhenClosed
  <2>4. CASE /\ emitting' = [port |-> e.to, messages |-> e.messages] /\ loop' = Tail(loop)
             /\ UNCHANGED <<received, queued, open, signals, closedBy>>
    BY <2>0, <2>1, <2>4 DEF TypeOK, SaidWhenClosed
  <2>5. CASE /\ MayClose(e.to) /\ ClosePort(e.to, "peer", Tail(loop))
             /\ UNCHANGED <<emitting, queued, received>>
    BY <2>0, <2>1, <2>5, ClosePortEffect DEF TypeOK
  <2>6. CASE /\ loop' = Tail(loop)
             /\ UNCHANGED <<emitting, queued, received, open, signals, closedBy>>
    BY <2>0, <2>6 DEF TypeOK, SaidWhenClosed
  <2> QED BY <2>2, <2>3, <2>4, <2>5, <2>6
<1>6. CASE EmitNext
  <2>1. /\ emitting.messages \in Seq(Messages) /\ emitting.messages # <<>>
        /\ emitting.port \in Ports
    BY <1>6 DEF EmitNext, AtLoop, TypeOK
  <2>2. Head(emitting.messages) \in Messages /\ Tail(emitting.messages) \in Seq(Messages)
    BY <2>1
  <2>3. received' \in [Ports -> Seq(Messages)]
    BY <1>6, <2>1, <2>2 DEF EmitNext, TypeOK
  <2>4. emitting' \in [port : Ports, messages : Seq(Messages)]
    BY <1>6, <2>1, <2>2 DEF EmitNext, TypeOK
  <2> QED BY <1>6, <2>3, <2>4 DEF EmitNext, TypeOK, SaidWhenClosed
<1>7. CASE UNCHANGED vars
  BY <1>7 DEF vars, TypeOK, SaidWhenClosed
<1> QED BY <1>1, <1>2, <1>3, <1>4, <1>5, <1>6, <1>7 DEF Next

\* Whatever devices do over their ports, the ports behave like ports.
LEMMA PortsUnderDevices == DeviceSpec => Spec
<1>1. DeviceInit => Init
  BY DEF DeviceInit
<1>2. [DeviceNext]_allVars => [Next]_vars
  <2>1. PortStep => Next
    BY DEF PortStep, Next
  <2>2. ASSUME NEW p \in Devices, Attach(p) PROVE Next
    BY <2>2, DeviceAssumptions DEF Attach, Next
  <2>3. ASSUME NEW p \in Devices, CloseDevice(p) PROVE UNCHANGED vars
    BY <2>3 DEF CloseDevice
  <2>4. ASSUME NEW p \in Devices, NEW n \in 1..2, Read(p, n) PROVE UNCHANGED vars
    BY <2>4 DEF Read
  <2> QED BY <2>1, <2>2, <2>3, <2>4 DEF DeviceNext, allVars
<1> QED BY <1>1, <1>2, PTL DEF DeviceSpec, Spec

\* createPair(): two open ports and an empty loop.
LEMMA InitPorts == Init => PortInv
<1>1. 0 \in 0..MaxPosts /\ <<>> \in Seq(Messages) /\ <<>> \in Seq(Event)
  BY PortAssumptions
<1> QED BY <1>1 DEF Init, PortInv, TypeOK, SaidWhenClosed, Ports

\* The inductive invariant of the pair: a port has emitted closed() exactly if it
\* is closed, and then once.
THEOREM PortsSound == DeviceSpec => []PortInv
<1>1. Spec => []PortInv
  BY InitPorts, PortStepInv, PTL DEF Spec
<1> QED BY <1>1, PortsUnderDevices, PTL

\* Ports, loop and history are well typed.
THEOREM PortTypes == DeviceSpec => []TypeOK
<1>1. PortInv => TypeOK
  BY DEF PortInv
<1> QED BY <1>1, PortsSound, PTL

\* A port that emitted closed() emits no second one, and no message but the rest
\* of a backlog it was in the middle of.
THEOREM ClosedIsLast == DeviceSpec => NothingAfterClosed
<1>1. ASSUME PortInv, [Next]_vars, NEW p \in Ports, signals[p] # 0
      PROVE  /\ signals'[p] = signals[p]
             /\ received'[p] # received[p] => BeingEmitted(p) # {}
  <2>0. ~open[p]
    BY <1>1 DEF PortInv, SaidWhenClosed
  <2> USE DEF PortInv
  <2>1. ASSUME NEW q \in Ports, Close(q)
        PROVE  signals'[p] = signals[p] /\ received' = received
    <3>1. q # p
      BY <2>0, <2>1 DEF Close, MayClose
    <3>2. signals'[p] = signals[p]
      BY <1>1, <2>1, <3>1 DEF Close, ClosePort, TypeOK
    <3> QED BY <2>1, <3>2 DEF Close
  <2>2. CASE RunEvent
    <3>1. CASE signals' = signals /\ received' = received
      BY <3>1
    <3>2. CASE /\ Deliver(Head(loop).to, Head(loop).messages)
               /\ UNCHANGED <<emitting, open, signals, closedBy>>
      BY <2>0, <3>2 DEF Deliver, Hears, TypeOK
    <3>3. CASE /\ MayClose(Head(loop).to) /\ ClosePort(Head(loop).to, "peer", Tail(loop))
               /\ UNCHANGED <<emitting, queued, received>>
      BY <1>1, <2>0, <3>3 DEF MayClose, ClosePort, TypeOK
    <3> QED BY <2>2, <3>1, <3>2, <3>3 DEF RunEvent
  <2>3. CASE EmitNext
    <3>1. signals' = signals /\ emitting.messages \in Seq(Messages) /\ emitting.messages # <<>>
      BY <1>1, <2>3 DEF EmitNext, AtLoop, TypeOK
    <3>2. received'[p] # received[p] => p = emitting.port
      BY <1>1, <2>3 DEF EmitNext, TypeOK
    <3>3. emitting.messages[1] \in Elements(emitting.messages)
      BY <3>1 DEF Elements
    <3> QED BY <3>1, <3>2, <3>3 DEF BeingEmitted
  <2>4. ASSUME \/ \E q \in Ports : Post(q) \/ Start(q) \/ Delete(q)
               \/ UNCHANGED vars
        PROVE  signals' = signals /\ received' = received
    BY <2>4 DEF Post, Start, Delete, vars
  <2> QED BY <1>1, <2>1, <2>2, <2>3, <2>4 DEF Next
<1>2. PortInv /\ [Next]_vars =>
        [\A p \in Ports :
           signals[p] # 0 =>
             /\ signals'[p] = signals[p]
             /\ received'[p] # received[p] => BeingEmitted(p) # {}]_vars
  BY <1>1
<1> QED BY <1>2, PortsSound, PortsUnderDevices, PTL DEF Spec, NothingAfterClosed

-----------------------------------------------------------------------------
(***************************************************************************)
(* Order and completeness.                                                 *)
(***************************************************************************)

\* What a queued lambda carries.  A delivery is one message of the peer's, a
\* backlog is all that a port kept before it was started, and a port that said
\* goodbye is closed.
Sane(e) ==
  /\ e.kind = "deliver" =>
       e.owner = Peer(e.to) /\ Len(e.messages) = 1 /\ e.messages[1] <= sent[e.owner]
  /\ e.kind = "backlog" =>
       e.owner = e.to /\ started[e.to] /\ \A k \in 1..Len(e.messages) : e.messages[k] = k
  /\ e.kind = "close" => e.owner = Peer(e.to) /\ ~open[e.owner]

\* A lambda e queued before a lambda f for the same port: messages keep their
\* order, there is one backlog at most, and nothing is posted after a goodbye.
Apart(e, f) ==
  e.to = f.to =>
    /\ e.kind = "deliver" /\ f.kind = "deliver" => e.messages[1] < f.messages[1]
    /\ ~(e.kind = "backlog" /\ f.kind = "backlog")
    /\ ~(e.kind = "close" /\ f.kind = "deliver")

LoopSound ==
  /\ \A i \in 1..Len(loop) : Sane(loop[i])
  /\ \A i, j \in 1..Len(loop) : i < j => Apart(loop[i], loop[j])

Comes(i, p) == loop[i].kind = "deliver" /\ loop[i].to = p
Backs(i, p) == loop[i].kind = "backlog" /\ loop[i].to = p
Emitted(p)  == IF emitting.port = p THEN emitting.messages ELSE <<>>

\* Before start() everything is in `queued`; afterwards it is in the backlog's
\* lambda or, once that runs, on its way out, and the numbers have no gaps.
KeptSound(p) ==
  /\ \A k \in 1..Len(queued[p]) : queued[p][k] = k
  /\ \A k \in 1..Len(Emitted(p)) : Emitted(p)[k] = Emitted(p)[1] + k - 1
  /\ started[p] => queued[p] = <<>>
  /\ ~started[p] => /\ received[p] = <<>> /\ Emitted(p) = <<>>
                    /\ \A i \in 1..Len(loop) : ~Backs(i, p)
  /\ Emitted(p) # <<>> => \A i \in 1..Len(loop) : ~Backs(i, p)

IsComing(p, m) == \E i \in 1..Len(loop) : Comes(i, p) /\ loop[i].messages[1] = m
IsHeld(p, m) ==
  \/ \E k \in 1..Len(queued[p]) : queued[p][k] = m
  \/ \E i \in 1..Len(loop) :
       Backs(i, p) /\ \E k \in 1..Len(loop[i].messages) : loop[i].messages[k] = m
  \/ \E k \in 1..Len(Emitted(p)) : Emitted(p)[k] = m
IsHeard(p, m) == \E k \in 1..Len(received[p]) : received[p][k] = m

\* What has reached p was posted, is older than all that is still under way, and
\* is in one place.
ArrivedSound(p) ==
  /\ \A m \in Messages :
       IsHeld(p, m) \/ IsHeard(p, m) =>
         /\ m <= sent[Peer(p)]
         /\ \A i \in 1..Len(loop) : Comes(i, p) => m < loop[i].messages[1]
  /\ \A m \in Messages : ~(IsHeld(p, m) /\ IsHeard(p, m))
  /\ Distinct(received[p])

\* Nothing posted to an open port by a living one is missing.
NoGap(p) ==
  open[p] /\ exists = Ports =>
    \A m \in 1..sent[Peer(p)] : IsComing(p, m) \/ IsHeld(p, m) \/ IsHeard(p, m)

\* A port that was not overtaken has heard the first messages, in order; a
\* backlog it still waits for is ahead of every delivery that will run.
InOrder(p) ==
  p \notin overtaken =>
    /\ \A k \in 1..Len(received[p]) : received[p][k] = k
    /\ \A k \in 1..Len(Emitted(p)) : Emitted(p)[k] = Len(received[p]) + k
    /\ \A i \in 1..Len(loop) : Backs(i, p) =>
         /\ received[p] = <<>>
         /\ \A j \in 1..Len(loop) : Comes(j, p) /\ loop[j].owner \in exists => i < j

PortSound(p) == KeptSound(p) /\ ArrivedSound(p) /\ NoGap(p) /\ InOrder(p)

\* The inductive invariant.
OrderInv == LoopSound /\ \A p \in Ports : PortSound(p)

-----------------------------------------------------------------------------
\* The parts of the state, typed.
LEMMA PortParts ==
  ASSUME TypeOK, NEW p \in Ports
  PROVE  /\ queued[p] \in Seq(Messages) /\ received[p] \in Seq(Messages)
         /\ Emitted(p) \in Seq(Messages)
         /\ sent[p] \in Nat /\ Peer(p) \in Ports /\ Peer(Peer(p)) = p
         /\ Ports = {p, Peer(p)}
         /\ Len(loop) \in Nat
         /\ \A i \in 1..Len(loop) :
              /\ loop[i].kind \in {"deliver", "backlog", "close"}
              /\ loop[i].to \in Ports /\ loop[i].owner \in Ports
              /\ loop[i].messages \in Seq(Messages)
<1>1. queued[p] \in Seq(Messages) /\ received[p] \in Seq(Messages)
  BY DEF TypeOK
<1>2. Emitted(p) \in Seq(Messages)
  BY DEF TypeOK, Emitted
<1>3. sent[p] \in Nat
  BY PortAssumptions DEF TypeOK
<1>4. Peer(p) \in Ports /\ Peer(Peer(p)) = p /\ Ports = {p, Peer(p)}
  BY DEF Ports, Peer
<1>5. Len(loop) \in Nat /\ \A i \in 1..Len(loop) : loop[i] \in Event
  BY DEF TypeOK
<1> QED BY <1>1, <1>2, <1>3, <1>4, <1>5 DEF Event

\* The loop without its first d lambdas.
Rest(rest, d) ==
  /\ rest \in Seq(Event) /\ Len(rest) \in Nat
  /\ Len(rest) = Len(loop) - d
  /\ \A i \in 1..Len(rest) : i + d \in 1..Len(loop) /\ rest[i] = loop[i + d]

LEMMA Rests ==
  ASSUME TypeOK
  PROVE  /\ Rest(loop, 0)
         /\ loop # <<>> => /\ Rest(Tail(loop), 1)
                           /\ 1 \in 1..Len(loop) /\ Head(loop) = loop[1]
BY DEF TypeOK, Rest

LEMMA Appended ==
  ASSUME NEW rest \in Seq(Event), NEW e \in Event, Len(rest) \in Nat
  PROVE  /\ Len(Append(rest, e)) = Len(rest) + 1
         /\ \A i \in 1..Len(rest) : Append(rest, e)[i] = rest[i]
         /\ Append(rest, e)[Len(rest) + 1] = e
OBVIOUS

\* What only ever moves one way.
Onward ==
  /\ \A p \in Ports : sent[p] <= sent'[p]
  /\ \A p \in Ports : open'[p] => open[p]
  /\ \A p \in Ports : started[p] => started'[p]
  /\ exists' \subseteq exists

\* A lambda stays sound.
LEMMA SaneStays ==
  ASSUME TypeOK, TypeOK', Onward, NEW e \in Event, Sane(e)
  PROVE  Sane(e)'
<1> DEFINE m == e.messages[1]
<1>1. e.owner \in Ports
  BY DEF Event
<1>2. ASSUME e.kind = "deliver" PROVE m <= sent'[e.owner]
  <2>1. m \in Nat /\ m <= sent[e.owner]
    <3>1. Len(e.messages) = 1 /\ e.messages \in Seq(Messages) /\ m <= sent[e.owner]
      BY <1>2 DEF Sane, Event
    <3>2. m \in Messages
      BY <3>1
    <3> QED BY <3>1, <3>2 DEF Messages
  <2>2. sent \in [Ports -> 0..MaxPosts] /\ sent' \in [Ports -> 0..MaxPosts]
    BY DEF TypeOK
  <2>3. sent[e.owner] <= sent'[e.owner]
    BY <1>1 DEF Onward
  <2> HIDE DEF m
  <2> QED BY <1>1, <2>1, <2>2, <2>3, PortAssumptions
<1>3. e.kind = "backlog" => started'[e.to]
  BY DEF Sane, Onward, Event
<1>4. e.kind = "close" => ~open'[e.owner]
  BY <1>1 DEF Sane, Onward
<1> QED BY <1>2, <1>3, <1>4 DEF Sane

\* The loop stays sound when it loses its first lambda and gains a sound one.
LEMMA LoopKeeps ==
  ASSUME TypeOK, TypeOK', LoopSound, Onward,
         NEW d \in {0, 1}, NEW rest, Rest(rest, d),
         \/ loop' = rest
         \/ \E e \in Event : /\ loop' = Append(rest, e) /\ Sane(e)'
                             /\ \A i \in 1..Len(rest) : Apart(rest[i], e)
  PROVE  LoopSound'
<1>1. \A e \in Event : Sane(e) => Sane(e)'
  BY SaneStays
<1>2. /\ \A i \in 1..Len(rest) : rest[i] \in Event /\ Sane(rest[i])
      /\ \A i, j \in 1..Len(rest) : i < j => Apart(rest[i], rest[j])
  <2>1. /\ \A i \in 1..Len(rest) : i + d \in 1..Len(loop) /\ rest[i] = loop[i + d]
        /\ rest \in Seq(Event)
    BY DEF Rest
  <2>2. \A i \in 1..Len(rest) : rest[i] \in Event /\ Sane(rest[i])
    BY <2>1 DEF LoopSound
  <2>3. \A i, j \in 1..Len(rest) : i < j => i + d < j + d
    OBVIOUS
  <2> QED BY <2>1, <2>2, <2>3 DEF LoopSound
<1>3. CASE loop' = rest
  BY <1>1, <1>2, <1>3 DEF LoopSound
<1>4. ASSUME NEW e \in Event, loop' = Append(rest, e), Sane(e)',
             \A i \in 1..Len(rest) : Apart(rest[i], e)
      PROVE  LoopSound'
  <2>1. /\ Len(loop') = Len(rest) + 1 /\ Len(rest) \in Nat
        /\ \A i \in 1..Len(rest) : loop'[i] = rest[i]
        /\ loop'[Len(rest) + 1] = e
    BY <1>4, Appended DEF Rest
  <2>2. ASSUME NEW i \in 1..Len(loop') PROVE Sane(loop[i])'
    <3>1. i \in 1..Len(rest) \/ i = Len(rest) + 1
      BY <2>1
    <3> QED BY <1>1, <1>2, <1>4, <2>1, <3>1
  <2>3. ASSUME NEW i \in 1..Len(loop'), NEW j \in 1..Len(loop'), i < j
        PROVE  Apart(loop'[i], loop'[j])
    <3>1. i \in 1..Len(rest) /\ (j \in 1..Len(rest) \/ j = Len(rest) + 1)
      BY <2>1, <2>3
    <3> QED BY <1>2, <1>4, <2>1, <2>3, <3>1
  <2> QED BY <2>2, <2>3 DEF LoopSound
<1> QED BY <1>3, <1>4

-----------------------------------------------------------------------------
\* What a step leaves alone at a port.
Same(q) ==
  /\ queued'[q] = queued[q] /\ received'[q] = received[q] /\ started'[q] = started[q]
  /\ Emitted(q)' = Emitted(q)
  /\ sent'[Peer(q)] = sent[Peer(q)]
  /\ q \in overtaken => q \in overtaken'

\* The loop moves up by d, gains nothing for q, and loses nothing that q, open
\* and with a living peer, still waits for.
Shifts(q, d) ==
  /\ \A i \in 1..Len(loop') :
       Comes(i, q)' \/ Backs(i, q)' => i + d \in 1..Len(loop) /\ loop'[i] = loop[i + d]
  /\ open'[q] /\ exists' = Ports =>
       \A i \in 1..Len(loop) :
         Comes(i, q) \/ Backs(i, q) => i - d \in 1..Len(loop') /\ loop'[i - d] = loop[i]

\* A port at which nothing happens stays as it is.
LEMMA Undisturbed ==
  ASSUME TypeOK, Onward, NEW q \in Ports, PortSound(q),
         NEW d \in {0, 1}, Same(q), Shifts(q, d)
  PROVE  PortSound(q)'
<1>1. \A i \in 1..Len(loop') :
        /\ Comes(i, q)' => Comes(i + d, q)
        /\ Backs(i, q)' => Backs(i + d, q)
  BY DEF Shifts, Comes, Backs
<1>2. KeptSound(q)'
  BY <1>1 DEF PortSound, KeptSound, Same, Shifts
<1>3. \A m : IsHeard(q, m)' <=> IsHeard(q, m)
  BY DEF IsHeard, Same
<1>4. \A m : IsHeld(q, m)' => IsHeld(q, m)
  BY <1>1 DEF IsHeld, Same, Shifts
<1>5. ArrivedSound(q)'
  <2>1. ASSUME NEW m \in Messages, \A i \in 1..Len(loop) : Comes(i, q) => m < loop[i].messages[1]
        PROVE  \A i \in 1..Len(loop') : Comes(i, q)' => m < loop'[i].messages[1]
    BY <1>1, <2>1 DEF Shifts
  <2> QED BY <1>3, <1>4, <2>1 DEF PortSound, ArrivedSound, Same
<1>6. NoGap(q)'
  <2> SUFFICES ASSUME open'[q], exists' = Ports, NEW m \in 1..sent'[Peer(q)]
               PROVE  IsComing(q, m)' \/ IsHeld(q, m)' \/ IsHeard(q, m)'
    BY DEF NoGap
  <2>1. open[q] /\ exists = Ports /\ m \in 1..sent[Peer(q)]
    BY DEF Onward, Same, TypeOK
  <2>2. \A i \in 1..Len(loop) :
          /\ Comes(i, q) => /\ i - d \in 1..Len(loop') /\ loop'[i - d] = loop[i]
                            /\ Comes(i - d, q)'
          /\ Backs(i, q) => /\ i - d \in 1..Len(loop') /\ loop'[i - d] = loop[i]
                            /\ Backs(i - d, q)'
    BY DEF Shifts, Comes, Backs
  <2>3. IsComing(q, m) => IsComing(q, m)'
    BY <2>2 DEF IsComing
  <2>4. IsHeld(q, m) => IsHeld(q, m)'
    BY <2>2 DEF IsHeld, Same
  <2> QED BY <1>3, <2>1, <2>3, <2>4 DEF PortSound, NoGap
<1>7. InOrder(q)'
  <2> SUFFICES ASSUME q \notin overtaken' PROVE InOrder(q)'
    BY DEF InOrder
  <2>1. q \notin overtaken
    BY DEF Same
  <2>2. ASSUME NEW i \in 1..Len(loop'), Backs(i, q)',
               NEW j \in 1..Len(loop'), Comes(j, q)', loop'[j].owner \in exists'
        PROVE  i < j
    <3>1. i + d < j + d
      BY <1>1, <2>1, <2>2 DEF PortSound, InOrder, Shifts, Onward
    <3> QED BY <3>1
  <2> QED BY <1>1, <2>1, <2>2 DEF PortSound, InOrder, Same, Shifts
<1> QED BY <1>2, <1>5, <1>6, <1>7 DEF PortSound

\* What a queue that loses its first lambda, gains one or does both is for q.
LEMMA QueueShifts ==
  ASSUME TypeOK, NEW q \in Ports, NEW d \in {0, 1}, NEW rest, Rest(rest, d),
         \/ loop' = rest
         \/ \E e \in Event : /\ loop' = Append(rest, e)
                             /\ ~(e.to = q /\ e.kind \in {"deliver", "backlog"}),
         d = 1 /\ open'[q] /\ exists' = Ports => ~Comes(1, q) /\ ~Backs(1, q)
  PROVE  Shifts(q, d)
<1>1. /\ rest \in Seq(Event) /\ Len(rest) \in Nat /\ Len(loop) \in Nat
      /\ Len(rest) = Len(loop) - d
      /\ \A i \in 1..Len(rest) : i + d \in 1..Len(loop) /\ rest[i] = loop[i + d]
  BY DEF Rest, TypeOK
<1>2. ASSUME NEW i \in 1..Len(loop'), Comes(i, q)' \/ Backs(i, q)'
      PROVE  i \in 1..Len(rest) /\ loop'[i] = rest[i]
  <2>1. CASE loop' = rest
    BY <1>2, <2>1
  <2>2. ASSUME NEW e \in Event, loop' = Append(rest, e),
               ~(e.to = q /\ e.kind \in {"deliver", "backlog"})
        PROVE  i \in 1..Len(rest) /\ loop'[i] = rest[i]
    BY <1>1, <1>2, <2>2, Appended DEF Comes, Backs
  <2> QED BY <2>1, <2>2
<1>3. \A i \in 1..Len(rest) : i \in 1..Len(loop') /\ loop'[i] = rest[i]
  BY <1>1, Appended
<1>4. ASSUME open'[q], exists' = Ports,
             NEW i \in 1..Len(loop), Comes(i, q) \/ Backs(i, q)
      PROVE  i - d \in 1..Len(loop') /\ loop'[i - d] = loop[i]
  <2>1. d = 1 => i # 1
    BY <1>4
  <2>2. i - d \in 1..Len(rest) /\ (i - d) + d = i
    BY <1>1, <2>1
  <2> QED BY <1>1, <1>3, <2>2
<1> QED BY <1>1, <1>2, <1>4 DEF Shifts

-----------------------------------------------------------------------------
\* post(): the newest message goes to the end of the loop, where no goodbye of
\* its sender's can be.
LEMMA PostOrder ==
  ASSUME PortInv, TypeOK', OrderInv, NEW p \in Ports, Post(p)
  PROVE  OrderInv'
<1> DEFINE r == Peer(p)
<1> USE DEF PortInv
<1>1. /\ r \in Ports /\ Peer(r) = p /\ Ports = {p, r} /\ p # r
      /\ sent[p] \in Nat /\ sent[p] + 1 \in Messages /\ Len(loop) \in Nat
  <2>1. r \in Ports /\ Peer(r) = p /\ Ports = {p, r} /\ p # r
    BY DEF Ports, Peer
  <2>2. sent[p] \in Nat /\ sent[p] < MaxPosts /\ MaxPosts \in Nat
    BY PortAssumptions DEF Post, TypeOK
  <2> QED BY <2>1, <2>2, PortParts DEF Messages
<1>0. PICK m \in Messages : m = sent[p] + 1
  BY <1>1
<1>2. PICK e \in Event :
        e = [kind |-> "deliver", owner |-> p, to |-> r, messages |-> <<m>>]
  <2>1. <<m>> \in Seq(Messages)
    OBVIOUS
  <2> QED BY <1>1, <2>1 DEF Event
<1>3. /\ open[p] /\ open[r] /\ loop' = Append(loop, e)
      /\ sent'[p] = m /\ \A q \in Ports : q # p => sent'[q] = sent[q]
      /\ UNCHANGED <<exists, open, started, queued, emitting, received, overtaken>>
  BY <1>0, <1>2 DEF Post, IsOpen, NextMessage, TypeOK
<1>4. /\ e.kind = "deliver" /\ e.owner = p /\ e.to = r
      /\ Len(e.messages) = 1 /\ e.messages[1] = m
  BY <1>2
<1>5. /\ Len(loop') = Len(loop) + 1 /\ loop'[Len(loop) + 1] = e
      /\ \A i \in 1..Len(loop) : loop'[i] = loop[i]
  BY <1>1, <1>2, <1>3, Appended DEF TypeOK
<1> HIDE DEF r
<1>6. Onward
  BY <1>0, <1>1, <1>3, PortParts DEF Onward
<1>7. LoopSound'
  <2>1. Sane(e)'
    <3>1. m <= sent'[p]
      BY <1>0, <1>3 DEF Messages
    <3> QED BY <1>1, <1>4, <3>1 DEF Sane
  <2>2. ASSUME NEW i \in 1..Len(loop) PROVE Apart(loop[i], e)
    <3>1. Sane(loop[i])
      BY DEF OrderInv, LoopSound
    <3>2. ASSUME loop[i].kind = "deliver", loop[i].to = r PROVE loop[i].messages[1] < m
      <4>1. /\ loop[i].messages[1] <= sent[p] /\ Len(loop[i].messages) = 1
            /\ loop[i].messages \in Seq(Messages)
        BY <1>1, <3>1, <3>2, PortParts DEF Sane
      <4>2. loop[i].messages[1] \in Messages
        BY <4>1
      <4> QED BY <1>0, <1>1, <4>1, <4>2 DEF Messages
    <3> QED BY <1>1, <1>3, <1>4, <3>1, <3>2 DEF Apart, Sane
  <2>3. Rest(loop, 0)
    BY Rests
  <2> QED BY <1>2, <1>3, <1>6, <2>1, <2>2, <2>3, LoopKeeps DEF OrderInv
<1>8. PortSound(p)'
  <2>1. Same(p) /\ Shifts(p, 0)
    <3>1. Same(p)
      BY <1>1, <1>3 DEF Same, Emitted, r
    <3> QED BY <1>1, <1>2, <1>3, <1>4, <3>1, Rests, QueueShifts
  <2> QED BY <1>6, <2>1, Undisturbed DEF OrderInv
<1>9. PortSound(r)'
  <2>0. PortSound(r)
    BY <1>1 DEF OrderInv
  <2>1. /\ queued'[r] = queued[r] /\ received'[r] = received[r] /\ started'[r] = started[r]
        /\ Emitted(r)' = Emitted(r)
    BY <1>3 DEF Emitted
  <2>2. \A i \in 1..Len(loop') :
          /\ Backs(i, r)' => i \in 1..Len(loop) /\ Backs(i, r)
          /\ Comes(i, r)' => \/ i \in 1..Len(loop) /\ Comes(i, r)
                             \/ i = Len(loop) + 1 /\ loop'[i].messages[1] = m
    BY <1>1, <1>4, <1>5 DEF Backs, Comes
  <2>3. KeptSound(r)'
    BY <2>0, <2>1, <2>2 DEF PortSound, KeptSound
  <2>4. \A x : /\ IsHeard(r, x)' <=> IsHeard(r, x)
               /\ IsHeld(r, x)' <=> IsHeld(r, x)
    BY <1>1, <1>5, <2>1, <2>2 DEF IsHeard, IsHeld, Backs
  <2>5. ArrivedSound(r)'
    <3>1. ASSUME NEW x \in Messages, IsHeld(r, x) \/ IsHeard(r, x)
          PROVE  /\ x <= sent'[p]
                 /\ \A i \in 1..Len(loop') : Comes(i, r)' => x < loop'[i].messages[1]
      <4>1. x \in Nat /\ x <= sent[p]
        BY <1>1, <2>0, <3>1 DEF PortSound, ArrivedSound, Messages
      <4>2. x < m /\ x <= m
        BY <1>0, <1>1, <4>1 
      <4> QED BY <1>3, <1>5, <2>0, <2>2, <3>1, <4>2 DEF PortSound, ArrivedSound
    <3> QED BY <1>1, <2>0, <2>1, <2>4, <3>1 DEF PortSound, ArrivedSound
  <2>6. NoGap(r)'
    <3>1. IsComing(r, m)'
      BY <1>1, <1>4, <1>5 DEF IsComing, Comes
    <3>2. \A x : IsComing(r, x) => IsComing(r, x)'
      BY <1>1, <1>5 DEF IsComing, Comes
    <3>3. \A x \in 1..sent'[p] : x = m \/ x \in 1..sent[p]
      BY <1>0, <1>1, <1>3 
    <3> QED BY <1>1, <1>3, <2>0, <2>4, <3>1, <3>2, <3>3 DEF PortSound, NoGap
  <2>7. InOrder(r)'
    <3>1. \A i \in 1..Len(loop) : i < Len(loop) + 1
      BY <1>1
    <3> QED BY <1>3, <1>5, <2>0, <2>1, <2>2, <3>1 DEF PortSound, InOrder
  <2> QED BY <2>3, <2>5, <2>6, <2>7 DEF PortSound
<1> QED BY <1>1, <1>7, <1>8, <1>9 DEF OrderInv

\* close(), here or by the peer, and the end of a port: nothing arrives anywhere.
LEMMA CloseOrder ==
  ASSUME PortInv, PortInv', OrderInv, NEW p \in Ports, NEW who \in {"itself", "peer"},
         NEW rest, NEW d \in {0, 1}, Rest(rest, d),
         d = 1 => loop[1].kind = "close",
         ClosePort(p, who, rest),
         UNCHANGED <<exists, started, queued, emitting, sent, received, overtaken>>
  PROVE  OrderInv'
<1> USE DEF PortInv
<1>1. Goodbye(p) \in Event
  BY Events
<1>2. /\ loop' = Append(rest, Goodbye(p)) /\ open' = [open EXCEPT ![p] = FALSE]
  BY DEF ClosePort
<1>3. PICK e \in Event : e = Goodbye(p)
  BY <1>1
<1>4. e.kind = "close" /\ e.owner = p /\ e.to = Peer(p)
  BY <1>3 DEF Goodbye
<1>5. /\ ~open'[p] /\ \A q \in Ports : open'[q] => open[q]
      /\ \A q \in Ports : sent[q] <= sent'[q]
  <2>1. ~open'[p] /\ \A q \in Ports : open'[q] => open[q]
    BY <1>2 DEF TypeOK
  <2>2. \A q \in Ports : sent[q] \in Nat
    BY PortParts
  <2> QED BY <2>1, <2>2
<1>6. Onward
  BY <1>5 DEF Onward
<1>7. LoopSound'
  <2>1. Sane(e)'
    BY <1>4, <1>5, PortParts DEF Sane
  <2>2. \A i \in 1..Len(rest) : Apart(rest[i], e)
    BY <1>4 DEF Apart
  <2> QED BY <1>2, <1>3, <1>6, <2>1, <2>2, LoopKeeps DEF OrderInv
<1>8. ASSUME NEW q \in Ports PROVE PortSound(q)'
  <2>1. Same(q)
    BY DEF Same, Emitted
  <2>2. Shifts(q, d)
    <3>1. d = 1 => ~Comes(1, q) /\ ~Backs(1, q)
      BY DEF Comes, Backs
    <3> QED BY <1>2, <1>3, <1>4, <3>1, QueueShifts
  <2> QED BY <1>6, <2>1, <2>2, Undisturbed DEF OrderInv
<1> QED BY <1>7, <1>8 DEF OrderInv

\* A port that goes takes its lambdas' effects along, not the lambdas.
LEMMA DeleteOrder ==
  ASSUME PortInv, PortInv', OrderInv, NEW p \in Ports, Delete(p)
  PROVE  OrderInv'
<1> USE DEF PortInv
<1>1. Onward
  <2>1. \A q \in Ports : sent[q] \in Nat
    BY PortParts
  <2> QED BY <2>1 DEF Onward, Delete
<1>2. loop' = loop /\ Rest(loop, 0)
  BY Rests DEF Delete
<1>3. LoopSound'
  BY <1>1, <1>2, LoopKeeps DEF OrderInv
<1>4. ASSUME NEW q \in Ports PROVE PortSound(q)'
  <2>1. Same(q)
    BY DEF Same, Emitted, Delete
  <2>2. Shifts(q, 0)
    BY <1>2, QueueShifts
  <2> QED BY <1>1, <2>1, <2>2, Undisturbed DEF OrderInv
<1> QED BY <1>3, <1>4 DEF OrderInv

\* start(): what was kept goes to the end of the loop in one piece; the port is
\* overtaken if deliveries that will run are ahead of it.
LEMMA StartOrder ==
  ASSUME PortInv, PortInv', OrderInv, NEW p \in Ports, Start(p)
  PROVE  OrderInv'
<1> USE DEF PortInv
<1>1. /\ ~started[p] /\ started'[p] /\ queued'[p] = <<>>
      /\ \A q \in Ports : q # p => queued'[q] = queued[q] /\ started'[q] = started[q]
      /\ UNCHANGED <<exists, open, emitting, sent, received>> /\ overtaken \subseteq overtaken'
  BY DEF Start, TypeOK
<1>2. Onward
  <2>1. \A q \in Ports : sent[q] \in Nat
    BY PortParts
  <2> QED BY <1>1, <2>1 DEF Onward
<1>3. \A q \in Ports : Emitted(q)' = Emitted(q)
  BY <1>1 DEF Emitted
<1>4. /\ PortSound(p) /\ received[p] = <<>> /\ Emitted(p) = <<>>
      /\ \A i \in 1..Len(loop) : ~Backs(i, p)
  BY <1>1 DEF OrderInv, PortSound, KeptSound
<1>5. Rest(loop, 0) /\ Len(loop) \in Nat
  BY Rests, PortParts
<1>6. CASE queued[p] = <<>>
  <2>1. loop' = loop
    BY <1>6 DEF Start
  <2>2. LoopSound'
    BY <1>2, <1>5, <2>1, LoopKeeps DEF OrderInv
  <2>3. ASSUME NEW q \in Ports, q # p PROVE PortSound(q)'
    <3>1. Same(q) /\ Shifts(q, 0)
      BY <1>1, <1>3, <1>5, <2>1, <2>3, QueueShifts DEF Same
    <3> QED BY <1>2, <3>1, Undisturbed DEF OrderInv
  <2>4. PortSound(p)'
    <3>1. \A i \in 1..Len(loop) : /\ Backs(i, p)' <=> Backs(i, p)
                                  /\ Comes(i, p)' <=> Comes(i, p)
      BY <2>1 DEF Backs, Comes
    <3>2. \A m : /\ IsHeard(p, m)' <=> IsHeard(p, m)
                 /\ IsHeld(p, m)' <=> IsHeld(p, m)
                 /\ IsComing(p, m)' <=> IsComing(p, m)
      BY <1>1, <1>3, <1>6, <2>1, <3>1 DEF IsHeard, IsHeld, IsComing
    <3>3. KeptSound(p)'
      BY <1>1, <1>3, <1>4, <2>1, <3>1 DEF PortSound, KeptSound
    <3>4. ArrivedSound(p)'
      BY <1>1, <1>4, <2>1, <3>1, <3>2 DEF PortSound, ArrivedSound
    <3>5. NoGap(p)'
      BY <1>1, <1>4, <3>2 DEF PortSound, NoGap
    <3>6. InOrder(p)'
      BY <1>1, <1>3, <1>4, <2>1, <3>1 DEF PortSound, InOrder
    <3> QED BY <3>3, <3>4, <3>5, <3>6 DEF PortSound
  <2> QED BY <2>2, <2>3, <2>4 DEF OrderInv
<1>7. CASE queued[p] # <<>>
  <2>1. PICK e \in Event : e = Backlog(p)
    BY Events
  <2>2. e.kind = "backlog" /\ e.owner = p /\ e.to = p /\ e.messages = queued[p]
    BY <2>1 DEF Backlog
  <2>3. /\ loop' = Append(loop, e) /\ Len(loop') = Len(loop) + 1 /\ loop'[Len(loop) + 1] = e
        /\ \A i \in 1..Len(loop) : loop'[i] = loop[i]
    <3>1. loop' = Append(loop, e) /\ loop \in Seq(Event)
      BY <1>7, <2>1 DEF Start, TypeOK
    <3> QED BY <1>5, <3>1, Appended
  <2>4. p \notin overtaken' =>
          \A i \in 1..Len(loop) : Comes(i, p) => loop[i].owner \notin exists
    <3> SUFFICES ASSUME p \notin overtaken', NEW i \in 1..Len(loop), Comes(i, p),
                        loop[i].owner \in exists
                 PROVE  FALSE
      OBVIOUS
    <3>1. InLoop("deliver", p) = {}
      BY <1>7 DEF Start
    <3>2. Len(loop[i].messages) = 1
      BY DEF OrderInv, LoopSound, Sane, Comes
    <3>3. loop[i].messages[1] \in InLoop("deliver", p)
      BY <3>2 DEF InLoop, Elements, Comes
    <3> QED BY <3>1, <3>3
  <2>5. LoopSound'
    <3>1. Sane(e)'
      BY <1>1, <1>4, <2>2 DEF Sane, PortSound, KeptSound
    <3>2. \A i \in 1..Len(loop) : Apart(loop[i], e)
      BY <1>4, <2>2 DEF Apart, Backs
    <3> QED BY <1>2, <1>5, <2>3, <3>1, <3>2, LoopKeeps DEF OrderInv
  <2>6. ASSUME NEW q \in Ports, q # p PROVE PortSound(q)'
    <3>1. Same(q)
      BY <1>1, <1>3, <2>6 DEF Same
    <3>2. Shifts(q, 0)
      BY <1>5, <2>2, <2>3, <2>6, QueueShifts
    <3> QED BY <1>2, <3>1, <3>2, Undisturbed DEF OrderInv
  <2>7. PortSound(p)'
    <3>1. \A i \in 1..Len(loop') :
            /\ Comes(i, p)' => i \in 1..Len(loop) /\ Comes(i, p)
            /\ Backs(i, p)' <=> i = Len(loop) + 1
      BY <1>4, <1>5, <2>2, <2>3 DEF Backs, Comes
    <3>2. \A m : IsHeard(p, m)' <=> IsHeard(p, m)
      BY <1>1 DEF IsHeard
    <3>3. \A m : IsHeld(p, m)' <=> IsHeld(p, m)
      BY <1>1, <1>3, <1>4, <1>5, <2>2, <2>3, <3>1 DEF IsHeld
    <3>4. \A m : IsComing(p, m) => IsComing(p, m)'
      BY <1>5, <2>3 DEF IsComing, Comes
    <3>5. KeptSound(p)'
      BY <1>1, <1>3, <1>4 DEF PortSound, KeptSound
    <3>6. ArrivedSound(p)'
      BY <1>1, <1>4, <2>3, <3>1, <3>2, <3>3 DEF PortSound, ArrivedSound
    <3>7. NoGap(p)'
      BY <1>1, <1>4, <3>2, <3>3, <3>4 DEF PortSound, NoGap
    <3>8. InOrder(p)'
      BY <1>1, <1>3, <1>4, <2>3, <2>4, <3>1 DEF PortSound, InOrder
    <3> QED BY <3>5, <3>6, <3>7, <3>8 DEF PortSound
  <2> QED BY <2>5, <2>6, <2>7 DEF OrderInv
<1> QED BY <1>6, <1>7

-----------------------------------------------------------------------------
\* The first lambda of a sound loop, seen from its port.
LEMMA FirstEvent ==
  ASSUME TypeOK, OrderInv, loop # <<>>
  PROVE  /\ 1 \in 1..Len(loop) /\ Len(loop) \in Nat /\ Head(loop) = loop[1]
         /\ Sane(loop[1]) /\ loop[1].to \in Ports /\ loop[1].owner \in Ports
         /\ loop[1].messages \in Seq(Messages)
         /\ \A i \in 1..Len(loop) : i = 1 \/ Apart(loop[1], loop[i])
         /\ Rest(Tail(loop), 1)
<1>1. 1 \in 1..Len(loop) /\ Head(loop) = loop[1] /\ Rest(Tail(loop), 1) /\ Len(loop) \in Nat
  BY Rests DEF Rest, TypeOK
<1>2. loop[1] \in Event
  BY <1>1 DEF TypeOK
<1>3. \A i \in 1..Len(loop) : i = 1 \/ 1 < i
  BY <1>1
<1> QED BY <1>1, <1>2, <1>3 DEF OrderInv, LoopSound, Event

\* The loop after its first lambda.
LEMMA Popped ==
  ASSUME Len(loop) \in Nat, 1 \in 1..Len(loop), Rest(Tail(loop), 1), loop' = Tail(loop)
  PROVE  /\ Len(loop') = Len(loop) - 1
         /\ \A i \in 1..Len(loop') : i + 1 \in 1..Len(loop) /\ loop'[i] = loop[i + 1]
         /\ \A i \in 1..Len(loop) : i = 1 \/ (i - 1 \in 1..Len(loop') /\ loop'[i - 1] = loop[i])
<1>1. /\ Len(loop') = Len(loop) - 1
      /\ \A i \in 1..Len(loop') : i + 1 \in 1..Len(loop) /\ loop'[i] = loop[i + 1]
  BY DEF Rest
<1>2. ASSUME NEW i \in 1..Len(loop), i # 1
      PROVE  i - 1 \in 1..Len(loop') /\ loop'[i - 1] = loop[i]
  <2>1. i - 1 \in 1..Len(loop') /\ (i - 1) + 1 = i
    BY <1>1, <1>2
  <2> QED BY <1>1, <2>1
<1> QED BY <1>1, <1>2

\* The message at the head of the loop is the next one of an open port's peer,
\* if the port was not overtaken: everything before it has arrived.
LEMMA NextInLine ==
  ASSUME PortInv, OrderInv, loop # <<>>, NEW p \in Ports, Comes(1, p),
         open[p], exists = Ports, NEW m \in Messages, m = loop[1].messages[1]
  PROVE  \A x \in Messages : x < m <=> IsHeld(p, x) \/ IsHeard(p, x)
<1> USE DEF PortInv
<1>1. /\ 1 \in 1..Len(loop) /\ Sane(loop[1])
      /\ \A i \in 1..Len(loop) : i = 1 \/ Apart(loop[1], loop[i])
  BY FirstEvent
<1>2. m <= sent[Peer(p)] /\ sent[Peer(p)] \in Nat
  <2>1. loop[1].owner = Peer(p) /\ loop[1].messages[1] <= sent[loop[1].owner]
    BY <1>1 DEF Sane, Comes
  <2> QED BY <2>1, PortParts
<1>3. ASSUME NEW x \in Messages, IsHeld(p, x) \/ IsHeard(p, x) PROVE x < m
  BY <1>1, <1>3 DEF OrderInv, PortSound, ArrivedSound
<1>4. ASSUME NEW x \in Messages, x < m PROVE IsHeld(p, x) \/ IsHeard(p, x)
  <2>1. x \in 1..sent[Peer(p)]
    BY <1>2, <1>4 DEF Messages
  <2>2. IsComing(p, x) \/ IsHeld(p, x) \/ IsHeard(p, x)
    BY <2>1 DEF OrderInv, PortSound, NoGap
  <2>3. ~IsComing(p, x)
    <3> SUFFICES ASSUME NEW i \in 1..Len(loop), Comes(i, p), loop[i].messages[1] = x
                 PROVE  FALSE
      BY DEF IsComing
    <3>1. ~(x = m) /\ ~(m < x)
      BY <1>4 DEF Messages
    <3>2. i # 1
      BY <3>1
    <3>3. m < x
      BY <1>1, <3>2 DEF Apart, Comes
    <3> QED BY <3>1, <3>3
  <2> QED BY <2>2, <2>3
<1> QED BY <1>3, <1>4

\* A number whose predecessors are 1..n.
LEMMA OneMore ==
  ASSUME NEW n \in Nat, 1..n \subseteq Messages, NEW m \in Messages,
         \A x \in Messages : x < m <=> x \in 1..n
  PROVE  m = n + 1
<1>1. m >= n + 1
  <2>1. CASE n = 0
    BY <2>1 DEF Messages
  <2>2. CASE n > 0
    BY <2>2 DEF Messages
  <2> QED BY <2>1, <2>2
<1>2. m <= n + 1
  <2> SUFFICES ASSUME m > n + 1 PROVE FALSE
    BY DEF Messages
  <2>1. n + 1 \in Messages /\ n + 1 < m
    BY PortAssumptions DEF Messages
  <2> QED BY <2>1
<1> QED BY <1>1, <1>2 DEF Messages

\* A message kept for start() is the next one.
LEMMA KeepOrder ==
  ASSUME PortInv, OrderInv, loop # <<>>, NEW p \in Ports, Comes(1, p),
         open[p], exists = Ports, ~started[p], NEW m \in Messages, m = loop[1].messages[1]
  PROVE  m = Len(queued[p]) + 1
<1> USE DEF PortInv
<1>1. PortSound(p) /\ queued[p] \in Seq(Messages) /\ Len(queued[p]) \in Nat
  BY PortParts DEF OrderInv
<1>2. \A x \in Messages : x < m <=> x \in 1..Len(queued[p])
  <2>1. \A x : IsHeard(p, x) <=> FALSE
    BY <1>1 DEF IsHeard, PortSound, KeptSound
  <2>2. \A x : IsHeld(p, x) <=> x \in 1..Len(queued[p])
    BY <1>1 DEF IsHeld, PortSound, KeptSound
  <2> QED BY <2>1, <2>2, NextInLine
<1>3. \A k \in 1..Len(queued[p]) : k \in Messages
  BY <1>1 DEF PortSound, KeptSound
<1> QED BY <1>1, <1>2, <1>3, OneMore

\* A message heard at once by a port that holds nothing back is the next one.
LEMMA HearOrder ==
  ASSUME PortInv, OrderInv, loop # <<>>, NEW p \in Ports, Comes(1, p),
         open[p], exists = Ports, p \notin overtaken, \A x : ~IsHeld(p, x),
         NEW m \in Messages, m = loop[1].messages[1]
  PROVE  m = Len(received[p]) + 1
<1> USE DEF PortInv
<1>1. PortSound(p) /\ received[p] \in Seq(Messages) /\ Len(received[p]) \in Nat
  BY PortParts DEF OrderInv
<1>2. \A x \in Messages : x < m <=> x \in 1..Len(received[p])
  <2>1. \A x : IsHeard(p, x) <=> x \in 1..Len(received[p])
    BY <1>1 DEF IsHeard, PortSound, InOrder
  <2> QED BY <2>1, NextInLine
<1>3. \A k \in 1..Len(received[p]) : k \in Messages
  BY <1>1 DEF PortSound, InOrder
<1> QED BY <1>1, <1>2, <1>3, OneMore

\* A lambda that does nothing: of a closed or half-deleted pair, or a late goodbye.
LEMMA DropOrder ==
  ASSUME PortInv, PortInv', OrderInv, loop # <<>>, loop' = Tail(loop),
         UNCHANGED <<exists, open, started, queued, emitting, sent, received, overtaken>>,
         loop[1].kind # "close" => ~(open[loop[1].to] /\ exists = Ports)
  PROVE  OrderInv'
<1> USE DEF PortInv
<1>1. Rest(Tail(loop), 1)
  BY FirstEvent
<1>2. Onward
  <2>1. \A q \in Ports : sent[q] \in Nat
    BY PortParts
  <2> QED BY <2>1 DEF Onward
<1>3. LoopSound'
  BY <1>1, <1>2, LoopKeeps DEF OrderInv
<1>4. ASSUME NEW q \in Ports PROVE PortSound(q)'
  <2>1. Same(q)
    BY DEF Same, Emitted
  <2>2. Shifts(q, 1)
    <3>1. open'[q] /\ exists' = Ports => ~Comes(1, q) /\ ~Backs(1, q)
      BY DEF Comes, Backs
    <3> QED BY <1>1, <3>1, QueueShifts
  <2> QED BY <1>2, <2>1, <2>2, Undisturbed DEF OrderInv
<1> QED BY <1>3, <1>4 DEF OrderInv

\* deliver() at an open port.
LEMMA DeliverOrder ==
  ASSUME PortInv, PortInv', OrderInv, loop # <<>>, loop' = Tail(loop), AtLoop,
         NEW p \in Ports, Comes(1, p), open[p], exists = Ports,
         Deliver(p, loop[1].messages),
         UNCHANGED <<exists, open, started, emitting, sent, overtaken>>
  PROVE  OrderInv'
<1> USE DEF PortInv
<1>1. /\ 1 \in 1..Len(loop) /\ Rest(Tail(loop), 1) /\ Len(loop) \in Nat
      /\ Sane(loop[1]) /\ loop[1].messages \in Seq(Messages)
      /\ \A i \in 1..Len(loop) : i = 1 \/ Apart(loop[1], loop[i])
  BY FirstEvent
<1>2. Onward
  <2>1. \A q \in Ports : sent[q] \in Nat
    BY PortParts
  <2> QED BY <2>1 DEF Onward
<1>3. LoopSound'
  BY <1>1, <1>2, LoopKeeps DEF OrderInv
<1>4. PICK m \in Messages : /\ m = loop[1].messages[1] /\ loop[1].messages = <<m>>
                            /\ m <= sent[Peer(p)]
  <2>1. /\ Len(loop[1].messages) = 1 /\ loop[1].owner = Peer(p)
        /\ loop[1].messages[1] <= sent[Peer(p)]
    BY <1>1 DEF Sane, Comes
  <2>2. loop[1].messages[1] \in Messages /\ loop[1].messages = <<loop[1].messages[1]>>
    BY <1>1, <2>1
  <2> QED BY <2>1, <2>2
<1>5. /\ queued[p] \in Seq(Messages) /\ received[p] \in Seq(Messages)
      /\ Len(queued[p]) \in Nat /\ Len(received[p]) \in Nat
      /\ PortSound(p) /\ Emitted(p) = <<>> /\ Emitted(p)' = <<>>
  BY PortParts DEF OrderInv, AtLoop, Emitted
<1>6. /\ \A i \in 1..Len(loop') : i + 1 \in 1..Len(loop) /\ loop'[i] = loop[i + 1]
      /\ \A i \in 1..Len(loop) : i = 1 \/ (i - 1 \in 1..Len(loop') /\ loop'[i - 1] = loop[i])
  BY <1>1, Popped
<1>7. \A i \in 1..Len(loop') : /\ Comes(i, p)' => Comes(i + 1, p) /\ m < loop'[i].messages[1]
                               /\ Backs(i, p)' => Backs(i + 1, p)
  <2>1. \A i \in 1..Len(loop') : i + 1 # 1
    BY <1>1, <1>6
  <2> QED BY <1>1, <1>4, <1>6, <2>1 DEF Comes, Backs, Apart
<1>8. \A i \in 1..Len(loop) : Backs(i, p) => i - 1 \in 1..Len(loop') /\ Backs(i - 1, p)'
  BY <1>6 DEF Comes, Backs
<1>9. \A x \in Messages : x < m <=> IsHeld(p, x) \/ IsHeard(p, x)
  BY <1>4, NextInLine
<1>10. ASSUME NEW x, IsComing(p, x) PROVE x = m \/ IsComing(p, x)'
  <2>1. PICK i \in 1..Len(loop) : Comes(i, p) /\ loop[i].messages[1] = x
    BY <1>10 DEF IsComing
  <2>2. CASE i = 1
    BY <1>4, <2>1, <2>2
  <2>3. CASE i # 1
    <3>1. i - 1 \in 1..Len(loop') /\ loop'[i - 1] = loop[i]
      BY <1>6, <2>3
    <3>2. Comes(i - 1, p)' /\ loop'[i - 1].messages[1] = x
      BY <2>1, <3>1 DEF Comes
    <3> QED BY <3>1, <3>2 DEF IsComing
  <2> QED BY <2>2, <2>3
<1>11. ASSUME NEW q \in Ports, q # p PROVE PortSound(q)'
  <2>1. queued'[q] = queued[q] /\ received'[q] = received[q]
    BY <1>11 DEF Deliver, TypeOK
  <2>2. Same(q)
    BY <2>1 DEF Same, Emitted
  <2>3. Shifts(q, 1)
    <3>1. ~Comes(1, q) /\ ~Backs(1, q)
      BY <1>11 DEF Comes, Backs
    <3> QED BY <1>1, <3>1, QueueShifts
  <2> QED BY <1>2, <2>2, <2>3, Undisturbed DEF OrderInv
<1>12. CASE ~started[p]
  <2>1. m = Len(queued[p]) + 1
    BY <1>4, <1>12, KeepOrder
  <2>2. /\ received' = received /\ queued'[p] = queued[p] \o <<m>>
        /\ \A x : ~IsHeard(p, x) /\ ~IsHeard(p, x)' /\ received[p] = <<>>
    <3>1. received' = received /\ queued'[p] = queued[p] \o <<m>>
      BY <1>4, <1>12 DEF Deliver, Hears, Keep, TypeOK
    <3>2. received[p] = <<>>
      BY <1>5, <1>12 DEF PortSound, KeptSound
    <3> QED BY <3>1, <3>2 DEF IsHeard
  <2>3. /\ Len(queued'[p]) = Len(queued[p]) + 1 /\ queued'[p][Len(queued[p]) + 1] = m
        /\ \A k \in 1..Len(queued[p]) : queued'[p][k] = queued[p][k]
    BY <1>5, <2>2
  <2>4. \A i \in 1..Len(loop) : ~Backs(i, p)
    BY <1>5, <1>12 DEF PortSound, KeptSound
  <2>5. \A i \in 1..Len(loop') : ~Backs(i, p)'
    BY <1>6, <1>7, <2>4
  <2>6. \A x : IsHeld(p, x)' <=> IsHeld(p, x) \/ x = m
    <3>0. 1..Len(Emitted(p)) = {} /\ 1..Len(Emitted(p)') = {}
      BY <1>5
    <3>1. /\ \A x : IsHeld(p, x)  <=> \E k \in 1..Len(queued[p]) : queued[p][k] = x
          /\ \A x : IsHeld(p, x)' <=> \E k \in 1..Len(queued'[p]) : queued'[p][k] = x
      BY <2>4, <2>5, <3>0, Zenon DEF IsHeld
    <3>2. 1..Len(queued'[p]) = 1..Len(queued[p]) \cup {Len(queued[p]) + 1}
      BY <1>5, <2>3
    <3> QED BY <2>3, <3>1, <3>2
  <2>7. KeptSound(p)'
    <3>1. \A k \in 1..Len(queued'[p]) : queued'[p][k] = k
      <4>1. \A k \in 1..Len(queued'[p]) : k \in 1..Len(queued[p]) \/ k = Len(queued[p]) + 1
        BY <1>5, <2>3
      <4> QED BY <1>5, <2>1, <2>3, <4>1 DEF PortSound, KeptSound
    <3> QED BY <1>5, <1>12, <2>2, <2>5, <3>1 DEF PortSound, KeptSound
  <2>8. ArrivedSound(p)'
    <3>1. ASSUME NEW x \in Messages, IsHeld(p, x)'
          PROVE  /\ x <= sent'[Peer(p)]
                 /\ \A i \in 1..Len(loop') : Comes(i, p)' => x < loop'[i].messages[1]
      BY <1>4, <1>5, <1>6, <1>7, <2>6, <3>1 DEF PortSound, ArrivedSound
    <3> QED BY <1>5, <2>2, <3>1 DEF PortSound, ArrivedSound
  <2>9. NoGap(p)'
    BY <1>5, <1>10, <2>2, <2>6 DEF PortSound, NoGap
  <2>10. InOrder(p)'
    BY <1>5, <2>2, <2>5 DEF PortSound, InOrder
  <2> QED BY <1>3, <1>11, <2>7, <2>8, <2>9, <2>10 DEF OrderInv, PortSound
<1>13. CASE started[p]
  <2>1. /\ queued' = queued /\ queued[p] = <<>> /\ received'[p] = received[p] \o <<m>>
    BY <1>4, <1>5, <1>13 DEF Deliver, Hears, TypeOK, PortSound, KeptSound
  <2>2. /\ Len(received'[p]) = Len(received[p]) + 1
        /\ received'[p][Len(received[p]) + 1] = m
        /\ \A k \in 1..Len(received[p]) : received'[p][k] = received[p][k]
    BY <1>5, <2>1
  <2>0. 1..Len(received'[p]) = 1..Len(received[p]) \cup {Len(received[p]) + 1}
    BY <1>5, <2>2
  <2>3. \A x : IsHeard(p, x)' <=> IsHeard(p, x) \/ x = m
    BY <2>0, <2>2 DEF IsHeard
  <2>4. \A x : IsHeld(p, x)' <=> IsHeld(p, x)
    <3>1. ASSUME NEW x, IsHeld(p, x) PROVE IsHeld(p, x)'
      <4>1. PICK i \in 1..Len(loop) :
              Backs(i, p) /\ \E k \in 1..Len(loop[i].messages) : loop[i].messages[k] = x
        BY <1>5, <2>1, <3>1 DEF IsHeld
      <4>2. i # 1
        BY <4>1 DEF Comes, Backs
      <4>3. i - 1 \in 1..Len(loop') /\ loop'[i - 1] = loop[i] /\ Backs(i - 1, p)'
        BY <1>6, <1>8, <4>1, <4>2
      <4> QED BY <4>1, <4>3 DEF IsHeld
    <3>2. ASSUME NEW x, IsHeld(p, x)' PROVE IsHeld(p, x)
      BY <1>5, <1>6, <1>7, <2>1, <3>2 DEF IsHeld
    <3> QED BY <3>1, <3>2
  <2>5. ~IsHeld(p, m) /\ ~IsHeard(p, m)
    BY <1>9 DEF Messages
  <2>6. KeptSound(p)'
    BY <1>5, <1>13, <2>1 DEF PortSound, KeptSound
  <2>7. Distinct(received'[p])
    <3>1. \A k \in 1..Len(received[p]) : received[p][k] # m
      BY <2>5 DEF IsHeard
    <3>2. \A i, j \in 1..Len(received[p]) : received[p][i] = received[p][j] => i = j
      BY <1>5 DEF Distinct, PortSound, ArrivedSound
    <3>3. \A k \in 1..Len(received'[p]) :
            k \in 1..Len(received[p]) \/ k = Len(received[p]) + 1
      BY <2>0
    <3> QED BY <2>2, <3>1, <3>2, <3>3 DEF Distinct
  <2>8. ArrivedSound(p)'
    <3>1. ASSUME NEW x \in Messages, IsHeld(p, x)' \/ IsHeard(p, x)'
          PROVE  /\ x <= sent'[Peer(p)]
                 /\ \A i \in 1..Len(loop') : Comes(i, p)' => x < loop'[i].messages[1]
      BY <1>4, <1>5, <1>6, <1>7, <2>3, <2>4, <3>1 DEF PortSound, ArrivedSound
    <3> QED BY <1>5, <2>3, <2>4, <2>5, <2>7, <3>1 DEF PortSound, ArrivedSound
  <2>9. NoGap(p)'
    BY <1>5, <1>10, <2>3, <2>4 DEF PortSound, NoGap
  <2>10. InOrder(p)'
    <3> SUFFICES ASSUME p \notin overtaken PROVE InOrder(p)'
      BY DEF InOrder
    <3>1. \A i \in 1..Len(loop) : ~Backs(i, p)
      <4>1. loop[1].owner \in exists
        BY FirstEvent
      <4>2. \A i \in 1..Len(loop) : ~(i < 1)
        BY <1>1
      <4> QED BY <1>1, <1>5, <4>1, <4>2 DEF PortSound, InOrder
    <3>2. \A x : ~IsHeld(p, x)
      BY <1>5, <2>1, <3>1 DEF IsHeld
    <3>3. m = Len(received[p]) + 1
      BY <1>4, <3>2, HearOrder
    <3>4. \A k \in 1..Len(received'[p]) : received'[p][k] = k
      BY <1>5, <2>0, <2>2, <3>3 DEF PortSound, InOrder
    <3>5. \A i \in 1..Len(loop') : ~Backs(i, p)'
      BY <1>6, <1>7, <3>1
    <3> QED BY <1>5, <3>4, <3>5 DEF InOrder
  <2> QED BY <1>3, <1>11, <2>6, <2>8, <2>9, <2>10 DEF OrderInv, PortSound
<1> QED BY <1>12, <1>13

\* The backlog's lambda, at an open port: from now on it is being emitted.
LEMMA BacklogOrder ==
  ASSUME PortInv, PortInv', OrderInv, loop # <<>>, loop' = Tail(loop), AtLoop,
         NEW p \in Ports, Backs(1, p),
         emitting' = [port |-> p, messages |-> loop[1].messages],
         UNCHANGED <<exists, open, started, queued, sent, received, overtaken>>
  PROVE  OrderInv'
<1> USE DEF PortInv
<1>1. /\ 1 \in 1..Len(loop) /\ Rest(Tail(loop), 1) /\ Len(loop) \in Nat
      /\ Sane(loop[1]) /\ loop[1].messages \in Seq(Messages)
      /\ \A i \in 1..Len(loop) : i = 1 \/ Apart(loop[1], loop[i])
  BY FirstEvent
<1>2. Onward
  <2>1. \A q \in Ports : sent[q] \in Nat
    BY PortParts
  <2> QED BY <2>1 DEF Onward
<1>3. LoopSound'
  BY <1>1, <1>2, LoopKeeps DEF OrderInv
<1>4. \A q \in Ports : Emitted(q) = <<>> /\ (q # p => Emitted(q)' = <<>>)
  BY DEF AtLoop, Emitted
<1>5. /\ Emitted(p)' = loop[1].messages
      /\ \A k \in 1..Len(loop[1].messages) : loop[1].messages[k] = k
      /\ started[p] /\ queued[p] = <<>>
      /\ Len(loop[1].messages) \in Nat
  BY <1>1 DEF Emitted, Sane, Backs, OrderInv, PortSound, KeptSound
<1>6. ASSUME NEW q \in Ports, q # p PROVE PortSound(q)'
  <2>1. Same(q)
    BY <1>4, <1>6 DEF Same
  <2>2. Shifts(q, 1)
    <3>1. ~Comes(1, q) /\ ~Backs(1, q)
      BY <1>6 DEF Comes, Backs
    <3> QED BY <1>1, <3>1, QueueShifts
  <2> QED BY <1>2, <2>1, <2>2, Undisturbed DEF OrderInv
<1>7. PortSound(p)'
  <2>0. PortSound(p)
    BY DEF OrderInv
  <2>1. /\ \A i \in 1..Len(loop') : i + 1 \in 1..Len(loop) /\ loop'[i] = loop[i + 1]
        /\ \A i \in 1..Len(loop) : i = 1 \/ (i - 1 \in 1..Len(loop') /\ loop'[i - 1] = loop[i])
    BY <1>1, Popped
  <2>2. \A i \in 1..Len(loop) : i = 1 \/ ~Backs(i, p)
    BY <1>1 DEF Apart, Backs
  <2>3. \A i \in 1..Len(loop') : ~Backs(i, p)' /\ (Comes(i, p)' => Comes(i + 1, p))
    <3>1. \A i \in 1..Len(loop') : i + 1 # 1
      BY <1>1, <2>1
    <3> QED BY <2>1, <2>2, <3>1 DEF Backs, Comes
  <2>4. \A x : IsHeard(p, x)' <=> IsHeard(p, x)
    BY DEF IsHeard
  <2>5. \A x : IsHeld(p, x)' <=> IsHeld(p, x)
    <3>0. 1..Len(Emitted(p)) = {} /\ 1..Len(queued[p]) = {} /\ queued' = queued
      BY <1>4, <1>5
    <3>1. \A x : IsHeld(p, x) <=>
                   \E k \in 1..Len(loop[1].messages) : loop[1].messages[k] = x
      BY <1>1, <2>2, <3>0 DEF IsHeld
    <3>2. \A x : IsHeld(p, x)' <=>
                   \E k \in 1..Len(loop[1].messages) : loop[1].messages[k] = x
      BY <1>5, <2>3, <3>0 DEF IsHeld
    <3> QED BY <3>1, <3>2
  <2>6. \A x : IsComing(p, x) => IsComing(p, x)'
    <3> SUFFICES ASSUME NEW x, NEW i \in 1..Len(loop), Comes(i, p), loop[i].messages[1] = x
                 PROVE  IsComing(p, x)'
      BY DEF IsComing
    <3>1. i - 1 \in 1..Len(loop') /\ loop'[i - 1] = loop[i]
      BY <2>1 DEF Comes, Backs
    <3>2. Comes(i - 1, p)'
      BY <3>1 DEF Comes
    <3> QED BY <3>1, <3>2 DEF IsComing
  <2>7. KeptSound(p)'
    <3>1. \A k \in 1..Len(Emitted(p)') : Emitted(p)'[k] = Emitted(p)'[1] + k - 1
      <4>1. ASSUME NEW k \in 1..Len(loop[1].messages)
            PROVE  loop[1].messages[k] = loop[1].messages[1] + k - 1
        <5>1. 1 \in 1..Len(loop[1].messages) /\ k \in Nat
          BY <1>5
        <5> QED BY <1>5, <5>1
      <4> QED BY <1>5, <4>1
    <3> QED BY <1>5, <2>0, <2>3, <3>1 DEF PortSound, KeptSound
  <2>8. ArrivedSound(p)'
    BY <2>0, <2>1, <2>3, <2>4, <2>5 DEF PortSound, ArrivedSound
  <2>9. NoGap(p)'
    BY <2>0, <2>4, <2>5, <2>6 DEF PortSound, NoGap
  <2>10. InOrder(p)'
    <3> SUFFICES ASSUME p \notin overtaken PROVE InOrder(p)'
      BY DEF InOrder
    <3>1. received[p] = <<>>
      BY <1>1, <2>0 DEF PortSound, InOrder
    <3>2. \A k \in 1..Len(Emitted(p)') : Emitted(p)'[k] = Len(received[p]) + k
      BY <1>5, <3>1
    <3> QED BY <2>0, <2>3, <3>2 DEF PortSound, InOrder
  <2> QED BY <2>7, <2>8, <2>9, <2>10 DEF PortSound
<1> QED BY <1>3, <1>6, <1>7 DEF OrderInv

\* One message of the backlog leaves it and is heard.
LEMMA EmitOrder ==
  ASSUME PortInv, PortInv', OrderInv, EmitNext
  PROVE  OrderInv'
<1> USE DEF PortInv
<1>1. PICK port \in Ports : port = emitting.port
  BY DEF TypeOK
<1>2. Onward
  <2>1. \A q \in Ports : sent[q] \in Nat
    BY PortParts
  <2> QED BY <2>1 DEF Onward, EmitNext
<1>3. loop' = loop /\ Rest(loop, 0)
  BY Rests DEF EmitNext
<1>4. LoopSound'
  BY <1>2, <1>3, LoopKeeps DEF OrderInv
<1>5. /\ Emitted(port) \in Seq(Messages) /\ Emitted(port) # <<>>
      /\ received[port] \in Seq(Messages)
      /\ Emitted(port)' = Tail(Emitted(port))
      /\ received'[port] = Append(received[port], Head(Emitted(port)))
      /\ \A q \in Ports : q # port => received'[q] = received[q] /\ Emitted(q)' = Emitted(q)
      /\ UNCHANGED <<exists, open, started, queued, loop, sent, overtaken>>
  BY <1>1 DEF EmitNext, AtLoop, Emitted, TypeOK
<1>6. ASSUME NEW q \in Ports, q # port PROVE PortSound(q)'
  <2>1. Same(q)
    BY <1>5, <1>6 DEF Same
  <2>2. Shifts(q, 0)
    BY <1>3, QueueShifts
  <2> QED BY <1>2, <2>1, <2>2, Undisturbed DEF OrderInv
<1>7. PortSound(port)'
  <2>0. PortSound(port)
    BY DEF OrderInv
  <2>1. PICK h \in Messages : h = Head(Emitted(port)) /\ h = Emitted(port)[1]
    BY <1>5
  <2>2. /\ Len(Emitted(port)) \in Nat \ {0} /\ Len(Emitted(port)') = Len(Emitted(port)) - 1
        /\ \A k \in 1..Len(Emitted(port)') :
             k + 1 \in 1..Len(Emitted(port)) /\ Emitted(port)'[k] = Emitted(port)[k + 1]
    BY <1>5
  <2>3. /\ Len(received[port]) \in Nat /\ Len(received'[port]) = Len(received[port]) + 1
        /\ received'[port][Len(received[port]) + 1] = h
        /\ \A k \in 1..Len(received[port]) : received'[port][k] = received[port][k]
    BY <1>5, <2>1
  <2>4. /\ started[port] /\ queued[port] = <<>>
        /\ \A i \in 1..Len(loop) : ~Backs(i, port) /\ ~Backs(i, port)'
    BY <1>5, <2>0 DEF PortSound, KeptSound, Backs
  <2>5. \A k \in 1..Len(Emitted(port)) : Emitted(port)[k] = h + k - 1
    BY <2>0, <2>1 DEF PortSound, KeptSound
  <2>6. 1..Len(received'[port]) = 1..Len(received[port]) \cup {Len(received[port]) + 1}
    BY <2>3
  <2>7. \A x : IsHeard(port, x)' <=> IsHeard(port, x) \/ x = h
    BY <2>3, <2>6 DEF IsHeard
  <2>8. /\ \A x : IsHeld(port, x) <=> \E k \in 1..Len(Emitted(port)) : Emitted(port)[k] = x
        /\ \A x : IsHeld(port, x)' <=> \E k \in 1..Len(Emitted(port)') : Emitted(port)'[k] = x
    <3>1. 1..Len(queued[port]) = {} /\ 1..Len(queued'[port]) = {} /\ loop' = loop
      BY <1>5, <2>4
    <3> QED BY <2>4, <3>1, Zenon DEF IsHeld
  <2>9. /\ IsHeld(port, h) /\ ~IsHeld(port, h)'
        /\ \A x : IsHeld(port, x)' => IsHeld(port, x)
        /\ \A x : IsHeld(port, x) => x = h \/ IsHeld(port, x)'
    <3>1. IsHeld(port, h)
      BY <2>1, <2>2, <2>8
    <3>2. ~IsHeld(port, h)'
      <4>1. \A k \in 1..Len(Emitted(port)') : Emitted(port)'[k] = h + k
        BY <2>2, <2>5
      <4>2. \A k \in 1..Len(Emitted(port)') : h + k # h
        BY <2>2 DEF Messages
      <4> QED BY <2>8, <4>1, <4>2
    <3>3. \A x : IsHeld(port, x)' => IsHeld(port, x)
      BY <2>2, <2>8
    <3>4. ASSUME NEW x, IsHeld(port, x), x # h PROVE IsHeld(port, x)'
      <4>1. PICK k \in 1..Len(Emitted(port)) : Emitted(port)[k] = x
        BY <2>8, <3>4
      <4>2. k # 1
        BY <2>1, <3>4, <4>1
      <4>3. k - 1 \in 1..Len(Emitted(port)') /\ Emitted(port)'[k - 1] = x
        BY <2>2, <4>1, <4>2
      <4> QED BY <2>8, <4>3
    <3> QED BY <3>1, <3>2, <3>3, <3>4
  <2>10. ~IsHeard(port, h)
    BY <2>0, <2>9 DEF PortSound, ArrivedSound
  <2>11. \A i \in 1..Len(loop) : Comes(i, port)' <=> Comes(i, port)
    BY <1>3 DEF Comes
  <2>12. KeptSound(port)'
    <3>1. ASSUME NEW k \in 1..Len(Emitted(port)')
          PROVE  Emitted(port)'[k] = Emitted(port)'[1] + k - 1
      <4>1. 1 \in 1..Len(Emitted(port)') /\ k \in Nat
        BY <2>2
      <4>2. Emitted(port)'[k] = h + k /\ Emitted(port)'[1] = h + 1
        BY <2>2, <2>5, <4>1
      <4> QED BY <4>1, <4>2 DEF Messages
    <3> QED BY <1>3, <1>5, <2>0, <2>4, <3>1 DEF PortSound, KeptSound
  <2>13. Distinct(received'[port])
    <3>1. \A k \in 1..Len(received[port]) : received[port][k] # h
      BY <2>10 DEF IsHeard
    <3>2. \A i, j \in 1..Len(received[port]) :
            received[port][i] = received[port][j] => i = j
      BY <2>0 DEF Distinct, PortSound, ArrivedSound
    <3>3. \A k \in 1..Len(received'[port]) :
            k \in 1..Len(received[port]) \/ k = Len(received[port]) + 1
      BY <2>6
    <3> QED BY <2>3, <3>1, <3>2, <3>3 DEF Distinct
  <2>14. ArrivedSound(port)'
    BY <1>3, <1>5, <2>0, <2>7, <2>9, <2>10, <2>11, <2>13 DEF PortSound, ArrivedSound
  <2>15. NoGap(port)'
    <3>1. \A x : IsComing(port, x) => IsComing(port, x)'
      BY <1>3, <2>11 DEF IsComing
    <3> QED BY <1>5, <2>0, <2>7, <2>9, <3>1 DEF PortSound, NoGap
  <2>16. InOrder(port)'
    <3> SUFFICES ASSUME port \notin overtaken PROVE InOrder(port)'
      BY <1>5 DEF InOrder
    <3>1. h = Len(received[port]) + 1
      BY <2>0, <2>1, <2>2 DEF PortSound, InOrder
    <3>2. \A k \in 1..Len(received'[port]) : received'[port][k] = k
      BY <2>0, <2>3, <2>6, <3>1 DEF PortSound, InOrder
    <3>3. \A k \in 1..Len(Emitted(port)') : Emitted(port)'[k] = Len(received'[port]) + k
      <4>1. \A k \in 1..Len(Emitted(port)') : Emitted(port)'[k] = h + (k + 1) - 1
        BY <2>2, <2>5
      <4> QED BY <2>2, <2>3, <3>1, <4>1
    <3> QED BY <1>3, <2>4, <3>2, <3>3 DEF InOrder
  <2> QED BY <2>12, <2>14, <2>15, <2>16 DEF PortSound
<1> QED BY <1>4, <1>6, <1>7 DEF OrderInv

\* A lambda of the loop, whichever it is.
LEMMA RunOrder ==
  ASSUME PortInv, PortInv', OrderInv, RunEvent
  PROVE  OrderInv'
<1> USE DEF PortInv
<1>1. AtLoop /\ loop # <<>> /\ UNCHANGED <<exists, started, sent, overtaken>>
  BY DEF RunEvent
<1>2. /\ Head(loop) = loop[1] /\ Sane(loop[1]) /\ Rest(Tail(loop), 1)
      /\ loop[1].to \in Ports /\ loop[1].owner \in Ports
  BY <1>1, FirstEvent
<1>3. PICK p \in Ports : p = loop[1].to
  BY <1>2
<1>4. Ports = {p, Peer(p)} /\ exists \subseteq Ports
  BY PortParts DEF TypeOK
<1>5. CASE /\ loop[1].owner \in exists /\ p \in exists /\ loop[1].kind = "deliver"
           /\ Deliver(p, loop[1].messages) /\ loop' = Tail(loop)
           /\ UNCHANGED <<emitting, open, signals, closedBy>>
  <2>1. Comes(1, p) /\ exists = Ports
    BY <1>2, <1>3, <1>4, <1>5 DEF Comes, Sane
  <2>2. CASE open[p]
    BY <1>1, <1>5, <2>1, <2>2, DeliverOrder
  <2>3. CASE ~open[p]
    <3>1. UNCHANGED <<queued, received>>
      BY <1>5, <2>3 DEF Deliver, Hears
    <3> QED BY <1>1, <1>3, <1>5, <2>3, <3>1, DropOrder
  <2> QED BY <2>2, <2>3
<1>6. CASE /\ loop[1].kind = "backlog" /\ loop' = Tail(loop)
           /\ emitting' = [port |-> p, messages |-> loop[1].messages]
           /\ UNCHANGED <<received, queued, open, signals, closedBy>>
  <2>1. Backs(1, p)
    BY <1>3, <1>6 DEF Backs
  <2> QED BY <1>1, <1>6, <2>1, BacklogOrder
<1>7. CASE /\ loop[1].kind = "close" /\ ClosePort(p, "peer", Tail(loop))
           /\ UNCHANGED <<emitting, queued, received>>
  BY <1>1, <1>2, <1>7, CloseOrder
<1>8. CASE /\ \/ ~(loop[1].owner \in exists /\ p \in exists)
              \/ loop[1].kind = "backlog" /\ ~open[p]
              \/ loop[1].kind = "close"
           /\ loop' = Tail(loop)
           /\ UNCHANGED <<emitting, queued, received, open, signals, closedBy>>
  <2>1. loop[1].kind # "close" => ~(open[loop[1].to] /\ exists = Ports)
    BY <1>2, <1>3, <1>8
  <2> QED BY <1>1, <1>8, <2>1, DropOrder
<1> QED BY <1>2, <1>3, <1>5, <1>6, <1>7, <1>8 DEF RunEvent

LEMMA OrderStep ==
  ASSUME PortInv, PortInv', OrderInv, [Next]_vars
  PROVE  OrderInv'
<1>1. ASSUME NEW p \in Ports, Close(p) PROVE OrderInv'
  BY <1>1, Rests, CloseOrder DEF Close, PortInv
<1>2. CASE UNCHANGED vars
  <2>1. UNCHANGED <<exists, open, started, queued, loop, emitting, sent, received, overtaken>>
    BY <1>2 DEF vars
  <2> QED BY <2>1 DEF OrderInv, LoopSound, Sane, PortSound, KeptSound, ArrivedSound, NoGap,
                      InOrder, Comes, Backs, Emitted, IsComing, IsHeld, IsHeard
<1> QED BY <1>1, <1>2, PostOrder, StartOrder, DeleteOrder, RunOrder, EmitOrder
        DEF Next, PortInv

\* The inductive invariant of order and completeness.
THEOREM PortsInOrder == Spec => [](PortInv /\ OrderInv)
<1>1. Init => PortInv /\ OrderInv
  <2> SUFFICES ASSUME Init PROVE PortInv /\ OrderInv
    OBVIOUS
  <2>1. PortInv
    BY InitPorts
  <2>2. /\ 1..Len(loop) = {} /\ \A p \in Ports : sent[p] = 0 /\ Len(received[p]) = 0
        /\ \A p \in Ports : Emitted(p) = <<>> /\ queued[p] = <<>> /\ received[p] = <<>>
    BY PeerIsPort DEF Init, Emitted
  <2>3. LoopSound
    BY <2>2 DEF LoopSound
  <2>4. ASSUME NEW p \in Ports PROVE PortSound(p)
    <3>1. \A m : ~IsHeld(p, m) /\ ~IsHeard(p, m)
      BY <2>2 DEF IsHeld, IsHeard
    <3>2. NoGap(p)
      BY <2>2, PeerIsPort DEF NoGap
    <3>3. KeptSound(p) /\ ArrivedSound(p) /\ InOrder(p)
      BY <2>2, <3>1 DEF KeptSound, ArrivedSound, InOrder, Distinct
    <3> QED BY <3>2, <3>3 DEF PortSound
  <2> QED BY <2>1, <2>3, <2>4 DEF OrderInv
<1>2. PortInv /\ OrderInv /\ [Next]_vars => (PortInv /\ OrderInv)'
  BY PortStepInv, OrderStep
<1> QED BY <1>1, <1>2, PTL DEF Spec

-----------------------------------------------------------------------------
\* The sets of the properties, by their members.
LEMMA Places ==
  ASSUME TypeOK, LoopSound, NEW p \in Ports
  PROVE  /\ \A m : m \in Heard(p) <=> IsHeard(p, m)
         /\ exists = Ports => /\ \A m : m \in InLoop("deliver", p) <=> IsComing(p, m)
                              /\ \A m : m \in Held(p) <=> IsHeld(p, m)
<1>1. \A m : m \in Heard(p) <=> IsHeard(p, m)
  BY DEF Heard, Elements, IsHeard
<1>2. ASSUME exists = Ports
      PROVE  \A m : m \in InLoop("deliver", p) <=> IsComing(p, m)
  <2>1. \A i \in 1..Len(loop) :
          /\ loop[i].owner \in exists
          /\ Comes(i, p) => \A m : m \in Elements(loop[i].messages) <=> loop[i].messages[1] = m
    <3>1. ASSUME NEW i \in 1..Len(loop), Comes(i, p), NEW m
          PROVE  m \in Elements(loop[i].messages) <=> loop[i].messages[1] = m
      <4>1. Len(loop[i].messages) = 1
        BY <3>1 DEF LoopSound, Sane, Comes
      <4> QED BY <4>1 DEF Elements
    <3> QED BY <1>2, <3>1, PortParts
  <2>2. \A m : m \in InLoop("deliver", p) <=>
                 \E i \in 1..Len(loop) : Comes(i, p) /\ m \in Elements(loop[i].messages)
    BY <2>1 DEF InLoop, Comes
  <2> QED BY <2>1, <2>2, Zenon DEF IsComing
<1>3. ASSUME exists = Ports
      PROVE  \A m : m \in Held(p) <=> IsHeld(p, m)
  <2>1. \A i \in 1..Len(loop) : loop[i].owner \in exists
    BY <1>3, PortParts
  <2>2. \A m : m \in InLoop("backlog", p) <=>
                 \E i \in 1..Len(loop) :
                   Backs(i, p) /\ \E k \in 1..Len(loop[i].messages) : loop[i].messages[k] = m
    BY <2>1 DEF InLoop, Elements, Backs
  <2>3. \A m : m \in BeingEmitted(p) <=> \E k \in 1..Len(Emitted(p)) : Emitted(p)[k] = m
    BY DEF BeingEmitted, Emitted, Elements
  <2>4. \A m : m \in Elements(queued[p]) <=> \E k \in 1..Len(queued[p]) : queued[p][k] = m
    BY DEF Elements
  <2> QED BY <2>2, <2>3, <2>4, Zenon DEF Held, Released, IsHeld
<1> QED BY <1>1, <1>2, <1>3

\* Whatever is coming, held or heard was posted.
LEMMA AllPosted ==
  ASSUME PortInv, OrderInv, NEW p \in Ports, NEW m,
         IsComing(p, m) \/ IsHeld(p, m) \/ IsHeard(p, m)
  PROVE  m \in 1..sent[Peer(p)]
<1>1. sent[Peer(p)] \in Nat
  BY PortParts DEF PortInv
<1>2. CASE IsComing(p, m)
  <2>1. PICK i \in 1..Len(loop) : Comes(i, p) /\ loop[i].messages[1] = m
    BY <1>2 DEF IsComing
  <2>2. /\ Len(loop[i].messages) = 1 /\ m <= sent[Peer(p)]
        /\ loop[i].messages \in Seq(Messages)
    BY <2>1, PortParts DEF PortInv, OrderInv, LoopSound, Sane, Comes
  <2>3. m \in Messages
    BY <2>1, <2>2
  <2> QED BY <1>1, <2>2, <2>3 DEF Messages
<1>3. CASE IsHeld(p, m) \/ IsHeard(p, m)
  <2>1. m \in Messages
    BY <1>3, PortParts DEF PortInv, IsHeld, IsHeard
  <2> QED BY <1>1, <1>3, <2>1 DEF OrderInv, PortSound, ArrivedSound, Messages
<1> QED BY <1>2, <1>3

\* While both ends are alive and a port is open, every message posted to it is in
\* one place: in a lambda, held back by the port, or heard, once.
THEOREM NothingIsLost == DeviceSpec => []NothingLostOrDoubled
<1>1. ASSUME PortInv, OrderInv PROVE NothingLostOrDoubled
  <2> SUFFICES ASSUME NEW p \in Ports, open[p], exists = Ports
               PROVE  /\ InLoop("deliver", p) \cup Held(p) \cup Heard(p) = 1..sent[Peer(p)]
                      /\ InLoop("deliver", p) \cap (Held(p) \cup Heard(p)) = {}
                      /\ Held(p) \cap Heard(p) = {}
                      /\ Distinct(received[p])
    BY DEF NothingLostOrDoubled
  <2>1. /\ \A m : m \in InLoop("deliver", p) <=> IsComing(p, m)
        /\ \A m : m \in Held(p) <=> IsHeld(p, m)
        /\ \A m : m \in Heard(p) <=> IsHeard(p, m)
    BY <1>1, Places DEF PortInv, OrderInv
  <2>2. \A m \in 1..sent[Peer(p)] : IsComing(p, m) \/ IsHeld(p, m) \/ IsHeard(p, m)
    BY <1>1 DEF OrderInv, PortSound, NoGap
  <2>3. \A m : IsComing(p, m) \/ IsHeld(p, m) \/ IsHeard(p, m) => m \in 1..sent[Peer(p)]
    BY <1>1, AllPosted
  <2>4. 1..sent[Peer(p)] \subseteq Messages
    <3>1. sent[Peer(p)] \in 0..MaxPosts
      BY <1>1, PeerIsPort DEF PortInv, TypeOK
    <3> QED BY <3>1, PortAssumptions DEF Messages
  <2>5. \A m : ~(IsHeld(p, m) /\ IsHeard(p, m))
    BY <1>1, <2>3, <2>4 DEF OrderInv, PortSound, ArrivedSound
  <2>6. \A m : ~(IsComing(p, m) /\ (IsHeld(p, m) \/ IsHeard(p, m)))
    <3> SUFFICES ASSUME NEW m, IsComing(p, m), IsHeld(p, m) \/ IsHeard(p, m) PROVE FALSE
      OBVIOUS
    <3>1. m \in Messages
      BY <2>3, <2>4
    <3>2. m < m
      BY <1>1, <3>1 DEF IsComing, OrderInv, PortSound, ArrivedSound
    <3> QED BY <3>1, <3>2 DEF Messages
  <2>7. Distinct(received[p])
    BY <1>1 DEF OrderInv, PortSound, ArrivedSound
  <2> QED BY <2>1, <2>2, <2>3, <2>5, <2>6, <2>7
<1> QED BY <1>1, PortsInOrder, PortsUnderDevices, PTL

\* Messages arrive in the order they were posted, except at a port started over a
\* backlog with more messages in the loop.
THEOREM KeepsOrder == DeviceSpec => []OrderedUnlessOvertaken
<1>1. ASSUME PortInv, OrderInv PROVE OrderedUnlessOvertaken
  <2> SUFFICES ASSUME NEW p \in Ports \ overtaken PROVE Increasing(received[p])
    BY DEF OrderedUnlessOvertaken
  <2>1. \A k \in 1..Len(received[p]) : received[p][k] = k
    BY <1>1 DEF OrderInv, PortSound, InOrder
  <2> QED BY <2>1 DEF Increasing
<1> QED BY <1>1, PortsInOrder, PortsUnderDevices, PTL

\* When a peer's close() reaches a port, everything the peer said was heard or is
\* held by the port's late start().
THEOREM ClosesLast == DeviceSpec => CloseComesLast
<1>1. ASSUME PortInv, OrderInv, [Next]_vars, NEW p \in Ports,
             closedBy'[p] = "peer", closedBy[p] # "peer"
      PROVE  Heard(p) \cup Held(p) = 1..sent[Peer(p)]
  <2>1. closedBy' # closedBy
    BY <1>1
  <2>2. ~\E q \in Ports : Post(q) \/ Start(q) \/ Delete(q)
    BY <2>1 DEF Post, Start, Delete
  <2>3. ~\E q \in Ports : Close(q)
    BY <1>1 DEF Close, ClosePort, PortInv, TypeOK
  <2>4. RunEvent
    BY <1>1, <2>1, <2>2, <2>3 DEF Next, EmitNext, vars
  <2>5. /\ Head(loop).owner \in exists /\ Head(loop).to \in exists
        /\ Head(loop).kind = "close" /\ open[Head(loop).to]
        /\ ClosePort(Head(loop).to, "peer", Tail(loop)) /\ loop # <<>>
    BY <2>1, <2>4 DEF RunEvent, MayClose
  <2>6. /\ 1 \in 1..Len(loop) /\ Head(loop) = loop[1] /\ Sane(loop[1])
        /\ loop[1].to \in Ports
        /\ \A i \in 1..Len(loop) : i = 1 \/ Apart(loop[1], loop[i])
    BY <1>1, <2>5, FirstEvent DEF PortInv
  <2>7. loop[1].to = p
    BY <1>1, <2>5, <2>6 DEF ClosePort, PortInv, TypeOK
  <2>8. open[p] /\ exists = Ports
    <3>1. loop[1].owner = Peer(p)
      BY <2>5, <2>6, <2>7 DEF Sane
    <3>2. Ports = {p, Peer(p)} /\ exists \subseteq Ports
      BY <1>1, PortParts DEF PortInv, TypeOK
    <3> QED BY <2>5, <2>6, <2>7, <3>1, <3>2
  <2>9. \A m : ~IsComing(p, m)
    BY <2>5, <2>6, <2>7 DEF IsComing, Comes, Apart
  <2>10. \A m \in 1..sent[Peer(p)] : IsHeld(p, m) \/ IsHeard(p, m)
    BY <1>1, <2>8, <2>9 DEF OrderInv, PortSound, NoGap
  <2>11. \A m : IsHeld(p, m) \/ IsHeard(p, m) => m \in 1..sent[Peer(p)]
    BY <1>1, AllPosted
  <2>12. /\ \A m : m \in Held(p) <=> IsHeld(p, m)
         /\ \A m : m \in Heard(p) <=> IsHeard(p, m)
    BY <1>1, <2>8, Places DEF PortInv, OrderInv
  <2> QED BY <2>10, <2>11, <2>12
<1>2. PortInv /\ OrderInv /\ [Next]_vars =>
        [\A p \in Ports :
           closedBy'[p] = "peer" /\ closedBy[p] # "peer" =>
             Heard(p) \cup Held(p) = 1..sent[Peer(p)]]_vars
  BY <1>1
<1> QED BY <1>2, PortsInOrder, PortsUnderDevices, PTL DEF Spec, CloseComesLast

-----------------------------------------------------------------------------
(***************************************************************************)
(* The byte stream of a device.                                            *)
(***************************************************************************)

\* A set of naturals that is not empty has a least member.
LEMMA Least ==
  ASSUME NEW T, T \subseteq Nat, T # {}
  PROVE  \E n \in T : \A k \in T : n <= k
<1>1. PICK n \in T : \A k \in T : ~(<<k, n>> \in OpToRel(<, Nat))
  BY NatLessThanWellFounded, WFMin, Zenon
<1>2. \A k \in T : <<k, n>> \in Nat \X Nat /\ <<k, n>>[1] = k /\ <<k, n>>[2] = n
  OBVIOUS
<1>3. \A k \in T : ~(k < n)
  BY <1>1, <1>2, Zenon DEF OpToRel
<1> QED BY <1>3

\* The recursive definition of Stream, as far as the n-th message.
Unfolds(f, n) == f = [k \in 0..n |-> IF k = 0 THEN <<>> ELSE f[k - 1] \o Bytes(k)]

\* There is such a function as far as any n: else the least n without one follows
\* one that has one, which one more value extends.
LEMMA StreamUpTo == \A n \in Nat : \E f : Unfolds(f, n)
<1> DEFINE Missing == {n \in Nat : ~\E f : Unfolds(f, n)}
<1> SUFFICES ASSUME Missing # {} PROVE FALSE
  OBVIOUS
<1>1. PICK n \in Missing : \A k \in Missing : n <= k
  BY Least
<1> HIDE DEF Missing
<1>2. n \in Nat /\ ~\E f : Unfolds(f, n)
  BY <1>1 DEF Missing
<1>3. CASE n = 0
  <2> DEFINE f == [k \in 0..0 |-> <<>>]
  <2>1. f = [k \in 0..0 |-> IF k = 0 THEN <<>> ELSE f[k - 1] \o Bytes(k)]
    OBVIOUS
  <2> QED BY <1>2, <1>3, <2>1 DEF Unfolds
<1>4. CASE n # 0
  <2>1. n - 1 \in Nat /\ n - 1 \notin Missing
    BY <1>1, <1>2, <1>4
  <2>2. PICK f : Unfolds(f, n - 1)
    BY <2>1 DEF Missing
  <2> DEFINE g == [k \in 0..n |-> IF k = 0 THEN <<>> ELSE f[k - 1] \o Bytes(k)]
  <2>3. \A k \in 0..(n - 1) : f[k] = IF k = 0 THEN <<>> ELSE f[k - 1] \o Bytes(k)
    BY <2>2, <2>1 DEF Unfolds
  <2>4. \A k \in 0..(n - 1) : g[k] = f[k]
    BY <2>3, <1>2
  <2>5. \A k \in 0..n : k # 0 => k - 1 \in 0..(n - 1)
    BY <1>2
  <2>6. \A k \in 0..n : (IF k = 0 THEN <<>> ELSE f[k - 1] \o Bytes(k))
                         = (IF k = 0 THEN <<>> ELSE g[k - 1] \o Bytes(k))
    <3> HIDE DEF g
    <3> QED BY <2>4, <2>5
  <2>7. g = [k \in 0..n |-> IF k = 0 THEN <<>> ELSE g[k - 1] \o Bytes(k)]
    BY <2>6, Zenon
  <2> QED BY <1>2, <2>7 DEF Unfolds
<1> QED BY <1>3, <1>4

\* Stream is what its definition says.
LEMMA StreamUnfolds ==
  /\ Stream[0] = <<>>
  /\ \A n \in 1..MaxPosts : Stream[n] = Stream[n - 1] \o Bytes(n)
<1>1. Unfolds(Stream, MaxPosts)
  BY StreamUpTo, PortAssumptions DEF Stream, Unfolds
<1>2. \A k \in 0..MaxPosts : Stream[k] = IF k = 0 THEN <<>> ELSE Stream[k - 1] \o Bytes(k)
  BY <1>1, Zenon DEF Unfolds
<1> HIDE DEF Stream
<1>3. /\ 0 \in 0..MaxPosts
      /\ \A n \in 1..MaxPosts : n \in 0..MaxPosts /\ n # 0
  BY PortAssumptions
<1> QED BY <1>2, <1>3, Zenon

\* A byte: its message and its place there.
Byte == Messages \X Nat

\* What is read at a device, and what is left to read, are typed, and are the
\* bytes of the messages its port heard, unless that port was overtaken.  There
\* is a device as soon as the port is started, so it misses none of them.
DeviceSound(p) ==
  /\ readPos[p] \in 0..Len(buffer[p])
  /\ device[p] = "none" <=> ~started[p]
  /\ device[p] = "none" => buffer[p] = <<>> /\ taken[p] = <<>>
  /\ p \notin overtaken => taken[p] \o Unread(p) = Stream[Len(received[p])]

DeviceInv ==
  /\ device \in [Devices -> {"none", "open", "closed"}]
  /\ buffer \in [Devices -> Seq(Byte)]
  /\ readPos \in [Devices -> Nat]
  /\ taken \in [Devices -> Seq(Byte)]
  /\ \A p \in Devices : DeviceSound(p)

\* The bytes of a message are a sequence of bytes.
LEMMA BytesTyped ==
  ASSUME NEW m \in Messages
  PROVE  Bytes(m) \in Seq(Byte)
<1>1. Size[m] \in Nat
  BY DeviceAssumptions
<1>2. \A i \in 1..Size[m] : <<m, i>> \in Byte
  BY <1>1 DEF Byte
<1> QED BY <1>1, <1>2 DEF Bytes

\* What is left to read of a buffer, when bytes are added to it.
LEMMA UnreadGrows ==
  ASSUME NEW S, NEW b \in Seq(S), NEW w \in Seq(S), NEW pos \in 0..Len(b)
  PROVE  SubSeq(b \o w, pos + 1, Len(b \o w)) = SubSeq(b, pos + 1, Len(b)) \o w
<1> DEFINE l == SubSeq(b \o w, pos + 1, Len(b \o w))
           r == SubSeq(b, pos + 1, Len(b)) \o w
<1>1. Len(l) = Len(b) + Len(w) - pos /\ Len(r) = Len(b) + Len(w) - pos
  OBVIOUS
<1>2. l \in Seq(S) /\ r \in Seq(S)
  OBVIOUS
<1>3. \A i \in 1..(Len(b) + Len(w) - pos) : l[i] = (b \o w)[pos + i]
  OBVIOUS
<1>4. \A i \in 1..(Len(b) + Len(w) - pos) : r[i] = (b \o w)[pos + i]
  OBVIOUS
<1> HIDE DEF l, r
<1>5. l = r
  BY <1>1, <1>2, <1>3, <1>4, SeqEqual
<1> QED BY <1>5 DEF l, r

\* A sequence is its first k elements and the others.
LEMMA SplitAt ==
  ASSUME NEW S, NEW u \in Seq(S), NEW k \in 0..Len(u)
  PROVE  /\ SubSeq(u, 1, k) \in Seq(S) /\ SubSeq(u, k + 1, Len(u)) \in Seq(S)
         /\ SubSeq(u, 1, k) \o SubSeq(u, k + 1, Len(u)) = u
<1>1. /\ SubSeq(u, 1, k) \in Seq(S) /\ SubSeq(u, k + 1, Len(u)) \in Seq(S)
      /\ SubSeq(u, 1, Len(u)) = u
  OBVIOUS
<1>2. 1 \in 1..(Len(u) + 1) /\ k \in (1 - 1)..Len(u) /\ Len(u) \in k..Len(u)
  OBVIOUS
<1>3. SubSeq(u, 1, k) \o SubSeq(u, k + 1, Len(u)) = SubSeq(u, 1, Len(u))
  BY <1>2, ConcatAdjacentSubSeq, Zenon
<1> QED BY <1>1, <1>3

\* Skipping twice.
LEMMA SkipSkip ==
  ASSUME NEW S, NEW b \in Seq(S), NEW pos \in 0..Len(b), NEW k \in 0..(Len(b) - pos)
  PROVE  SubSeq(SubSeq(b, pos + 1, Len(b)), k + 1, Len(b) - pos)
           = SubSeq(b, pos + k + 1, Len(b))
<1> DEFINE u == SubSeq(b, pos + 1, Len(b))
           l == SubSeq(u, k + 1, Len(b) - pos)
           r == SubSeq(b, pos + k + 1, Len(b))
<1>1. u \in Seq(S) /\ Len(u) = Len(b) - pos /\ \A i \in 1..Len(u) : u[i] = b[pos + i]
  OBVIOUS
<1>2. r \in Seq(S) /\ Len(r) = Len(b) - pos - k /\ \A i \in 1..Len(r) : r[i] = b[pos + k + i]
  OBVIOUS
<1> HIDE DEF u, r
<1>3. l \in Seq(S) /\ Len(l) = Len(b) - pos - k /\ \A i \in 1..Len(l) : l[i] = u[k + i]
  <2>1. /\ k + 1 \in Int /\ Len(b) - pos \in Int /\ k \in Nat
        /\ \A i \in (k + 1)..(Len(b) - pos) : i \in 1..Len(u)
    BY <1>1
  <2>2. \A i \in (k + 1)..(Len(b) - pos) : u[i] \in S
    BY <1>1, <2>1
  <2>3. /\ l \in Seq(S)
        /\ Len(l) = IF k + 1 <= Len(b) - pos THEN Len(b) - pos - (k + 1) + 1 ELSE 0
        /\ \A i \in 1..(Len(b) - pos - (k + 1) + 1) : l[i] = u[k + 1 + i - 1]
    BY <2>1, <2>2, SubSeqProperties
  <2> QED BY <2>1, <2>3
<1> HIDE DEF l
<1>4. ASSUME NEW i \in 1..Len(l) PROVE l[i] = r[i]
  <2>1. k + i \in 1..Len(u) /\ i \in 1..Len(r)
    BY <1>1, <1>2, <1>3
  <2>2. l[i] = u[k + i] /\ u[k + i] = b[pos + (k + i)] /\ r[i] = b[pos + k + i]
    BY <1>1, <1>2, <1>3, <2>1
  <2>3. pos + (k + i) = pos + k + i
    BY <2>1
  <2> QED BY <2>2, <2>3
<1>5. l = r
  BY <1>2, <1>3, <1>4, SeqEqual
<1> QED BY <1>5 DEF l, u, r

\* Dropping a drained buffer changes nothing of what is left to read.
LEMMA ReclaimKeeps ==
  ASSUME NEW S, NEW b \in Seq(S), NEW at \in 0..Len(b)
  PROVE  /\ Reclaim(b, at).buffer \in Seq(S)
         /\ Reclaim(b, at).readPos \in 0..Len(Reclaim(b, at).buffer)
         /\ SubSeq(Reclaim(b, at).buffer, Reclaim(b, at).readPos + 1,
                   Len(Reclaim(b, at).buffer)) = SubSeq(b, at + 1, Len(b))
<1>1. CASE at = Len(b)
  <2>1. /\ Reclaim(b, at).buffer = <<>> /\ Reclaim(b, at).readPos = 0
        /\ Len(<<>>) = 0 /\ <<>> \in Seq(S) /\ 0 \in 0..0
    BY <1>1 DEF Reclaim
  <2>2. SubSeq(b, at + 1, Len(b)) = <<>> /\ SubSeq(<<>>, 0 + 1, 0) = <<>>
    BY <1>1, SubSeqEmpty
  <2> QED BY <2>1, <2>2, Zenon
<1>2. CASE at # Len(b)
  <2>1. Reclaim(b, at).buffer = b /\ Reclaim(b, at).readPos = at
    BY <1>2 DEF Reclaim
  <2> QED BY <2>1, Zenon
<1> QED BY <1>1, <1>2

\* What is read and what is left, of what was there.
LEMMA ReadSplits ==
  ASSUME NEW S, NEW b \in Seq(S), NEW pos \in 0..Len(b), NEW k \in 0..(Len(b) - pos)
  PROVE  /\ SubSeq(SubSeq(b, pos + 1, Len(b)), 1, k) \in Seq(S)
         /\ SubSeq(b, pos + k + 1, Len(b)) \in Seq(S)
         /\ SubSeq(SubSeq(b, pos + 1, Len(b)), 1, k) \o SubSeq(b, pos + k + 1, Len(b))
              = SubSeq(b, pos + 1, Len(b))
<1>1. PICK u : u = SubSeq(b, pos + 1, Len(b))
  OBVIOUS
<1>2. u \in Seq(S) /\ Len(u) = Len(b) - pos
  BY <1>1
<1>3. SubSeq(b, pos + k + 1, Len(b)) = SubSeq(u, k + 1, Len(u))
  BY <1>1, <1>2, SkipSkip
<1>4. k \in 0..Len(u)
  BY <1>2
<1>5. /\ SubSeq(u, 1, k) \in Seq(S) /\ SubSeq(u, k + 1, Len(u)) \in Seq(S)
      /\ SubSeq(u, 1, k) \o SubSeq(u, k + 1, Len(u)) = u
  BY <1>2, <1>4, SplitAt
<1> QED BY <1>1, <1>3, <1>5, Zenon

\* A step of the ports lets each of them hear one message at most.
LEMMA OneAtATime ==
  ASSUME PortInv, OrderInv, [Next]_vars, NEW p \in Ports
  PROVE  \/ received'[p] = received[p]
         \/ started[p] /\ \E m \in Messages : received'[p] = Append(received[p], m)
<1>1. received[p] \in Seq(Messages)
  BY PortParts DEF PortInv
<1>2. CASE EmitNext
  <2>1. emitting.messages # <<>> /\ emitting.messages \in Seq(Messages)
    BY <1>2 DEF EmitNext, AtLoop, PortInv, TypeOK
  <2>2. CASE emitting.port = p
    <3>1. Head(emitting.messages) \in Messages
      BY <2>1
    <3>2. received'[p] = Append(received[p], Head(emitting.messages))
      BY <1>2, <2>2 DEF EmitNext, PortInv, TypeOK
    <3>3. started[p]
      BY <2>1, <2>2 DEF OrderInv, PortSound, KeptSound, Emitted
    <3> QED BY <3>1, <3>2, <3>3
  <2>3. CASE emitting.port # p
    BY <1>2, <2>3 DEF EmitNext, PortInv, TypeOK
  <2> QED BY <2>2, <2>3
<1>3. CASE RunEvent /\ received' # received
  <2>1. /\ loop # <<>> /\ Deliver(Head(loop).to, Head(loop).messages)
        /\ Head(loop).kind = "deliver"
    BY <1>3 DEF RunEvent
  <2>2. /\ Head(loop) = loop[1] /\ Sane(loop[1]) /\ 1 \in 1..Len(loop)
    BY <2>1, FirstEvent DEF PortInv
  <2>3. loop[1].messages \in Seq(Messages) /\ Len(loop[1].messages) = 1
    BY <2>1, <2>2, PortParts DEF PortInv, Sane
  <2>4. received' = [received EXCEPT ![loop[1].to] = @ \o loop[1].messages]
        /\ started[loop[1].to]
    BY <1>3, <2>1, <2>2 DEF Deliver, Hears
  <2>5. PICK m \in Messages : loop[1].messages = <<m>>
    <3>1. loop[1].messages[1] \in Messages /\ loop[1].messages = <<loop[1].messages[1]>>
      BY <2>3
    <3> QED BY <3>1
  <2>6. received[p] \o <<m>> = Append(received[p], m)
    BY <1>1
  <2> QED BY <2>4, <2>5, <2>6 DEF PortInv, TypeOK
<1>4. CASE received' = received
  BY <1>4
<1>5. EmitNext \/ RunEvent \/ received' = received
  BY DEF Next, vars, Post, Start, Close, Delete
<1> QED BY <1>2, <1>3, <1>4, <1>5

\* A port stays overtaken.
LEMMA OvertakenStays == [Next]_vars => overtaken \subseteq overtaken'
BY DEF Next, vars, Post, Start, Close, Delete, RunEvent, EmitNext

\* Only start() starts a port.
LEMMA StartedBy ==
  ASSUME PortInv, [Next]_vars, NEW p \in Ports, started'[p] # started[p]
  PROVE  Start(p)
<1>1. PICK q \in Ports : Start(q)
  BY DEF Next, vars, Post, Close, Delete, RunEvent, EmitNext
<1> QED BY <1>1 DEF Start, PortInv, TypeOK

\* A slot of readyRead() has not run: the cursor and what was read are as before.
LEMMA PortStepDevice ==
  ASSUME PortInv, OrderInv, PortInv', OrderInv', DeviceInv, PortStep
  PROVE  DeviceInv'
<1>1. [Next]_vars
  BY DEF PortStep, Next
<1>2. \A p \in Devices : p \in Ports
  BY DeviceAssumptions
<1>3. /\ readPos' = readPos /\ taken' = taken
      /\ buffer' = [p \in Devices |-> OnMessage(p)]
      /\ device' = [p \in Devices |-> OnPortClosed(p)]
  BY DEF PortStep
<1>4. ASSUME NEW p \in Devices
      PROVE  /\ device'[p] \in {"none", "open", "closed"}
             /\ device'[p] = "none" <=> device[p] = "none"
             /\ started'[p] = started[p]
  <2>1. device'[p] = OnPortClosed(p) /\ device[p] \in {"none", "open", "closed"}
    BY <1>3, <1>4 DEF DeviceInv
  <2>2. started'[p] = started[p]
    <3>1. ASSUME Start(p) PROVE FALSE
      <4>1. ~started[p] /\ started'[p]
        BY <1>2, <1>4, <3>1 DEF Start, PortInv, TypeOK
      <4>2. ASSUME NEW q \in Ports, Post(q) \/ Close(q) \/ Delete(q) PROVE started' = started
        BY <4>2 DEF Post, Close, Delete
      <4>3. ASSUME NEW q \in Ports, Start(q), q # p PROVE started'[p] = started[p]
        BY <1>2, <1>4, <4>3 DEF Start, PortInv, TypeOK
      <4>4. RunEvent \/ EmitNext => started' = started
        BY DEF RunEvent, EmitNext
      <4> QED BY <1>4, <4>1, <4>2, <4>3, <4>4 DEF PortStep
    <3> QED BY <1>1, <1>2, <1>4, <3>1, StartedBy
  <2> QED BY <2>1, <2>2 DEF OnPortClosed
<1>5. ASSUME NEW p \in Devices
      PROVE  /\ buffer'[p] \in Seq(Byte)
             /\ DeviceSound(p)'
  <2>1. /\ buffer[p] \in Seq(Byte) /\ taken[p] \in Seq(Byte) /\ buffer'[p] = OnMessage(p)
        /\ DeviceSound(p) /\ received[p] \in Seq(Messages) /\ p \in Ports
    BY <1>2, <1>3, <1>5, PortParts DEF DeviceInv, PortInv
  <2>2. CASE received'[p] = received[p]
    <3>1. buffer'[p] = buffer[p]
      BY <2>1, <2>2 DEF OnMessage, Arrived
    <3>2. Unread(p)' = Unread(p)
      BY <1>3, <3>1 DEF Unread
    <3>3. p \notin overtaken' => p \notin overtaken
      BY <1>1, OvertakenStays
    <3> QED BY <1>3, <1>4, <1>5, <2>1, <2>2, <3>1, <3>2, <3>3 DEF DeviceSound
  <2>3. CASE received'[p] # received[p]
    <3>1. PICK m \in Messages : received'[p] = Append(received[p], m)
      BY <1>1, <2>1, <2>3, OneAtATime
    <3>2. started[p]
      BY <1>1, <2>1, <2>3, OneAtATime
    <3>3. /\ Len(received'[p]) = Len(received[p]) + 1 /\ Len(received[p]) \in Nat
          /\ received'[p][Len(received[p]) + 1] = m
      BY <2>1, <3>1
    <3>4. buffer'[p] = buffer[p] \o Bytes(m) /\ device[p] # "none"
      BY <2>1, <3>2, <3>3 DEF OnMessage, Arrived, DeviceSound
    <3>5. Bytes(m) \in Seq(Byte)
      BY BytesTyped
    <3>6. /\ buffer'[p] \in Seq(Byte) /\ readPos'[p] \in 0..Len(buffer'[p])
          /\ readPos[p] \in 0..Len(buffer[p])
      <4>1. readPos[p] \in 0..Len(buffer[p]) /\ readPos'[p] = readPos[p]
        BY <1>3, <2>1 DEF DeviceSound
      <4>2. /\ buffer[p] \o Bytes(m) \in Seq(Byte)
            /\ Len(buffer[p] \o Bytes(m)) = Len(buffer[p]) + Len(Bytes(m))
        BY <2>1, <3>5
      <4>3. Len(buffer[p]) \in Nat /\ Len(Bytes(m)) \in Nat
        BY <2>1, <3>5
      <4> QED BY <3>4, <4>1, <4>2, <4>3
    <3>7. Unread(p)' = Unread(p) \o Bytes(m) /\ Unread(p) \in Seq(Byte)
      <4>1. Unread(p)' = SubSeq(buffer[p] \o Bytes(m), readPos[p] + 1, Len(buffer[p] \o Bytes(m)))
        BY <1>3, <3>4 DEF Unread
      <4>2. Unread(p)' = SubSeq(buffer[p], readPos[p] + 1, Len(buffer[p])) \o Bytes(m)
        BY <2>1, <3>5, <3>6, <4>1, UnreadGrows
      <4>3. Unread(p) \in Seq(Byte)
        BY <2>1, <3>6 DEF Unread
      <4> QED BY <4>2, <4>3 DEF Unread
    <3>8. ASSUME p \notin overtaken'
          PROVE  taken'[p] \o Unread(p)' = Stream[Len(received'[p])]
      <4>1. p \notin overtaken
        BY <1>1, <3>8, OvertakenStays
      <4>2. InOrder(p)'
        BY <2>1 DEF OrderInv, PortSound
      <4>3. received'[p][Len(received[p]) + 1] = Len(received[p]) + 1
        BY <3>3, <3>8, <4>2 DEF InOrder
      <4>4. m = Len(received[p]) + 1 /\ m \in 1..MaxPosts /\ m - 1 = Len(received[p])
        BY <3>3, <4>3 DEF Messages
      <4>5. Stream[m] = Stream[m - 1] \o Bytes(m)
        BY <4>4, StreamUnfolds
      <4>6. taken[p] \o Unread(p) = Stream[m - 1]
        BY <2>1, <4>1, <4>4 DEF DeviceSound
      <4>7. taken[p] \o (Unread(p) \o Bytes(m)) = (taken[p] \o Unread(p)) \o Bytes(m)
        <5>1. \A s, t, u \in Seq(Byte) : s \o (t \o u) = (s \o t) \o u
          BY ConcatAssociative
        <5> QED BY <2>1, <3>5, <3>7, <5>1
      <4>8. Len(received'[p]) = m
        BY <3>3, <4>4
      <4> QED BY <1>3, <3>7, <4>5, <4>6, <4>7, <4>8, Zenon
    <3> QED BY <1>4, <1>5, <2>1, <3>4, <3>6, <3>8 DEF DeviceSound
  <2> QED BY <2>2, <2>3
<1>6. /\ buffer' \in [Devices -> Seq(Byte)] /\ readPos' \in [Devices -> Nat]
      /\ taken' \in [Devices -> Seq(Byte)]
  BY <1>3, <1>5 DEF DeviceInv
<1>7. device' \in [Devices -> {"none", "open", "closed"}]
  BY <1>3, <1>4
<1> QED BY <1>5, <1>6, <1>7 DEF DeviceInv

\* readData(): what is read leaves the buffer, drained or not.
LEMMA ReadDevice ==
  ASSUME DeviceInv, NEW p \in Devices, NEW n \in 1..2, Read(p, n)
  PROVE  DeviceInv'
<1>1. /\ buffer[p] \in Seq(Byte) /\ taken[p] \in Seq(Byte) /\ readPos[p] \in 0..Len(buffer[p])
      /\ device[p] = "open"
  BY DEF DeviceInv, DeviceSound, Read
<1>2. PICK b, pos : /\ b = buffer[p] /\ pos = readPos[p]
                    /\ b \in Seq(Byte) /\ pos \in 0..Len(b)
  BY <1>1
<1>3. Unread(p) = SubSeq(b, pos + 1, Len(b)) /\ Len(Unread(p)) = Len(b) - pos
  BY <1>2 DEF Unread
<1>4. PICK count : count = IF n < Len(Unread(p)) THEN n ELSE Len(Unread(p))
  OBVIOUS
<1>5. count \in 0..(Len(b) - pos) /\ pos + count \in 0..Len(b)
  <2>1. Len(b) \in Nat /\ pos \in Nat /\ pos <= Len(b) /\ n \in Nat
    BY <1>2
  <2>2. count = IF n < Len(b) - pos THEN n ELSE Len(b) - pos
    BY <1>3, <1>4
  <2> QED BY <2>1, <2>2
<1>6. PICK left : left = Reclaim(b, pos + count)
  OBVIOUS
<1>7. /\ left.buffer \in Seq(Byte) /\ left.readPos \in 0..Len(left.buffer)
      /\ SubSeq(left.buffer, left.readPos + 1, Len(left.buffer))
           = SubSeq(b, pos + count + 1, Len(b))
  BY <1>2, <1>5, <1>6, ReclaimKeeps
<1>8. PICK first, kept : /\ first = SubSeq(SubSeq(b, pos + 1, Len(b)), 1, count)
                         /\ kept = SubSeq(b, pos + count + 1, Len(b))
  OBVIOUS
<1>9. first \in Seq(Byte) /\ kept \in Seq(Byte) /\ first \o kept = Unread(p)
  BY <1>2, <1>3, <1>5, <1>8, ReadSplits
<1>10. /\ taken' = [taken EXCEPT ![p] = @ \o first]
       /\ buffer' = [buffer EXCEPT ![p] = left.buffer]
       /\ readPos' = [readPos EXCEPT ![p] = left.readPos]
       /\ UNCHANGED <<vars, device>>
  BY <1>2, <1>3, <1>4, <1>6, <1>8 DEF Read
<1>11. /\ buffer'[p] = left.buffer /\ readPos'[p] = left.readPos
       /\ taken'[p] = taken[p] \o first
       /\ \A q \in Devices : q # p => /\ buffer'[q] = buffer[q] /\ readPos'[q] = readPos[q]
                                     /\ taken'[q] = taken[q]
  BY <1>10 DEF DeviceInv
<1>12. Unread(p)' = kept /\ \A q \in Devices : q # p => Unread(q)' = Unread(q)
  BY <1>7, <1>8, <1>11 DEF Unread
<1>13. taken'[p] \in Seq(Byte) /\ taken'[p] \o Unread(p)' = taken[p] \o Unread(p)
  <2>1. taken[p] \in Seq(Byte) /\ first \in Seq(Byte) /\ kept \in Seq(Byte)
    BY <1>1, <1>9
  <2>2. (taken[p] \o first) \o kept = taken[p] \o (first \o kept)
    <3>1. \A s, t, u \in Seq(Byte) : (s \o t) \o u = s \o (t \o u)
      BY ConcatAssociative
    <3> QED BY <2>1, <3>1
  <2>3. taken[p] \o first \in Seq(Byte)
    BY <2>1
  <2> QED BY <1>9, <1>11, <1>12, <2>2, <2>3, Zenon
<1>14. /\ started' = started /\ overtaken' = overtaken /\ received' = received
       /\ device' = device
  BY <1>10 DEF vars
<1>15. DeviceSound(p)'
  <2>1. readPos'[p] \in 0..Len(buffer'[p])
    BY <1>7, <1>11, Zenon
  <2> QED BY <1>1, <1>13, <1>14, <2>1 DEF DeviceInv, DeviceSound
<1>16. ASSUME NEW q \in Devices, q # p PROVE DeviceSound(q)'
  BY <1>11, <1>12, <1>14, <1>16 DEF DeviceInv, DeviceSound
<1>17. /\ buffer' \in [Devices -> Seq(Byte)] /\ readPos' \in [Devices -> Nat]
       /\ taken' \in [Devices -> Seq(Byte)]
  <2>1. left.readPos \in Nat
    BY <1>7
  <2> QED BY <1>7, <1>10, <1>11, <1>13, <2>1 DEF DeviceInv
<1> QED BY <1>14, <1>15, <1>16, <1>17 DEF DeviceInv

\* The constructor: the port has heard nothing yet, and the buffer is empty.
LEMMA AttachDevice ==
  ASSUME PortInv, DeviceInv, NEW p \in Devices, Attach(p)
  PROVE  DeviceInv'
<1>1. /\ device' = [device EXCEPT ![p] = "open"] /\ started' = [started EXCEPT ![p] = TRUE]
      /\ UNCHANGED <<buffer, readPos, taken, received>> /\ overtaken \subseteq overtaken'
      /\ p \in Ports
  BY DeviceAssumptions DEF Attach, Start
<1>2. /\ device'[p] = "open" /\ started'[p]
      /\ \A q \in Devices : q # p => device'[q] = device[q] /\ started'[q] = started[q]
  BY <1>1, DeviceAssumptions DEF DeviceInv, PortInv, TypeOK
<1>3. ASSUME NEW q \in Devices PROVE DeviceSound(q)'
  <2>1. Unread(q)' = Unread(q)
    BY <1>1 DEF Unread
  <2> QED BY <1>1, <1>2, <2>1 DEF DeviceInv, DeviceSound
<1> QED BY <1>1, <1>3 DEF DeviceInv

\* close() of the device leaves the stream where it is.
LEMMA CloseDeviceKeeps ==
  ASSUME DeviceInv, NEW p \in Devices, CloseDevice(p)
  PROVE  DeviceInv'
<1>1. /\ device[p] = "open" /\ device' = [device EXCEPT ![p] = "closed"]
      /\ UNCHANGED <<buffer, readPos, taken, received, started, overtaken>>
  BY DEF CloseDevice, vars
<1>2. ASSUME NEW q \in Devices PROVE DeviceSound(q)'
  <2>1. Unread(q)' = Unread(q)
    BY <1>1 DEF Unread
  <2> QED BY <1>1, <2>1 DEF DeviceInv, DeviceSound
<1> QED BY <1>1, <1>2 DEF DeviceInv

\* Every step of ports and devices.
LEMMA DeviceStep ==
  ASSUME PortInv, OrderInv, PortInv', OrderInv', DeviceInv, [DeviceNext]_allVars
  PROVE  DeviceInv'
<1>1. CASE UNCHANGED allVars
  <2>1. UNCHANGED <<device, buffer, readPos, taken, received, started, overtaken>>
    BY <1>1 DEF allVars, deviceVars, vars
  <2> QED BY <2>1 DEF DeviceInv, DeviceSound, Unread
<1> QED BY <1>1, PortStepDevice, ReadDevice, AttachDevice, CloseDeviceKeeps DEF DeviceNext

\* A device's buffer and cursor follow what its port hears.
THEOREM DevicesSound == DeviceSpec => []DeviceInv
<1>1. DeviceInit => DeviceInv
  <2> SUFFICES ASSUME DeviceInit PROVE DeviceInv
    OBVIOUS
  <2>1. /\ device = [p \in Devices |-> "none"] /\ buffer = [p \in Devices |-> <<>>]
        /\ readPos = [p \in Devices |-> 0] /\ taken = [p \in Devices |-> <<>>]
        /\ <<>> \in Seq(Byte)
    BY DEF DeviceInit
  <2>2. \A p \in Devices : /\ ~started[p] /\ received[p] = <<>>
    BY DeviceAssumptions DEF DeviceInit, Init
  <2>3. ASSUME NEW p \in Devices PROVE DeviceSound(p)
    <3>1. buffer[p] = <<>> /\ taken[p] = <<>> /\ readPos[p] = 0 /\ device[p] = "none"
      BY <2>1
    <3>2. Unread(p) = <<>>
      BY <3>1, SubSeqEmpty DEF Unread
    <3>3. Stream[0] = <<>> /\ Len(<<>>) = 0 /\ <<>> \o <<>> = <<>>
      BY StreamUnfolds
    <3>4. taken[p] \o Unread(p) = Stream[Len(received[p])]
      BY <2>2, <3>1, <3>2, <3>3, Zenon
    <3> QED BY <2>2, <3>1, <3>4 DEF DeviceSound
  <2> QED BY <2>1, <2>3 DEF DeviceInv
<1>2. DeviceSpec => [](PortInv /\ OrderInv)
  BY PortsInOrder, PortsUnderDevices, PTL
<1>3. PortInv /\ OrderInv /\ PortInv' /\ OrderInv' /\ DeviceInv /\ [DeviceNext]_allVars
        => DeviceInv'
  BY DeviceStep
<1> QED BY <1>1, <1>2, <1>3, PTL DEF DeviceSpec

\* The cursor of a device stays within its buffer.
THEOREM DeviceTypes == DeviceSpec => []DeviceTypeOK
<1>1. DeviceInv => DeviceTypeOK
  BY DEF DeviceInv, DeviceSound, DeviceTypeOK
<1> QED BY <1>1, DevicesSound, PTL

\* Whatever the sizes of writes and reads, the bytes a device has given out and
\* those it still holds are the bytes of the peer's first writes, each once and in
\* order, unless its port was overtaken.
THEOREM StreamIsInOrder == DeviceSpec => []StreamInOrder
<1>1. DeviceInv => StreamInOrder
  BY DEF DeviceInv, DeviceSound, StreamInOrder
<1> QED BY <1>1, DevicesSound, PTL
=============================================================================
