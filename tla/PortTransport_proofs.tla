------------------------- MODULE PortTransport_proofs -------------------------
(***************************************************************************)
(* PortTransport for every set of channels: a port is in one hand at a     *)
(* time, and every announced connection finds a port.                      *)
(***************************************************************************)
EXTENDS PortTransport, TLAPS

\* A name holds an end of its own side, so the two names never share an end.
Labelled == \A s \in Sides : registry[s] # NoEnd => Side(registry[s]) = s

\* A client that was not asked to connect holds no device and retries nothing,
\* so a connection attempt never drops a port it had taken.
IdleIsEmpty == ~connecting => device = NoEnd /\ ~retrying

\* The inductive invariant: OneHolder alone does not survive a publication
\* unless the names are known to hold different ends, nor a connection unless
\* the client's hand is known to be empty.
TransportInv == TypeOK /\ Labelled /\ IdleIsEmpty /\ OneHolder /\ AnnouncedOnce

-----------------------------------------------------------------------------
\* What joins and leaves the waiting ports (QList::append, takeFirst).
LEMMA AppendWaiting ==
  ASSUME NEW S, NEW q \in Seq(S), NEW e \in S
  PROVE  /\ Append(q, e) \in Seq(S)
         /\ Len(Append(q, e)) = Len(q) + 1
         /\ \A i \in DOMAIN Append(q, e) :
              \/ i \in DOMAIN q /\ Append(q, e)[i] = q[i]
              \/ i = Len(q) + 1 /\ Append(q, e)[i] = e
  OBVIOUS

LEMMA TailWaiting ==
  ASSUME NEW S, NEW q \in Seq(S), q # <<>>
  PROVE  /\ Tail(q) \in Seq(S)
         /\ Len(Tail(q)) = Len(q) - 1
         /\ Head(q) = q[1]
         /\ 1 \in DOMAIN q
         /\ q[1] \in S
         /\ \A i \in DOMAIN Tail(q) : i + 1 \in DOMAIN q /\ i + 1 # 1 /\ Tail(q)[i] = q[i + 1]
  OBVIOUS

\* Two channels have four different ends, none of them the missing one.
LEMMA EndsAreEnds == NoEnd \notin Ends /\ \A e \in Ends : Side(e) \in Sides
  BY TransportAssumptions DEF Ends, Sides, Side

-----------------------------------------------------------------------------
\* Init establishes the invariant.
LEMMA InitInv == Init => TransportInv
<1> SUFFICES ASSUME Init PROVE TransportInv
  OBVIOUS
<1>1. pending = <<>> /\ <<>> \in Seq(Ends) /\ Len(<<>>) = 0
  BY DEF Init
<1>2. Published = {} /\ Reading = {}
  BY DEF Init, Published, Reading
<1>3. DOMAIN pending = {} /\ Waiting = {}
  BY <1>1 DEF Waiting
<1>4. TypeOK
  BY <1>1, EndsAreEnds DEF Init, TypeOK
<1>5. Labelled /\ AnnouncedOnce /\ IdleIsEmpty
  BY <1>1 DEF Init, Labelled, AnnouncedOnce, IdleIsEmpty
<1>6. OneHolder
  BY <1>2, <1>3 DEF Init, OneHolder
<1> QED
  BY <1>4, <1>5, <1>6 DEF TransportInv

\* The host's side of a publication moves at most one port, from its name to
\* the waiting ones, and announces exactly that one.
LEMMA PublishedIsAnnounced ==
  ASSUME TransportInv,
         NEW names \in [Sides -> Ends \cup {NoEnd}],
         NEW spare \in SUBSET Ends,
         \A s \in Sides : names[s] # NoEnd => Side(names[s]) = s,
         spare \cap ({names[s] : s \in Sides} \cup Reading \cup Waiting \cup served) = {},
         ({names[s] : s \in Sides} \ {NoEnd}) \cap (Reading \cup Waiting \cup served) = {},
         OnPublished(names),
         unpublished' = spare,
         UNCHANGED <<device, served, open, goodbyes, connecting, retrying>>,
         listening' \in BOOLEAN
  PROVE  TransportInv'
<1> USE EndsAreEnds DEF TransportInv, IdleIsEmpty
<1>1. CASE names["host"] = NoEnd
  <2>1. registry' = names /\ UNCHANGED <<pending, announced>>
    BY <1>1 DEF OnPublished
  <2> QED
    BY <2>1 DEF TypeOK, Labelled, OneHolder, AnnouncedOnce, Published, Reading, Waiting
<1>2. CASE names["host"] # NoEnd
  <2> DEFINE e == names["host"]
  <2>1. /\ registry' = [names EXCEPT !["host"] = NoEnd]
        /\ pending' = Append(pending, e)
        /\ announced' = announced + 1
    BY <1>2 DEF OnPublished, Take
  <2>2. "host" \in Sides /\ e \in Ends /\ pending \in Seq(Ends)
    BY <1>2 DEF Sides, TypeOK
  <2>3. \A i \in DOMAIN pending' : \/ i \in DOMAIN pending /\ pending'[i] = pending[i]
                                   \/ i = Len(pending) + 1 /\ pending'[i] = e
    BY <2>1, <2>2, AppendWaiting
  <2>4. pending' \in Seq(Ends) /\ Len(pending') = Len(pending) + 1
    BY <2>1, <2>2, AppendWaiting
  <2>5. Waiting' \subseteq Waiting \cup {e}
    BY <2>3 DEF Waiting
  <2>6. e \notin Waiting \cup Reading \cup served \cup spare
    BY <1>2, <2>2
  <2>7. Published' \subseteq {names[s] : s \in Sides} \ {NoEnd, e}
    <3>1. \A s \in Sides : names[s] # NoEnd /\ s # "host" => names[s] # e
      BY <1>2, <2>2
    <3>2. registry' \in [Sides -> Ends \cup {NoEnd}]
      BY <2>1
    <3> QED
      BY <3>1, <3>2, <2>1, <2>2 DEF Published
  <2>8. TypeOK' /\ Labelled' /\ AnnouncedOnce'
    BY <2>1, <2>2, <2>4 DEF TypeOK, Labelled, AnnouncedOnce
  <2>9. \A i, j \in DOMAIN pending' : pending'[i] = pending'[j] => i = j
    BY <2>3, <2>6 DEF OneHolder, Waiting
  <2>10. OneHolder'
    BY <2>5, <2>6, <2>7, <2>9 DEF OneHolder, Reading
  <2> QED
    BY <2>8, <2>10
<1> QED
  BY <1>1, <1>2

\* A connection attempt moves the published port, if any, into the client's
\* hand, which is empty.
LEMMA AttemptKeepsInv ==
  ASSUME TransportInv, device = NoEnd, ConnectToServer, connecting' = TRUE,
         UNCHANGED <<pageVars, hostVars>>
  PROVE  TransportInv'
<1> USE EndsAreEnds DEF TransportInv, IdleIsEmpty, pageVars, hostVars
<1>1. /\ registry' = [registry EXCEPT !["client"] = NoEnd]
      /\ device' = registry["client"]
  BY DEF ConnectToServer, Take
<1>2. "client" \in Sides /\ registry \in [Sides -> Ends \cup {NoEnd}]
  BY DEF Sides, TypeOK
<1>3. TypeOK' /\ Labelled' /\ AnnouncedOnce'
  BY <1>1, <1>2 DEF TypeOK, Labelled, AnnouncedOnce, ConnectToServer
<1>4. Waiting' = Waiting
  BY DEF Waiting
<1>5. Published' \cup Reading' \subseteq Published
  BY <1>1, <1>2 DEF Published, Reading
<1>6. Published' \cap Reading' = {}
  <2>1. \A s \in Sides : registry[s] = registry["client"] /\ registry[s] # NoEnd => s = "client"
    BY <1>2 DEF Labelled
  <2> QED
    BY <2>1, <1>1, <1>2 DEF Published, Reading
<1>7. OneHolder'
  BY <1>4, <1>5, <1>6 DEF OneHolder
<1> QED
  BY <1>3, <1>7

\* A device that is told its port closed is let go of, by client and host.
LEMMA LettingGo ==
  ASSUME TransportInv, open' \in SUBSET Ends, goodbyes' \in SUBSET Ends,
         device' \in {device, NoEnd}, served' \subseteq served,
         retrying' \in BOOLEAN, connecting' \in BOOLEAN,
         ~connecting' => device' = NoEnd /\ ~retrying',
         UNCHANGED <<unpublished, registry, listening, pending, announced>>
  PROVE  TransportInv'
<1> USE EndsAreEnds DEF TransportInv, IdleIsEmpty
<1>1. TypeOK' /\ Labelled' /\ AnnouncedOnce'
  BY DEF TypeOK, Labelled, AnnouncedOnce
<1>2. /\ Published' = Published
      /\ Waiting' = Waiting
      /\ Reading' \subseteq Reading
  BY DEF Published, Waiting, Reading
<1>3. OneHolder'
  BY <1>2 DEF OneHolder
<1> QED
  BY <1>1, <1>3

-----------------------------------------------------------------------------
\* Every step preserves the invariant.
LEMMA NextInv == TransportInv /\ [Next]_vars => TransportInv'
<1> SUFFICES ASSUME TransportInv, [Next]_vars PROVE TransportInv'
  OBVIOUS
<1> USE EndsAreEnds DEF IdleIsEmpty
<1>1. CASE UNCHANGED vars
  BY <1>1, LettingGo DEF vars, pageVars, clientVars, hostVars, TransportInv, TypeOK
<1>2. ASSUME NEW e \in Ends, Publish(e) PROVE TransportInv'
  <2> DEFINE names == [registry EXCEPT ![Side(e)] = e]
  <2>1. /\ e \in unpublished
        /\ unpublished' = unpublished \ {e}
        /\ UNCHANGED <<open, goodbyes, device, connecting, retrying, listening, served>>
    BY <1>2 DEF Publish, clientVars
  <2>2. /\ names \in [Sides -> Ends \cup {NoEnd}]
        /\ \A s \in Sides : names[s] # NoEnd => Side(names[s]) = s
    BY DEF TransportInv, TypeOK, Labelled
  <2>3. {names[s] : s \in Sides} \subseteq Published \cup {e, NoEnd}
    BY DEF Published, TransportInv, TypeOK
  <2>4. e \notin Published \cup Reading \cup Waiting \cup served
    BY <2>1 DEF TransportInv, OneHolder
  <2>5. /\ unpublished' \in SUBSET Ends
        /\ listening' \in BOOLEAN
    BY <2>1 DEF TransportInv, TypeOK
  <2>6. ({names[s] : s \in Sides} \ {NoEnd}) \cap (Reading \cup Waiting \cup served) = {}
    BY <2>3, <2>4 DEF TransportInv, OneHolder
  <2>7. unpublished' \cap ({names[s] : s \in Sides} \cup Reading \cup Waiting \cup served) = {}
    BY <2>1, <2>3, <2>5 DEF TransportInv, OneHolder
  <2>8. CASE OnPublished(names)
    BY <2>1, <2>2, <2>5, <2>6, <2>7, <2>8, PublishedIsAnnounced
  <2>9. CASE registry' = names /\ UNCHANGED <<pending, announced>>
    <3>1. TypeOK' /\ Labelled' /\ AnnouncedOnce'
      BY <2>1, <2>2, <2>5, <2>9 DEF TransportInv, TypeOK, Labelled, AnnouncedOnce
    <3>2. Published' = {names[s] : s \in Sides} \ {NoEnd} /\ Waiting' = Waiting /\ Reading' = Reading
      BY <2>1, <2>9 DEF Published, Waiting, Reading
    <3>3. OneHolder'
      BY <3>2, <2>1, <2>6, <2>7, <2>9 DEF TransportInv, OneHolder
    <3> QED
      BY <3>1, <3>3, <2>1 DEF TransportInv
  <2> QED
    BY <1>2, <2>8, <2>9 DEF Publish
<1>12. ASSUME NEW e \in Ends, Adopt(e) PROVE TransportInv'
  BY <1>12, <1>2 DEF Adopt
<1>3. ASSUME NEW side \in Sides, Withdraw(side) PROVE TransportInv'
  <2>1. /\ registry' = [registry EXCEPT ![side] = NoEnd]
        /\ UNCHANGED <<unpublished, open, goodbyes, device, connecting, retrying,
                       listening, pending, announced, served>>
    BY <1>3 DEF Withdraw, Take, pageVars, clientVars, hostVars
  <2>2. TypeOK' /\ Labelled' /\ AnnouncedOnce'
    BY <2>1 DEF TransportInv, TypeOK, Labelled, AnnouncedOnce
  <2>3. Published' \subseteq Published /\ Waiting' = Waiting /\ Reading' = Reading
    BY <2>1 DEF TransportInv, TypeOK, Published, Waiting, Reading
  <2>4. OneHolder'
    BY <2>1, <2>3 DEF TransportInv, OneHolder
  <2> QED
    BY <2>1, <2>2, <2>4 DEF TransportInv
<1>4. CASE ConnectToNode
  BY <1>4, AttemptKeepsInv DEF ConnectToNode, TransportInv
<1>5. CASE Retry
  <2>1. CASE device # NoEnd
    BY <1>5, <2>1, LettingGo DEF Retry, pageVars, hostVars, TransportInv, TypeOK
  <2>2. CASE device = NoEnd
    BY <1>5, <2>2, AttemptKeepsInv DEF Retry, TransportInv, TypeOK
  <2> QED
    BY <2>1, <2>2
<1>6. CASE DestroyNode
  BY <1>6, LettingGo DEF DestroyNode, pageVars, hostVars, TransportInv, TypeOK
<1>7. ASSUME NEW e \in Ends, Close(e) PROVE TransportInv'
  BY <1>7, LettingGo DEF Close, ClosePort, Disconnected, TransportInv, TypeOK
<1>8. ASSUME NEW e \in Ends, PeerHears(e) PROVE TransportInv'
  BY <1>8, LettingGo DEF PeerHears, ClosePort, Disconnected, TransportInv, TypeOK
<1>9. CASE Listen
  <2>1. /\ OnPublished(registry)
        /\ listening' = TRUE
        /\ UNCHANGED <<unpublished, open, goodbyes, device, connecting, retrying, served>>
    BY <1>9 DEF Listen, pageVars, clientVars
  <2>2. /\ registry \in [Sides -> Ends \cup {NoEnd}]
        /\ unpublished \in SUBSET Ends
        /\ \A s \in Sides : registry[s] # NoEnd => Side(registry[s]) = s
    BY DEF TransportInv, TypeOK, Labelled
  <2>3. /\ ({registry[s] : s \in Sides} \ {NoEnd}) \cap (Reading \cup Waiting \cup served) = {}
        /\ unpublished \cap ({registry[s] : s \in Sides} \cup Reading \cup Waiting \cup served) = {}
    BY <2>2 DEF TransportInv, OneHolder, Published
  <2> QED
    BY <2>1, <2>2, <2>3, PublishedIsAnnounced
<1>10. CASE NewConnection
  <2> DEFINE e == Head(pending)
  <2>1. /\ announced > 0
        /\ announced' = announced - 1
        /\ pending' = Tail(pending)
        /\ served' = served \cup {e}
        /\ UNCHANGED <<unpublished, open, goodbyes, registry, device, connecting, retrying, listening>>
    BY <1>10 DEF NewConnection, pageVars, clientVars
  <2>2. pending \in Seq(Ends) /\ announced = Len(pending) /\ pending # <<>>
    BY <2>1 DEF TransportInv, TypeOK, AnnouncedOnce
  <2>3. /\ pending' \in Seq(Ends)
        /\ Len(pending') = Len(pending) - 1
        /\ e = pending[1] /\ 1 \in DOMAIN pending /\ e \in Ends
        /\ \A i \in DOMAIN pending' :
             i + 1 \in DOMAIN pending /\ i + 1 # 1 /\ pending'[i] = pending[i + 1]
    BY <2>1, <2>2, TailWaiting
  <2>4. TypeOK' /\ Labelled' /\ AnnouncedOnce'
    BY <2>1, <2>2, <2>3 DEF TransportInv, TypeOK, Labelled, AnnouncedOnce
  <2>5. Waiting' \subseteq Waiting \ {e} /\ e \in Waiting
    BY <2>3 DEF TransportInv, OneHolder, Waiting
  <2>6. \A i, j \in DOMAIN pending' : pending'[i] = pending'[j] => i = j
    <3> SUFFICES ASSUME NEW i \in DOMAIN pending', NEW j \in DOMAIN pending',
                        pending'[i] = pending'[j]
                 PROVE  i = j
      OBVIOUS
    <3>1. i \in Nat /\ j \in Nat
      BY <2>3
    <3>2. i + 1 = j + 1
      BY <2>3 DEF TransportInv, OneHolder
    <3> QED
      BY <3>1, <3>2
  <2>7. Published' = Published /\ Reading' = Reading
    BY <2>1 DEF Published, Reading
  <2>8. OneHolder'
    BY <2>1, <2>5, <2>6, <2>7 DEF TransportInv, OneHolder
  <2> QED
    BY <2>1, <2>4, <2>8 DEF TransportInv
<1>11. CASE DestroyHost
  <2>1. /\ pending' = <<>> /\ announced' = 0 /\ served' = {} /\ listening' = FALSE
        /\ UNCHANGED <<unpublished, open, goodbyes, registry, device, connecting, retrying>>
    BY <1>11 DEF DestroyHost, pageVars, clientVars
  <2>2. DOMAIN pending' = {} /\ Waiting' = {} /\ Published' = Published /\ Reading' = Reading
    BY <2>1 DEF Waiting, Published, Reading
  <2>3. TypeOK' /\ Labelled' /\ AnnouncedOnce'
    <3>1. <<>> \in Seq(Ends) /\ Len(<<>>) = 0
      OBVIOUS
    <3> QED
      BY <3>1, <2>1 DEF TransportInv, TypeOK, Labelled, AnnouncedOnce
  <2>4. OneHolder'
    BY <2>1, <2>2 DEF TransportInv, OneHolder
  <2> QED
    BY <2>1, <2>3, <2>4 DEF TransportInv
<1> QED
  BY <1>1, <1>2, <1>3, <1>4, <1>5, <1>6, <1>7, <1>8, <1>9, <1>10, <1>11, <1>12 DEF Next

\* The inductive invariant holds of every reachable state.
THEOREM TransportSound == Spec => []TransportInv
<1>1. Init => TransportInv
  BY InitInv
<1>2. TransportInv /\ [Next]_vars => TransportInv'
  BY NextInv
<1> QED
  BY <1>1, <1>2, PTL DEF Spec

\* Registry, client and host are well typed.
THEOREM TransportTypes == Spec => []TypeOK
<1>1. TransportInv => TypeOK
  BY DEF TransportInv
<1> QED
  BY <1>1, TransportSound, PTL

\* "Taken, not borrowed": no end of a channel is in two hands at once.
THEOREM TakenNotBorrowed == Spec => []OneHolder
<1>1. TransportInv => OneHolder
  BY DEF TransportInv
<1> QED
  BY <1>1, TransportSound, PTL

\* Every newConnection finds a port: QtRO never gets a null connection.
THEOREM NeverANullConnection == Spec => []AnnouncedOnce
<1>1. TransportInv => AnnouncedOnce
  BY DEF TransportInv
<1> QED
  BY <1>1, TransportSound, PTL
=============================================================================
