---------------------------- MODULE PortTransport ----------------------------
(***************************************************************************)
(* Qt Remote Objects over message ports (src/LogosMessagePortTransport.cpp *)
(* and LogosMessagePortDevice.cpp): a page makes channels and publishes    *)
(* their ends by name, a client node retries until it finds its end, a     *)
(* host takes every end published under its name, and a Worker that dies   *)
(* takes its channel with it.                                              *)
(*                                                                         *)
(* The model has one client, which connects to the name of client ends,    *)
(* and one host, which listens on the name of host ends.  Of a port only   *)
(* whether it is open matters here; MessagePort has its messages.  QtRO's  *)
(* node (its retry timer) and its source io (what it does on newConnection *)
(* and disconnected) are external.                                         *)
(***************************************************************************)
EXTENDS Naturals, Sequences

CONSTANTS Channels,   \* the message channels the page makes
          Wrapped,    \* ends behind a LogosEmscriptenMessagePort
          NoEnd

ASSUME TransportAssumptions == NoEnd \notin Channels \X {"client", "host"}

Sides     == {"client", "host"}
Ends      == Channels \X Sides
Side(e)   == e[2]
Peer(e)   == <<e[1], IF Side(e) = "client" THEN "host" ELSE "client">>

VARIABLES
  unpublished,   \* ends of channels the page has made and not yet handed over
  open,          \* LogosMessagePort::isOpen, as the end itself knows it
  goodbyes,      \* ends that closed and whose peer has not heard of it
  registry,      \* PortRegistry::m_ports, one name per side
  device,        \* MessagePortClientIo::m_device: the end it reads, if any
  connecting,    \* the node wants this connection (connectToNode was called)
  retrying,      \* the node's retry timer has the connection on its list
  listening,     \* MessagePortServer::m_listening
  pending,       \* MessagePortServer::m_pending
  announced,     \* queued newConnection emissions
  served         \* ends with a MessagePortServerIo

pageVars   == <<unpublished, open, goodbyes>>
clientVars == <<device, connecting, retrying>>
hostVars   == <<listening, pending, announced, served>>
vars == <<pageVars, registry, clientVars, hostVars>>

-----------------------------------------------------------------------------
TypeOK ==
  /\ unpublished \subseteq Ends
  /\ open \subseteq Ends
  /\ goodbyes \subseteq Ends
  /\ registry \in [Sides -> Ends \cup {NoEnd}]
  /\ device \in Ends \cup {NoEnd}
  /\ connecting \in BOOLEAN
  /\ retrying \in BOOLEAN
  /\ listening \in BOOLEAN
  /\ pending \in Seq(Ends)
  /\ announced \in Nat
  /\ served \subseteq Ends

Init ==
  /\ unpublished = Ends
  /\ open = Ends
  /\ goodbyes = {}
  /\ registry = [s \in Sides |-> NoEnd]
  /\ device = NoEnd
  /\ connecting = FALSE
  /\ retrying = FALSE
  /\ listening = FALSE
  /\ pending = <<>>
  /\ announced = 0
  /\ served = {}

-----------------------------------------------------------------------------
\* take(), gone wrong: the port is borrowed.
Take_Borrow(names, side) == names

\* PortRegistry::take(): the name is free again.
Take(names, side) == [names EXCEPT ![side] = NoEnd]

\* onPublished, gone wrong: one announcement for whatever is waiting.
OnPublished_Once(names) ==
  IF names["host"] = NoEnd
  THEN registry' = names /\ UNCHANGED <<pending, announced>>
  ELSE /\ registry' = Take(names, "host")
       /\ pending' = Append(pending, names["host"])
       /\ announced' = 1

\* The host's side of a publication, with `names` the registry by then: the
\* waiting port is taken at once and announced through the event loop.
OnPublished(names) ==
  IF names["host"] = NoEnd
  THEN registry' = names /\ UNCHANGED <<pending, announced>>
  ELSE /\ registry' = Take(names, "host")
       /\ pending' = Append(pending, names["host"])
       /\ announced' = announced + 1

\* publish(): replaces what was published under the name and not taken.
Publish(e) ==
  LET names == [registry EXCEPT ![Side(e)] = e]
  IN /\ e \in unpublished
     /\ unpublished' = unpublished \ {e}
     /\ IF Side(e) = "host" /\ listening
        THEN OnPublished(names)
        ELSE registry' = names /\ UNCHANGED <<pending, announced>>
     /\ UNCHANGED <<open, goodbyes, clientVars, listening, served>>

\* logosAdoptMessagePort(): the page's end is wrapped and published; the wrapper
\* is leaked, so it is there for as long as the image.
Adopt(e) == e \in Wrapped /\ Publish(e)

\* withdraw(): only what nobody took yet.
Withdraw(side) ==
  /\ registry[side] # NoEnd
  /\ registry' = Take(registry, side)
  /\ UNCHANGED <<pageVars, clientVars, hostVars>>

-----------------------------------------------------------------------------
\* connectToServer(), when there is no live device: the published port becomes
\* the device, dead or alive, or else the node is asked to retry.
ConnectToServer ==
  /\ registry' = Take(registry, "client")
  /\ device' = registry["client"]
  /\ retrying' = (retrying \/ registry["client"] = NoEnd)

ConnectToNode ==
  /\ ~connecting
  /\ connecting' = TRUE
  /\ ConnectToServer
  /\ UNCHANGED <<pageVars, hostVars>>

\* A tick of the node's retry timer: done with a connection that is open, and
\* one more connectToServer() otherwise.
Retry ==
  /\ retrying
  /\ IF device # NoEnd
     THEN retrying' = FALSE /\ UNCHANGED <<registry, device>>
     ELSE ConnectToServer
  /\ UNCHANGED <<pageVars, connecting, hostVars>>

\* The node is destroyed, and closes its io.  The port is borrowed: it stays
\* open, and nobody has it any more.
DestroyNode ==
  /\ connecting
  /\ connecting' = FALSE
  /\ retrying' = FALSE
  /\ device' = NoEnd
  /\ UNCHANGED <<pageVars, registry, hostVars>>

\* The device's disconnected(), gone wrong: the device goes, nobody retries.
Disconnected_NoRetry(e) ==
  /\ device' = IF e = device THEN NoEnd ELSE device
  /\ served' = served \ {e}
  /\ UNCHANGED retrying

\* onPortClosed() of the device over e: the client lets go of it and asks for a
\* retry; the host's source io drops the connection.
Disconnected(e) ==
  /\ device' = IF e = device THEN NoEnd ELSE device
  /\ retrying' = (retrying \/ e = device)
  /\ served' = served \ {e}

\* A port closes, by itself or because its peer did, and closed() is heard by
\* the device that was built over it, if one was.
ClosePort(e) ==
  /\ e \in open
  /\ open' = open \ {e}
  /\ Disconnected(e)

\* One end is closed, by whoever holds it or by a Worker that trapped.  The page
\* cannot close an end it handed over to be wrapped: its API has two calls,
\* adopt and deliver.
Close(e) ==
  /\ e \notin Wrapped
  /\ ClosePort(e)
  /\ goodbyes' = goodbyes \cup {e}
  /\ UNCHANGED <<unpublished, registry, connecting, listening, pending, announced>>

\* The other end hears of it, unless it is wrapped: a browser's MessagePort has
\* no close event.
PeerHears(e) ==
  /\ e \in goodbyes
  /\ Peer(e) \notin Wrapped
  /\ goodbyes' = goodbyes \ {e}
  /\ IF Peer(e) \in open THEN ClosePort(Peer(e)) ELSE UNCHANGED <<open, device, retrying, served>>
  /\ UNCHANGED <<unpublished, registry, connecting, listening, pending, announced>>

-----------------------------------------------------------------------------
\* listen(): a port that was published before its host existed is found here.
Listen ==
  /\ ~listening
  /\ listening' = TRUE
  /\ OnPublished(registry)
  /\ UNCHANGED <<pageVars, clientVars, served>>

\* One queued newConnection: QtRO takes exactly one connection for it, and
\* dereferences what configureNewConnection() returns.
NewConnection ==
  /\ announced > 0
  /\ announced' = announced - 1
  /\ pending' = Tail(pending)
  /\ served' = served \cup {Head(pending)}
  /\ UNCHANGED <<pageVars, registry, clientVars, listening>>

\* The host is destroyed and its server with it: the ports nobody fetched are
\* forgotten, and so are the queued emissions.  A Worker that comes back builds
\* another host.
DestroyHost ==
  /\ listening
  /\ listening' = FALSE
  /\ pending' = <<>>
  /\ announced' = 0
  /\ served' = {}
  /\ UNCHANGED <<pageVars, registry, clientVars>>

Next ==
  \/ \E e \in Ends \ Wrapped : Publish(e)
  \/ \E e \in Ends : Adopt(e)
  \/ \E side \in Sides : Withdraw(side)
  \/ ConnectToNode
  \/ Retry
  \/ DestroyNode
  \/ \E e \in Ends : Close(e)
  \/ \E e \in Ends : PeerHears(e)
  \/ Listen
  \/ NewConnection
  \/ DestroyHost

Spec == Init /\ [][Next]_vars

\* The node's timer ticks and both event loops turn.
FairSpec == Spec /\ WF_vars(Retry) /\ WF_vars(NewConnection) /\ \A e \in Ends : WF_vars(PeerHears(e))

-----------------------------------------------------------------------------
Published == {registry[s] : s \in Sides} \ {NoEnd}
Reading   == {device} \ {NoEnd}
Waiting   == {pending[i] : i \in DOMAIN pending}

\* "Taken, not borrowed": one end of a channel is never in two hands, so no two
\* QtRO connections interleave their packets on one wire.
OneHolder ==
  /\ \A i, j \in DOMAIN pending : pending[i] = pending[j] => i = j
  /\ unpublished \cap (Published \cup Reading \cup Waiting \cup served) = {}
  /\ Published \cap (Reading \cup Waiting \cup served) = {}
  /\ Reading \cap (Waiting \cup served) = {}
  /\ Waiting \cap served = {}

\* Every announcement finds a connection to hand to QtRO, which does not check,
\* and no port waits without an announcement to come.
AnnouncedOnce == announced = Len(pending)

\* A port handed to the client's name does not stay there while the client has
\* nothing else and still wants one, however many channels died before.
ClientRecovers ==
  \A e \in Ends :
    (registry["client"] = e /\ connecting)
      ~> (registry["client"] # e \/ device # NoEnd \/ ~connecting)

\* LogosMessagePortTransport.cpp 100-104: a port whose peer is gone is gone for
\* good, so the client lets go of it and takes the fresh channel that the page
\* hands over under the same name.
FreshPortIsTaken ==
  \A e \in Ends :
    (registry["client"] = e /\ connecting)
      ~> (registry["client"] # e \/ ~connecting \/ device \in {d \in open : Peer(d) \in open})
=============================================================================
