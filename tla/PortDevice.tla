----------------------------- MODULE PortDevice -----------------------------
(***************************************************************************)
(* LogosMessagePortDevice over a port of a loopback pair: "discrete        *)
(* messages" become "a byte stream" for Qt Remote Objects to read, in      *)
(* pieces that need not be the messages.                                   *)
(*                                                                         *)
(* A byte is a message and a place in it.  The end of a constant set get a *)
(* device, and are started by its constructor; the others are ports that   *)
(* the application uses as they are.  A slot of readyRead() may read at    *)
(* once: reading is a step of its own, possible in the middle of a backlog.*)
(***************************************************************************)
EXTENDS MessagePort

CONSTANTS Devices,   \* ports a device is built over
          Size       \* bytes of each message, 0 for one that is empty

ASSUME DeviceAssumptions == Devices \subseteq Ports /\ Size \in [Messages -> Nat]

VARIABLES
  device,    \* "none", "open" or "closed": the QIODevice
  buffer,    \* m_buffer
  readPos,   \* m_readPos
  taken      \* history: bytes read

deviceVars == <<device, buffer, readPos, taken>>
allVars    == <<vars, deviceVars>>

Bytes(m)  == [i \in 1..Size[m] |-> <<m, i>>]

DeviceTypeOK ==
  /\ device \in [Devices -> {"none", "open", "closed"}]
  /\ \A p \in Devices : readPos[p] \in 0..Len(buffer[p])

DeviceInit ==
  /\ Init
  /\ device = [p \in Devices |-> "none"]
  /\ buffer = [p \in Devices |-> <<>>]
  /\ readPos = [p \in Devices |-> 0]
  /\ taken = [p \in Devices |-> <<>>]

-----------------------------------------------------------------------------
\* onMessage(), once for every message the port just emitted: nothing is
\* re-framed, and an empty message adds nothing.  The port emits one at a time.
Arrived(p) == Len(received'[p]) > Len(received[p])

OnMessage(p) ==
  IF device[p] # "none" /\ Arrived(p)
  THEN buffer[p] \o Bytes(received'[p][Len(received'[p])])
  ELSE buffer[p]

\* onPortClosed(): disconnected(), then close().  The port's buffer outlives it.
OnPortClosed(p) == IF device[p] = "open" /\ signals'[p] # signals[p] THEN "closed" ELSE device[p]

\* What the ports do, with the devices' slots run by their signals.
PortStep ==
  /\ \/ \E p \in Ports : Post(p) /\ (p \in Devices => device[p] = "open")
     \/ \E p \in Ports : Start(p) /\ p \notin Devices
     \/ \E p \in Ports : Close(p) \/ Delete(p)
     \/ RunEvent
     \/ EmitNext
  /\ buffer' = [p \in Devices |-> OnMessage(p)]
  /\ device' = [p \in Devices |-> OnPortClosed(p)]
  /\ UNCHANGED <<readPos, taken>>

\* The constructor: slots connected, open from birth, and only then start().
Attach(p) ==
  /\ device[p] = "none"
  /\ Start(p)
  /\ device' = [device EXCEPT ![p] = "open"]
  /\ UNCHANGED <<buffer, readPos, taken>>

Unread(p) == SubSeq(buffer[p], readPos[p] + 1, Len(buffer[p]))

\* Reclaim, gone wrong: the cursor of a drained buffer is left where it was.
Reclaim_BufferOnly(b, pos) == [buffer |-> IF pos = Len(b) THEN <<>> ELSE b, readPos |-> pos]

\* A drained buffer is cleared and its cursor goes back.
Reclaim(b, pos) == IF pos = Len(b) THEN [buffer |-> <<>>, readPos |-> 0]
                                   ELSE [buffer |-> b, readPos |-> pos]

\* readData() of at most n bytes, while the QIODevice is open.
Read(p, n) ==
  /\ device[p] = "open"
  /\ Unread(p) # <<>>
  /\ LET count == IF n < Len(Unread(p)) THEN n ELSE Len(Unread(p))
         left  == Reclaim(buffer[p], readPos[p] + count)
     IN /\ taken' = [taken EXCEPT ![p] = @ \o SubSeq(Unread(p), 1, count)]
        /\ buffer' = [buffer EXCEPT ![p] = left.buffer]
        /\ readPos' = [readPos EXCEPT ![p] = left.readPos]
  /\ UNCHANGED <<vars, device>>

\* close() of the device, by QtRO: the port stays open.
CloseDevice(p) ==
  /\ device[p] = "open"
  /\ device' = [device EXCEPT ![p] = "closed"]
  /\ UNCHANGED <<vars, buffer, readPos, taken>>

DeviceNext ==
  \/ PortStep
  \/ \E p \in Devices : Attach(p) \/ CloseDevice(p)
  \/ \E p \in Devices, n \in 1..2 : Read(p, n)

DeviceSpec == DeviceInit /\ [][DeviceNext]_allVars

\* The event loop keeps turning.
LoopStep == (RunEvent \/ EmitNext) /\ PortStep
FairDeviceSpec == DeviceSpec /\ WF_allVars(LoopStep)

-----------------------------------------------------------------------------
\* The bytes of the peer's first n writes, one after the other.
Stream[n \in 0..MaxPosts] == IF n = 0 THEN <<>> ELSE Stream[n - 1] \o Bytes(n)

\* "Order and completeness": whatever the sizes of writes and reads, and whoever
\* closed since, what was read and what is left to read are together the bytes of
\* the peer's first writes, as many of them as the port has emitted, at every
\* device that was not built over a backlog with more messages in the loop.
StreamInOrder ==
  \A p \in Devices \ overtaken : taken[p] \o Unread(p) = Stream[Len(received[p])]
=============================================================================
