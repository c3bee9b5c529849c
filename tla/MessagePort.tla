---------------------------- MODULE MessagePort ----------------------------
(***************************************************************************)
(* A loopback pair of message ports (src/LogosMessagePort.cpp): two ends   *)
(* in one thread, each posting to the other through the event loop.        *)
(* Delivery is off until start(), and what arrives before is kept.         *)
(*                                                                         *)
(* A message is its place in its sender's sequence of posts.  A queued     *)
(* lambda belongs to the port that queued it: Qt drops it when that port   *)
(* is deleted, and its QPointer to the other end is null when that one is. *)
(***************************************************************************)
EXTENDS Naturals, Sequences

CONSTANTS MaxPosts   \* bound: messages each end posts

ASSUME PortAssumptions == MaxPosts \in Nat

Ports   == {"a", "b"}
Peer(p) == IF p = "a" THEN "b" ELSE "a"

VARIABLES
  exists,     \* ports not yet deleted
  open,       \* m_open
  started,    \* m_started
  queued,     \* m_queued: messages delivered before start()
  loop,       \* the thread's posted lambdas, in order
  emitting,   \* what is left of the backlog a port is emitting right now
  sent,       \* history: messages posted
  received,   \* history: messageReceived, in order
  signals,    \* history: emissions of closed()
  closedBy,   \* history: whose close() closed the port
  overtaken   \* history: ports started over a backlog with messages still in the loop

vars == <<exists, open, started, queued, loop, emitting, sent, received, signals,
          closedBy, overtaken>>

-----------------------------------------------------------------------------
Messages == 1..MaxPosts

Event == [kind : {"deliver", "backlog", "close"}, owner : Ports, to : Ports,
          messages : Seq(Messages)]

TypeOK ==
  /\ exists \subseteq Ports
  /\ open \in [Ports -> BOOLEAN]
  /\ started \in [Ports -> BOOLEAN]
  /\ queued \in [Ports -> Seq(Messages)]
  /\ loop \in Seq(Event)
  /\ emitting \in [port : Ports, messages : Seq(Messages)]
  /\ sent \in [Ports -> 0..MaxPosts]
  /\ received \in [Ports -> Seq(Messages)]
  /\ signals \in [Ports -> Nat]
  /\ closedBy \in [Ports -> {"nobody", "itself", "peer"}]
  /\ overtaken \subseteq Ports

\* createPair().
Init ==
  /\ exists = Ports
  /\ open = [p \in Ports |-> TRUE]
  /\ started = [p \in Ports |-> FALSE]
  /\ queued = [p \in Ports |-> <<>>]
  /\ loop = <<>>
  /\ emitting = [port |-> "a", messages |-> <<>>]
  /\ sent = [p \in Ports |-> 0]
  /\ received = [p \in Ports |-> <<>>]
  /\ signals = [p \in Ports |-> 0]
  /\ closedBy = [p \in Ports |-> "nobody"]
  /\ overtaken = {}

-----------------------------------------------------------------------------
Elements(s) == {s[i] : i \in 1..Len(s)}

\* The messages on their way to p in lambdas of this kind that will still run.
InLoop(kind, p) ==
  UNION {Elements(loop[i].messages) :
           i \in {j \in 1..Len(loop) :
                    loop[j].kind = kind /\ loop[j].to = p /\ loop[j].owner \in exists}}

\* A lambda of the loop runs to its end; only a backlog calls the application
\* more than once on the way, and the application may then use any port.
AtLoop == emitting.messages = <<>>

IsOpen(p) == open[p] /\ Peer(p) \in exists /\ open[Peer(p)]

\* post(): never inline; a closed pair drops the message.
NextMessage(p) == sent[p] + 1

Post(p) ==
  /\ p \in exists /\ IsOpen(p)
  /\ sent[p] < MaxPosts
  /\ sent' = [sent EXCEPT ![p] = @ + 1]
  /\ loop' = Append(loop, [kind |-> "deliver", owner |-> p, to |-> Peer(p),
                           messages |-> <<NextMessage(p)>>])
  /\ UNCHANGED <<exists, open, started, queued, emitting, received, signals, closedBy,
                 overtaken>>

\* Backlog, gone wrong: start() forgets the oldest message.
Backlog_Truncated(p) == [kind |-> "backlog", owner |-> p, to |-> p, messages |-> Tail(queued[p])]

\* start(): the backlog, if any, goes out through the loop as one event.
Backlog(p) == [kind |-> "backlog", owner |-> p, to |-> p, messages |-> queued[p]]

Start(p) ==
  /\ p \in exists /\ ~started[p]
  /\ started' = [started EXCEPT ![p] = TRUE]
  /\ queued' = [queued EXCEPT ![p] = <<>>]
  /\ loop' = IF queued[p] = <<>> THEN loop ELSE Append(loop, Backlog(p))
  /\ overtaken' = IF queued[p] # <<>> /\ InLoop("deliver", p) # {}
                  THEN overtaken \cup {p} ELSE overtaken
  /\ UNCHANGED <<exists, open, emitting, sent, received, signals, closedBy>>

\* MayClose, gone wrong: close() is not idempotent (three emissions are enough to see it).
MayClose_Again(p) == signals[p] < 3

\* close(): idempotent; the other end hears of it later, as its own close().
MayClose(p) == open[p]

Goodbye(p) == [kind |-> "close", owner |-> p, to |-> Peer(p), messages |-> <<>>]

\* ClosePort, gone wrong: the other end is not told.
ClosePort_Silent(p, who, rest) ==
  /\ open' = [open EXCEPT ![p] = FALSE]
  /\ signals' = [signals EXCEPT ![p] = @ + 1]
  /\ closedBy' = [closedBy EXCEPT ![p] = who]
  /\ loop' = rest

\* ClosePort, gone wrong: the other end is told ahead of what was posted.
ClosePort_Jumps(p, who, rest) ==
  /\ open' = [open EXCEPT ![p] = FALSE]
  /\ signals' = [signals EXCEPT ![p] = @ + 1]
  /\ closedBy' = [closedBy EXCEPT ![p] = who]
  /\ loop' = <<Goodbye(p)>> \o rest

\* `rest` is the loop once the lambda that is running has left it.
ClosePort(p, who, rest) ==
  /\ open' = [open EXCEPT ![p] = FALSE]
  /\ signals' = [signals EXCEPT ![p] = @ + 1]
  /\ closedBy' = [closedBy EXCEPT ![p] = who]
  /\ loop' = Append(rest, Goodbye(p))

Close(p) ==
  /\ p \in exists /\ MayClose(p)
  /\ ClosePort(p, "itself", loop)
  /\ UNCHANGED <<exists, started, queued, emitting, sent, received, overtaken>>

\* `delete port`: nothing is emitted and nobody is told.  Not from a slot of the
\* port's own backlog, whose loop does not look at its QPointer again.
Delete(p) ==
  /\ p \in exists
  /\ AtLoop \/ emitting.port # p
  /\ exists' = exists \ {p}
  /\ UNCHANGED <<open, started, queued, loop, emitting, sent, received, signals, closedBy,
                 overtaken>>

-----------------------------------------------------------------------------
\* deliver(): dropped when closed, kept before start(), emitted after.
Hears(p) == open[p] /\ started[p]

\* Keep, gone wrong: the backlog is prepended to.
Keep_NewestFirst(p, ms) == ms \o queued[p]

\* Keep, gone wrong: what arrives before start() is dropped.
Keep_Nothing(p, ms) == queued[p]

Keep(p, ms) == queued[p] \o ms

Deliver(p, ms) ==
  /\ received' = IF Hears(p) THEN [received EXCEPT ![p] = @ \o ms] ELSE received
  /\ queued' = IF open[p] /\ ~started[p] THEN [queued EXCEPT ![p] = Keep(p, ms)] ELSE queued

\* One lambda of the event loop.
RunEvent ==
  LET e    == Head(loop)
      rest == Tail(loop)
      runs == e.owner \in exists /\ e.to \in exists
  IN /\ AtLoop /\ loop # <<>>
     /\ \/ /\ runs /\ e.kind = "deliver"
           /\ Deliver(e.to, e.messages)
           /\ loop' = rest
           /\ UNCHANGED <<emitting, open, signals, closedBy>>
        \/ /\ runs /\ e.kind = "backlog" /\ open[e.to]
           /\ emitting' = [port |-> e.to, messages |-> e.messages]
           /\ loop' = rest
           /\ UNCHANGED <<received, queued, open, signals, closedBy>>
        \/ /\ runs /\ e.kind = "close" /\ MayClose(e.to)
           /\ ClosePort(e.to, "peer", rest)
           /\ UNCHANGED <<emitting, queued, received>>
        \/ /\ \/ ~runs
              \/ e.kind = "backlog" /\ ~open[e.to]
              \/ e.kind = "close" /\ ~MayClose(e.to)
           /\ loop' = rest
           /\ UNCHANGED <<emitting, queued, received, open, signals, closedBy>>
     /\ UNCHANGED <<exists, started, sent, overtaken>>

\* The backlog's for loop emits its next message, open or not by now.
EmitNext ==
  /\ ~AtLoop
  /\ received' = [received EXCEPT ![emitting.port] = Append(@, Head(emitting.messages))]
  /\ emitting' = [emitting EXCEPT !.messages = Tail(@)]
  /\ UNCHANGED <<exists, open, started, queued, loop, sent, signals, closedBy, overtaken>>

Next ==
  \/ \E p \in Ports : Post(p)
  \/ \E p \in Ports : Start(p)
  \/ \E p \in Ports : Close(p)
  \/ \E p \in Ports : Delete(p)
  \/ RunEvent
  \/ EmitNext

Spec == Init /\ [][Next]_vars

\* The event loop keeps turning.
FairSpec == Spec /\ WF_vars(RunEvent) /\ WF_vars(EmitNext)

-----------------------------------------------------------------------------
Increasing(s) == \A i, j \in 1..Len(s) : i < j => s[i] < s[j]
Distinct(s)   == \A i, j \in 1..Len(s) : s[i] = s[j] => i = j

\* Where a message to p can be: in a queued lambda, kept for start(), released
\* by it, or heard.
BeingEmitted(p) == IF emitting.port = p THEN Elements(emitting.messages) ELSE {}
Released(p)     == InLoop("backlog", p) \cup BeingEmitted(p)
Held(p)         == Elements(queued[p]) \cup Released(p)
Heard(p)        == Elements(received[p])

\* While a port is open and its sender exists, every message posted to it is in
\* one place and no other.  Nothing said before start() is lost, and nothing is
\* said twice.
NothingLostOrDoubled ==
  \A p \in Ports :
    open[p] /\ exists = Ports =>
      /\ InLoop("deliver", p) \cup Held(p) \cup Heard(p) = 1..sent[Peer(p)]
      /\ InLoop("deliver", p) \cap (Held(p) \cup Heard(p)) = {}
      /\ Held(p) \cap Heard(p) = {}
      /\ Distinct(received[p])

\* Messages arrive in the order they were posted, at every port that was not
\* started over a backlog while more messages were in the loop.
OrderedUnlessOvertaken == \A p \in Ports \ overtaken : Increasing(received[p])

\* A peer's close() does not overtake what the peer said: when it reaches a
\* port, all of it was heard, or is still held by the port's late start().
CloseComesLast ==
  [][\A p \in Ports :
       closedBy'[p] = "peer" /\ closedBy[p] # "peer" =>
         Heard(p) \cup Held(p) = 1..sent[Peer(p)]]_vars

\* "Emits closed() exactly once", and nothing after: however the two ends'
\* close() calls and their queued echoes cross, a port that has emitted it emits
\* no second one and no message, save the rest of a backlog it was in the middle
\* of emitting when a slot closed it.
NothingAfterClosed ==
  [][\A p \in Ports :
       signals[p] # 0 =>
         /\ signals'[p] = signals[p]
         /\ received'[p] # received[p] => BeingEmitted(p) # {}]_vars

\* With both ends alive, a close is heard by the other end, and what is posted
\* to a started port that stays open is received.
CloseIsHeard ==
  \A p \in Ports : ~open[p] ~> (~open[Peer(p)] \/ exists # Ports)
PostsAreHeard ==
  \A p \in Ports, m \in Messages :
    (started[p] /\ m <= sent[Peer(p)])
      ~> (m \in Heard(p) \/ ~open[p] \/ exists # Ports)

\* LogosMessagePort.h 11: "duplex, ordered, reliable".
Ordered == \A p \in Ports : Increasing(received[p])
=============================================================================
