---------------------------- MODULE ViewHost_proofs ----------------------------
(***************************************************************************)
(* Proofs about ViewHost, for any number of children one after the other.  *)
(*                                                                         *)
(* That stop() kills no responsive child is a matter of seconds: the       *)
(* invariant says how much of its grace such a child has left when so much *)
(* of the budget is.                                                       *)
(***************************************************************************)
EXTENDS ViewHost, TLAPS

\* A child, as TypeOK has it.
Child == [phase : Phases, parent : {"unread", "parent", "init"}, pipe : BOOLEAN,
          signalled : BOOLEAN, stuck : BOOLEAN, grace : Nat,
          said : {"nothing", "READY", "heard"}, doomed : BOOLEAN, excused : BOOLEAN]

\* A stop() runs in a living host, about a child that was started.
StopSound ==
  stopping # Idle =>
    /\ hostAlive
    /\ stopping.child \in 1..spawned
    /\ stopping.stage \in {"terminating", "killing"}

\* Only the last child started may live, and only m_process while its host does.
ChildrenSound ==
  /\ \A n \in Pids : child[n].phase = "unborn" <=> n > spawned
  /\ handle \in {0, spawned}
  /\ \A n \in Living : n = spawned
  /\ parentAlive /\ hostAlive => \A n \in Living : n = handle

\* What was read of each child; an exit is announced once, for m_process, and
\* readyEmitted is about m_process.
HearingSound ==
  /\ \A n \in Pids :
       /\ readies[n] = (IF child[n].said = "heard" THEN 1 ELSE 0)
       /\ child[n].phase \in Starting \cup {"unborn"} => child[n].said = "nothing"
       /\ exits[n] \in {0, 1}
       /\ exits[n] = 1 => child[n].phase = "gone" /\ child[n].said # "READY"
       /\ exits[n] = 0 => n = handle \/ n > spawned
  /\ handle # 0 => (readyEmitted <=> child[handle].said = "heard")

\* A child that stop() has signalled, and that was responsive since, has left
\* enough of its grace unspent to be gone in time, or has lost the signal.
Reacts(c) ==
  /\ c.signalled /\ c.phase \notin {"forked", "guarding"}
  /\ stopping.left < Budget =>
       \/ c.phase \in {"loading", "serving"} /\ ~c.pipe
       \/ c.phase = "unloading" /\ c.grace < stopping.left

GraceSound ==
  /\ \A n \in Pids : child[n].grace <= Grace
  /\ stopping.stage = "terminating" =>
       \/ child[stopping.child].excused
       \/ child[stopping.child].phase = "gone"
       \/ Reacts(child[stopping.child])

\* The inductive invariant.
HostInv ==
  /\ TypeOK
  /\ StopSound /\ ChildrenSound /\ HearingSound /\ GraceSound

-----------------------------------------------------------------------------
\* TypeOK, with the children's records under their name.
LEMMA ChildTyped ==
  TypeOK <=>
  /\ parentAlive \in BOOLEAN
  /\ hostAlive \in BOOLEAN
  /\ spawned \in 0..MaxSpawns
  /\ handle \in 0..spawned
  /\ readyEmitted \in BOOLEAN
  /\ stopping \in [child : 0..spawned, stage : {"none", "terminating", "killing"},
                   left : Nat, destroying : BOOLEAN]
  /\ child \in [Pids -> Child]
  /\ readies \in [Pids -> Nat]
  /\ exits \in [Pids -> Nat]
BY DEF TypeOK, Child

\* What a step of a child by itself may do to it.
Moved(c, d) ==
  /\ c.phase \notin {"unborn", "gone"} /\ d.phase # "unborn"
  /\ d.doomed = c.doomed /\ d.excused = c.excused /\ d.signalled = c.signalled
  /\ d.grace \in {c.grace, Grace}
  /\ d.phase \in Starting => c.phase \in Starting
  /\ d.said = c.said \/ (c.phase = "loading" /\ d.phase = "serving" /\ d.said = "READY")
  /\ d.phase # "forked" /\ (d.phase = "guarding" => c.phase = "forked")
  /\ c.phase \in {"loading", "serving"} /\ ~c.pipe
       => d.phase = "gone" \/ (d.phase \in {"loading", "serving"} /\ ~d.pipe)
  /\ c.phase = "unloading" => d.phase \in {"unloading", "gone"} /\ d.grace = c.grace

\* A step of a child that only changes its phase.
LEMMA PhaseMoves ==
  ASSUME TypeOK, NEW n \in Pids, NEW phase \in Phases \ {"unborn"},
         child' = [child EXCEPT ![n].phase = phase],
         child[n].phase \notin {"unborn", "gone"},
         \/ phase = "gone"
         \/ child[n].phase = "guarding" /\ phase = "handling"
         \/ child[n].phase = "handling" /\ phase = "loading"
  PROVE  \E d \in Child : child' = [child EXCEPT ![n] = d] /\ Moved(child[n], d)
<1>1. child[n] \in Child
  BY ChildTyped
<1>2. PICK d : d = [child[n] EXCEPT !.phase = phase]
  OBVIOUS
<1>3. d \in Child
  BY <1>1, <1>2 DEF Child
<1>4. Moved(child[n], d)
  BY <1>1, <1>2 DEF Child, Moved, Starting, Phases, Grace
<1>5. child' = [child EXCEPT ![n] = d]
  BY <1>2
<1> QED BY <1>3, <1>4, <1>5

\* Every step of a child, and the token it is served.
LEMMA ChildMoves ==
  ASSUME TypeOK, NEW n \in Pids, ChildNext(n) \/ ServeToken(n)
  PROVE  /\ \E d \in Child : child' = [child EXCEPT ![n] = d] /\ Moved(child[n], d)
         /\ UNCHANGED <<hostVars, heard>>
<1> USE DEF Moves
<1>0. child[n] \in Child /\ Grace = 2
  BY ChildTyped DEF Grace
<1>1. CASE ReadParent(n)
  <2>1. PICK d : d = [child[n] EXCEPT !.phase = "guarding",
                                      !.parent = IF parentAlive THEN "parent" ELSE "init"]
    OBVIOUS
  <2>2. child' = [child EXCEPT ![n] = d] /\ child[n].phase = "forked"
    BY <1>1, <2>1 DEF ReadParent
  <2>3. d \in Child /\ Moved(child[n], d)
    BY <1>0, <2>1, <2>2 DEF Child, Moved, Starting, Phases
  <2> QED BY <1>1, <2>2, <2>3 DEF ReadParent
<1>2. CASE \/ Guard(n) \/ OrphanExits(n) \/ TokenFails(n) \/ LoadFails(n)
           \/ Unloaded(n) \/ Crash(n) \/ Die(n) \/ ServeToken(n)
  <2>1. PICK phase \in Phases \ {"unborn"} :
           /\ child' = [child EXCEPT ![n].phase = phase]
           /\ \/ phase = "gone"
              \/ child[n].phase = "guarding" /\ phase = "handling"
              \/ child[n].phase = "handling" /\ phase = "loading"
    BY <1>2 DEF Guard, OrphanExits, TokenFails, LoadFails, Unloaded,
                Crash, Die, ServeToken, Phases, Starting
  <2>2. child[n].phase \notin {"unborn", "gone"}
    BY <1>2 DEF Guard, OrphanExits, TokenFails, LoadFails, Unloaded,
                Crash, Die, ServeToken, Watches, Living
  <2>3. UNCHANGED <<hostVars, heard>>
    BY <1>2 DEF Guard, OrphanExits, TokenFails, LoadFails, Unloaded,
                Crash, Die, ServeToken
  <2> QED BY <2>1, <2>2, <2>3, PhaseMoves
<1>3. CASE Serve(n)
  <2>1. PICK d : d = [child[n] EXCEPT !.phase = "serving", !.said = "READY"]
    OBVIOUS
  <2>2. child' = [child EXCEPT ![n] = d] /\ child[n].phase = "loading"
    BY <1>3, <2>1 DEF Serve
  <2>3. d \in Child /\ Moved(child[n], d)
    BY <1>0, <2>1, <2>2 DEF Child, Moved, Starting, Phases
  <2> QED BY <1>3, <2>2, <2>3 DEF Serve
<1>4. CASE Notified(n)
  <2>1. CASE /\ child[n].phase = "serving"
             /\ child' = [child EXCEPT ![n].pipe = FALSE, ![n].phase = "unloading",
                                       ![n].grace = Grace]
    <3>1. PICK d : d = [child[n] EXCEPT !.pipe = FALSE, !.phase = "unloading", !.grace = Grace]
      OBVIOUS
    <3>2. child' = [child EXCEPT ![n] = d] /\ child[n].pipe
      BY <1>4, <2>1, <3>1 DEF Notified
    <3>3. d \in Child /\ Moved(child[n], d)
      BY <1>0, <2>1, <3>1, <3>2 DEF Child, Moved, Starting, Phases
    <3> QED BY <1>4, <3>2, <3>3 DEF Notified
  <2>2. CASE /\ child[n].phase \in {"loading", "unloading"}
             /\ child' = [child EXCEPT ![n].pipe = FALSE]
    <3>1. PICK d : d = [child[n] EXCEPT !.pipe = FALSE]
      OBVIOUS
    <3>2. child' = [child EXCEPT ![n] = d]
      BY <2>2, <3>1
    <3>3. d \in Child /\ Moved(child[n], d)
      BY <1>0, <2>2, <3>1 DEF Child, Moved, Starting, Phases
    <3> QED BY <1>4, <3>2, <3>3 DEF Notified
  <2> QED BY <1>4, <2>1, <2>2 DEF Notified
<1>5. CASE Stick(n)
  <2>1. PICK d : d = [child[n] EXCEPT !.stuck = ~child[n].stuck]
    OBVIOUS
  <2>2. child' = [child EXCEPT ![n] = d] /\ child[n].phase \in {"loading", "serving", "unloading"}
    BY <1>5, <2>1 DEF Stick
  <2>3. d \in Child /\ Moved(child[n], d)
    BY <1>0, <2>1, <2>2 DEF Child, Moved, Starting, Phases
  <2> QED BY <1>5, <2>2, <2>3 DEF Stick
<1> QED BY <1>1, <1>2, <1>3, <1>4, <1>5 DEF ChildNext

\* Numbers of children.
LEMMA Numbers ==
  ASSUME HostInv
  PROVE  /\ MaxSpawns \in Nat /\ spawned \in Nat /\ spawned <= MaxSpawns
         /\ handle \in Nat /\ handle <= spawned
         /\ \A n : n \in Pids <=> n \in Nat /\ 1 <= n /\ n <= MaxSpawns
         /\ handle # 0 => handle \in Pids
         /\ spawned < MaxSpawns => spawned + 1 \in Pids
BY SpawnsAssumption DEF HostInv, TypeOK, Pids

\* stop() is about a child that was started.
LEMMA StopChild ==
  ASSUME HostInv, stopping # Idle
  PROVE  /\ hostAlive /\ stopping.child \in Pids /\ stopping.child <= spawned
         /\ stopping.stage \in {"terminating", "killing"}
         /\ stopping.left \in Nat /\ stopping.destroying \in BOOLEAN
<1>1. hostAlive /\ stopping.child \in 1..spawned
      /\ stopping.stage \in {"terminating", "killing"}
  BY DEF HostInv, StopSound
<1>2. stopping.left \in Nat /\ stopping.destroying \in BOOLEAN
  BY DEF HostInv, TypeOK
<1> QED BY <1>1, <1>2, Numbers DEF HostInv

\* A stop() that waits for a child is running.
LEMMA Stopping == stopping.stage = "terminating" => stopping # Idle
BY DEF Idle

\* A child's own step.
LEMMA ChildKeeps ==
  ASSUME HostInv, NEW n \in Pids, NEW d \in Child,
         child' = [child EXCEPT ![n] = d], Moved(child[n], d),
         UNCHANGED <<hostVars, heard>>
  PROVE  HostInv'
<1>0. /\ UNCHANGED <<parentAlive, hostAlive, spawned, handle, readyEmitted, stopping,
                     readies, exits>>
      /\ child \in [Pids -> Child] /\ child[n] \in Child
      /\ child'[n] = d /\ \A k \in Pids : k # n => child'[k] = child[k]
  BY ChildTyped DEF HostInv, hostVars, heard
<1>1. TypeOK'
  <2>1. child' \in [Pids -> Child]
    BY <1>0
  <2> QED BY <1>0, <2>1, ChildTyped DEF HostInv, TypeOK, Child
<1>2. StopSound'
  BY <1>0 DEF HostInv, StopSound, Idle
<1>3. ChildrenSound'
  <2>1. \A k \in Pids : child'[k].phase = "unborn" <=> child[k].phase = "unborn"
    BY <1>0 DEF Moved
  <2>2. \A k \in Pids : k \in Living' => k \in Living
    BY <1>0, <2>1 DEF Moved, Living
  <2>3. Living' \subseteq Pids
    BY DEF Living
  <2> QED BY <1>0, <2>1, <2>2, <2>3 DEF HostInv, ChildrenSound
<1>4. HearingSound'
  <2>1. ASSUME NEW k \in Pids
        PROVE  /\ readies'[k] = (IF child'[k].said = "heard" THEN 1 ELSE 0)
               /\ child'[k].phase \in Starting \cup {"unborn"} => child'[k].said = "nothing"
               /\ exits'[k] \in {0, 1}
               /\ exits'[k] = 1 => child'[k].phase = "gone" /\ child'[k].said # "READY"
               /\ exits'[k] = 0 => k = handle' \/ k > spawned'
    <3>1. CASE k # n
      BY <1>0, <3>1 DEF HostInv, HearingSound
    <3>2. CASE k = n
      BY <1>0, <3>2 DEF HostInv, HearingSound, Moved, Starting
    <3> QED BY <3>1, <3>2
  <2>2. ASSUME handle' # 0 PROVE readyEmitted' <=> child'[handle'].said = "heard"
    <3>1. handle \in Pids
      BY <1>0, <2>2, Numbers DEF HostInv
    <3>2. child'[handle].said = "heard" <=> child[handle].said = "heard"
      <4>1. CASE handle # n
        BY <1>0, <3>1, <4>1
      <4>2. CASE handle = n
        BY <1>0, <4>2 DEF Moved, HostInv, HearingSound, Starting
      <4> QED BY <4>1, <4>2
    <3> QED BY <1>0, <2>2, <3>2 DEF HostInv, HearingSound
  <2> QED BY <2>1, <2>2 DEF HearingSound
<1>5. GraceSound'
  <2>1. \A k \in Pids : child'[k].grace <= Grace
    BY <1>0 DEF HostInv, GraceSound, Moved, Grace
  <2>2. ASSUME stopping.stage = "terminating", NEW s, s = stopping.child
        PROVE  child'[s].excused \/ child'[s].phase = "gone" \/ Reacts(child[s])'
    <3>1. s \in Pids
      BY <2>2, StopChild, Stopping
    <3>2. child[s].excused \/ child[s].phase = "gone" \/ Reacts(child[s])
      BY <2>2 DEF HostInv, GraceSound
    <3>3. CASE s # n
      BY <1>0, <3>1, <3>2, <3>3 DEF Reacts
    <3>4. CASE s = n
      <4>1. child[n].excused => d.excused
        BY DEF Moved
      <4>2. child[n].phase # "gone"
        BY DEF Moved
      <4>3. ASSUME Reacts(child[n]) PROVE d.phase = "gone" \/ Reacts(d)
        BY <1>0, <4>3 DEF Moved, Reacts
      <4>4. Reacts(d)' <=> Reacts(d)
        BY <1>0 DEF Reacts
      <4>5. child'[s] = d
        BY <1>0, <3>4
      <4> QED BY <3>2, <3>4, <4>1, <4>2, <4>3, <4>4, <4>5, <1>0 DEF Reacts
    <3> QED BY <3>3, <3>4
  <2> QED BY <1>0, <2>1, <2>2 DEF GraceSound
<1> QED BY <1>1, <1>2, <1>3, <1>4, <1>5 DEF HostInv

\* A child is started while none lives, and nobody has heard of it.
LEMMA StartKeeps ==
  ASSUME HostInv, StartChild, NEW m, parentAlive, hostAlive,
         \/ m = 0 /\ handle = 0 /\ exits' = exits
         \/ m \in Pids /\ handle = m /\ child[m].phase = "gone" /\ child[m].said # "READY"
              /\ exits' = [exits EXCEPT ![m] = 1],
         UNCHANGED <<parentAlive, hostAlive, stopping, readies>>
  PROVE  HostInv'
<1>0. /\ TypeOK /\ child \in [Pids -> Child] /\ exits \in [Pids -> Nat]
      /\ spawned + 1 \in Pids /\ spawned \in Nat /\ handle \in Nat /\ handle <= spawned
      /\ \A n : n \in Pids <=> n \in Nat /\ 1 <= n /\ n <= MaxSpawns
  BY Numbers, ChildTyped DEF HostInv, StartChild
<1>1. PICK c \in Pids : c = spawned + 1
  BY <1>0
<1>2. PICK d : d = [child[c] EXCEPT !.phase = "forked"]
  OBVIOUS
<1>3. /\ spawned' = c /\ handle' = c /\ readyEmitted' = FALSE
      /\ child' = [child EXCEPT ![c] = d]
  BY <1>0, <1>1, <1>2 DEF StartChild, ReadyAtSpawn
<1>4. child[c] \in Child /\ d \in Child /\ d.phase = "forked" /\ d.said = child[c].said
      /\ d.excused = child[c].excused /\ d.grace = child[c].grace
  BY <1>0, <1>1, <1>2 DEF Child, Phases, Starting
<1>5. child'[c] = d /\ \A k \in Pids : k # c => child'[k] = child[k]
  BY <1>0, <1>1, <1>3
<1>6. child[c].phase = "unborn" /\ child[c].said = "nothing" /\ c > spawned /\ c # handle
  BY <1>0, <1>1 DEF HostInv, ChildrenSound, HearingSound, Starting
<1>7. \A k \in Pids : k \notin Living
  BY <1>0 DEF HostInv, ChildrenSound, Living
<1>8. TypeOK'
  <2>1. child' \in [Pids -> Child]
    BY <1>0, <1>3, <1>4
  <2>2. exits' \in [Pids -> Nat]
    BY <1>0
  <2>3. c \in 0..MaxSpawns /\ c \in 0..c
    BY <1>0, <1>1
  <2>4. stopping' \in [child : 0..c, stage : {"none", "terminating", "killing"},
                       left : Nat, destroying : BOOLEAN]
    BY <1>0, <1>1 DEF TypeOK
  <2> QED BY <1>0, <1>3, <2>1, <2>2, <2>3, <2>4 DEF TypeOK, Child
<1>9. StopSound'
  BY <1>0, <1>1, <1>3 DEF HostInv, StopSound, Idle
<1>10. ChildrenSound'
  <2>1. \A k \in Pids : child'[k].phase = "unborn" <=> k > spawned'
    BY <1>0, <1>1, <1>3, <1>4, <1>5, <1>6 DEF HostInv, ChildrenSound
  <2>2. \A k \in Living' : k = c
    BY <1>5, <1>7 DEF Living
  <2> QED BY <1>3, <2>1, <2>2 DEF ChildrenSound
<1>11. HearingSound'
  <2>1. ASSUME NEW k \in Pids
        PROVE  /\ readies'[k] = (IF child'[k].said = "heard" THEN 1 ELSE 0)
               /\ child'[k].phase \in Starting \cup {"unborn"} => child'[k].said = "nothing"
               /\ exits'[k] \in {0, 1}
               /\ exits'[k] = 1 => child'[k].phase = "gone" /\ child'[k].said # "READY"
               /\ exits'[k] = 0 => k = handle' \/ k > spawned'
    <3>1. /\ readies[k] = (IF child[k].said = "heard" THEN 1 ELSE 0)
          /\ child[k].phase \in Starting \cup {"unborn"} => child[k].said = "nothing"
          /\ exits[k] \in {0, 1}
          /\ exits[k] = 1 => child[k].phase = "gone" /\ child[k].said # "READY"
          /\ exits[k] = 0 => k = handle \/ k > spawned
      BY DEF HostInv, HearingSound
    <3>2. CASE k = c
      <4>1. exits'[c] = exits[c] /\ exits[c] # 1
        BY <1>0, <1>6, <3>1, <3>2
      <4> QED BY <1>3, <1>4, <1>5, <1>6, <3>1, <3>2, <4>1
    <3>3. CASE k # c
      <4>1. child'[k] = child[k]
        BY <1>5, <3>3
      <4>2. \/ exits'[k] = exits[k]
            \/ exits'[k] = 1 /\ child[k].phase = "gone" /\ child[k].said # "READY"
        BY <1>0
      <4>3. exits'[k] = 0 => k > c
        BY <1>0, <1>1, <3>1, <3>3
      <4> QED BY <1>3, <3>1, <4>1, <4>2, <4>3
    <3> QED BY <3>2, <3>3
  <2>2. child'[c].said # "heard"
    BY <1>4, <1>5, <1>6
  <2> QED BY <1>3, <2>1, <2>2 DEF HearingSound
<1>12. GraceSound'
  <2>1. \A k \in Pids : child'[k].grace <= Grace
    BY <1>4, <1>5 DEF HostInv, GraceSound
  <2>2. ASSUME stopping.stage = "terminating", NEW s, s = stopping.child
        PROVE  child'[s].excused \/ child'[s].phase = "gone" \/ Reacts(child[s])'
    <3>1. s \in Pids /\ s # c
      BY <1>0, <1>1, <2>2, StopChild, Stopping
    <3>2. child[s].excused \/ child[s].phase = "gone" \/ Reacts(child[s])
      BY <2>2 DEF HostInv, GraceSound
    <3> QED BY <1>5, <3>1, <3>2 DEF Reacts
  <2> QED BY <2>1, <2>2 DEF GraceSound
<1> QED BY <1>8, <1>9, <1>10, <1>11, <1>12 DEF HostInv

\* What a step of the host leaves of a child that it at most kills.
Untouched(c, d) ==
  /\ d.phase = c.phase /\ d.said = c.said /\ d.grace = c.grace
  /\ d.excused = c.excused /\ d.signalled = c.signalled /\ d.pipe = c.pipe

\* The host gives up: a spawn fails, a child is killed, stop() ends, the host or
\* its process goes.
LEMMA GivingUpKeeps ==
  ASSUME HostInv, child' \in [Pids -> Child],
         \A k \in Pids : Untouched(child[k], child'[k]),
         UNCHANGED <<spawned, handle, heard>>,
         parentAlive' \in BOOLEAN, hostAlive' \in BOOLEAN, readyEmitted' \in BOOLEAN,
         parentAlive' /\ hostAlive' => parentAlive /\ hostAlive,
         handle # 0 => readyEmitted' = readyEmitted,
         stopping' # Idle => hostAlive' = hostAlive,
         \/ stopping' = stopping
         \/ stopping' = Idle
         \/ /\ stopping # Idle
            /\ stopping' = [stopping EXCEPT !.stage = "killing", !.left = KillWait]
  PROVE  HostInv'
<1>0. /\ UNCHANGED <<spawned, handle, readies, exits>>
      /\ child \in [Pids -> Child]
      /\ \A k \in Pids : child[k] \in Child /\ child'[k] \in Child
  BY ChildTyped DEF HostInv, heard
<1>1. /\ stopping' \in [child : 0..spawned, stage : {"none", "terminating", "killing"},
                        left : Nat, destroying : BOOLEAN]
      /\ StopSound'
      /\ stopping'.stage = "terminating" => stopping' = stopping
  <2>1. /\ stopping \in [child : 0..spawned, stage : {"none", "terminating", "killing"},
                         left : Nat, destroying : BOOLEAN]
        /\ StopSound /\ 0 \in 0..spawned /\ KillWait \in Nat
    BY Numbers DEF HostInv, TypeOK, KillWait
  <2>2. CASE stopping' = stopping
    BY <1>0, <2>1, <2>2 DEF StopSound, Idle
  <2>3. CASE stopping' = Idle
    BY <1>0, <2>1, <2>3 DEF StopSound, Idle
  <2>4. CASE /\ stopping # Idle
             /\ stopping' = [stopping EXCEPT !.stage = "killing", !.left = KillWait]
    <3>1. /\ stopping'.stage = "killing" /\ stopping'.child = stopping.child
          /\ stopping' \in [child : 0..spawned, stage : {"none", "terminating", "killing"},
                           left : Nat, destroying : BOOLEAN]
          /\ stopping' # Idle
      BY <2>1, <2>4 DEF Idle
    <3>2. hostAlive' /\ stopping'.child \in 1..spawned'
      BY <1>0, <2>1, <2>4, <3>1 DEF StopSound
    <3> QED BY <3>1, <3>2 DEF StopSound
  <2> QED BY <2>2, <2>3, <2>4
<1>2. TypeOK'
  BY <1>0, <1>1 DEF HostInv, TypeOK, Child
<1>3. ChildrenSound'
  <2>1. \A k : k \in Living' <=> k \in Living
    BY <1>0 DEF Untouched, Living
  <2>2. \A k \in Pids : child'[k].phase = child[k].phase
    BY DEF Untouched
  <2> QED BY <1>0, <2>1, <2>2 DEF HostInv, ChildrenSound
<1>4. HearingSound'
  <2>1. \A k \in Pids : child'[k].phase = child[k].phase /\ child'[k].said = child[k].said
    BY DEF Untouched
  <2>2. handle # 0 => handle \in Pids
    BY Numbers DEF HostInv
  <2> QED BY <1>0, <2>1, <2>2 DEF HostInv, HearingSound
<1>5. GraceSound'
  <2>1. \A k \in Pids : child'[k].grace <= Grace
    BY DEF HostInv, GraceSound, Untouched
  <2>2. ASSUME stopping'.stage = "terminating", NEW s, s = stopping'.child
        PROVE  child'[s].excused \/ child'[s].phase = "gone" \/ Reacts(child[s])'
    <3>1. stopping' = stopping /\ s = stopping.child /\ stopping.stage = "terminating"
      BY <1>1, <2>2
    <3>2. s \in Pids
      BY <3>1, StopChild, Stopping
    <3>3. child[s].excused \/ child[s].phase = "gone" \/ Reacts(child[s])
      BY <3>1 DEF HostInv, GraceSound
    <3>4. Untouched(child[s], child'[s])
      BY <3>2
    <3> QED BY <3>1, <3>3, <3>4 DEF Reacts, Untouched
  <2> QED BY <2>1, <2>2 DEF GraceSound
<1> QED BY <1>1, <1>2, <1>3, <1>4, <1>5 DEF HostInv

\* Such steps of the host.
LEMMA HostGivesUp ==
  ASSUME HostInv,
         SpawnFails \/ StopKills \/ StopReturns \/ DestroyIdleHost
           \/ ParentCrashes
           \/ UNCHANGED vars
  PROVE  HostInv'
<1>0. /\ TypeOK /\ child \in [Pids -> Child]
      /\ \A k \in Pids : child[k] \in Child
      /\ parentAlive \in BOOLEAN /\ hostAlive \in BOOLEAN /\ readyEmitted \in BOOLEAN
      /\ handle # 0 => handle \in Pids
  BY ChildTyped, Numbers DEF HostInv
<1>1. \A k \in Pids : Untouched(child[k], child[k])
  BY DEF Untouched
<1>2. CASE SpawnFails \/ DestroyIdleHost \/ ParentCrashes \/ UNCHANGED vars
  <2>1. /\ child' = child /\ UNCHANGED <<spawned, handle, heard>>
        /\ parentAlive' \in BOOLEAN /\ hostAlive' \in BOOLEAN /\ readyEmitted' \in BOOLEAN
        /\ parentAlive' /\ hostAlive' => parentAlive /\ hostAlive
        /\ handle # 0 => readyEmitted' = readyEmitted
        /\ stopping' = stopping \/ stopping' = Idle
        /\ stopping' # Idle => hostAlive' = hostAlive
    <3>1. CASE SpawnFails
      BY <1>0, <3>1 DEF SpawnFails, ReadyAtSpawn
    <3>2. CASE DestroyIdleHost
      BY <1>0, <3>2 DEF DestroyIdleHost, LoopRuns
    <3>3. CASE ParentCrashes
      BY <1>0, <3>3 DEF ParentCrashes
    <3>4. CASE UNCHANGED vars
      BY <1>0, <3>4 DEF vars, hostVars
    <3> QED BY <1>2, <3>1, <3>2, <3>3, <3>4
  <2> QED BY <1>0, <1>1, <2>1, GivingUpKeeps
<1>3. ASSUME NEW n \in Pids, child' = [child EXCEPT ![n].doomed = TRUE]
      PROVE  child' \in [Pids -> Child] /\ \A k \in Pids : Untouched(child[k], child'[k])
  <2>1. PICK d : d = [child[n] EXCEPT !.doomed = TRUE]
    OBVIOUS
  <2>2. d \in Child /\ Untouched(child[n], d)
    BY <1>0, <2>1 DEF Child, Untouched
  <2>3. child' = [child EXCEPT ![n] = d]
    BY <1>3, <2>1
  <2> QED BY <1>0, <1>1, <2>2, <2>3
<1>4. CASE StopKills
  <2>1. PICK n : n = stopping.child
    OBVIOUS
  <2>2. n \in Pids /\ stopping # Idle
    BY <1>4, <2>1, StopChild, Stopping DEF StopKills
  <2>3. /\ child' = [child EXCEPT ![n].doomed = TRUE]
        /\ stopping' = [stopping EXCEPT !.stage = "killing", !.left = KillWait]
        /\ UNCHANGED <<parentAlive, hostAlive, spawned, handle, readyEmitted, heard>>
    BY <1>4, <2>1 DEF StopKills
  <2>4. child' \in [Pids -> Child] /\ \A k \in Pids : Untouched(child[k], child'[k])
    BY <1>3, <2>2, <2>3
  <2> QED BY <1>0, <2>2, <2>3, <2>4, GivingUpKeeps
<1>5. CASE StopReturns
  <2>1. /\ stopping # Idle /\ stopping' = Idle /\ hostAlive' = ~stopping.destroying
        /\ UNCHANGED <<parentAlive, spawned, handle, readyEmitted, heard>>
        /\ child' = IF stopping.destroying /\ handle # 0
                    THEN [child EXCEPT ![handle].doomed = TRUE] ELSE child
    BY <1>5 DEF StopReturns
  <2>2. stopping.destroying \in BOOLEAN
    BY <2>1, StopChild
  <2>3. child' \in [Pids -> Child] /\ \A k \in Pids : Untouched(child[k], child'[k])
    <3>1. CASE child' = child
      BY <1>0, <1>1, <3>1
    <3>2. CASE child' # child
      BY <1>0, <1>3, <2>1, <3>2
    <3> QED BY <3>1, <3>2
  <2>4. hostAlive
    BY <2>1, StopChild
  <2> QED BY <1>0, <2>1, <2>2, <2>3, <2>4, GivingUpKeeps
<1> QED BY <1>2, <1>4, <1>5

\* READY was not announced before, if it is m_process that said it, and the host
\* has heard the end of every other child.
LEMMA ReadKeeps ==
  ASSUME HostInv, NEW n \in Pids, ReadStdout(n)
  PROVE  HostInv'
<1>0. /\ child \in [Pids -> Child] /\ readies \in [Pids -> Nat] /\ exits[n] \in {0, 1}
      /\ child[n].said = "READY" /\ exits[n] # 1
      /\ readyEmitted' = TRUE
      /\ UNCHANGED <<parentAlive, hostAlive, spawned, handle, stopping, exits>>
      /\ readies' = IF readyEmitted THEN readies ELSE [readies EXCEPT ![n] = @ + 1]
  BY ChildTyped DEF HostInv, HearingSound, ReadStdout
<1>1. PICK d : d = [child[n] EXCEPT !.said = "heard"]
  OBVIOUS
<1>2. /\ child' = [child EXCEPT ![n] = d] /\ child'[n] = d /\ d \in Child
      /\ \A k \in Pids : k # n => child'[k] = child[k]
  BY <1>0, <1>1 DEF ReadStdout, Child
<1>3. /\ d.phase = child[n].phase /\ d.said = "heard" /\ d.grace = child[n].grace
      /\ d.excused = child[n].excused /\ d.signalled = child[n].signalled
      /\ d.pipe = child[n].pipe
      /\ child[n].phase \notin Starting \cup {"unborn"}
  BY <1>0, <1>1 DEF HostInv, HearingSound, Child
<1>4. n = handle
  <2>1. n = handle \/ n > spawned
    BY <1>0 DEF HostInv, HearingSound
  <2> QED BY <1>3, <2>1 DEF HostInv, ChildrenSound
<1>5. /\ ~readyEmitted
      /\ readies' = [readies EXCEPT ![n] = 1]
  <2>1. handle # 0
    BY <1>4 DEF Pids
  <2>2. ~readyEmitted
    BY <1>0, <1>4, <2>1 DEF HostInv, HearingSound
  <2>3. readies[n] = 0
    BY <1>0 DEF HostInv, HearingSound
  <2> QED BY <1>0, <2>2, <2>3
<1>6. TypeOK'
  <2>1. child' \in [Pids -> Child] /\ readies' \in [Pids -> Nat]
    BY <1>0, <1>2, <1>5
  <2> QED BY <1>0, <2>1 DEF HostInv, TypeOK, Child
<1>7. StopSound'
  BY <1>0 DEF HostInv, StopSound, Idle
<1>8. ChildrenSound'
  <2>1. \A k \in Pids : child'[k].phase = child[k].phase
    BY <1>2, <1>3
  <2>2. \A k : k \in Living' <=> k \in Living
    BY <2>1 DEF Living
  <2> QED BY <1>0, <2>1, <2>2 DEF HostInv, ChildrenSound
<1>9. HearingSound'
  <2>1. ASSUME NEW k \in Pids
        PROVE  /\ readies'[k] = (IF child'[k].said = "heard" THEN 1 ELSE 0)
               /\ child'[k].phase \in Starting \cup {"unborn"} => child'[k].said = "nothing"
               /\ exits'[k] \in {0, 1}
               /\ exits'[k] = 1 => child'[k].phase = "gone" /\ child'[k].said # "READY"
               /\ exits'[k] = 0 => k = handle' \/ k > spawned'
    <3>1. CASE k = n
      BY <1>0, <1>2, <1>3, <1>4, <1>5, <3>1
    <3>2. CASE k # n
      BY <1>0, <1>2, <1>5, <3>2 DEF HostInv, HearingSound
    <3> QED BY <3>1, <3>2
  <2>2. readyEmitted' <=> child'[handle'].said = "heard"
    BY <1>0, <1>2, <1>3, <1>4
  <2> QED BY <2>1, <2>2 DEF HearingSound
<1>10. GraceSound'
  <2>1. \A k \in Pids : child'[k].grace <= Grace
    BY <1>2, <1>3 DEF HostInv, GraceSound
  <2>2. ASSUME stopping.stage = "terminating", NEW s, s = stopping.child
        PROVE  child'[s].excused \/ child'[s].phase = "gone" \/ Reacts(child[s])'
    <3>1. s \in Pids
      BY <2>2, StopChild, Stopping
    <3>2. child[s].excused \/ child[s].phase = "gone" \/ Reacts(child[s])
      BY <2>2 DEF HostInv, GraceSound
    <3> QED BY <1>0, <1>2, <1>3, <3>1, <3>2 DEF Reacts
  <2> QED BY <1>0, <2>1, <2>2 DEF GraceSound
<1> QED BY <1>6, <1>7, <1>8, <1>9, <1>10 DEF HostInv

\* m_process is cleared: its child is gone, and all it said was read.
LEMMA ClearKeeps ==
  ASSUME HostInv, NEW n \in Pids, child[n].phase = "gone", child[n].said # "READY",
         handle' = IF handle = n THEN 0 ELSE handle,
         exits' = [exits EXCEPT ![n] = 1],
         UNCHANGED <<parentAlive, hostAlive, stopping, readies, spawned, readyEmitted, child>>
  PROVE  HostInv'
<1>0. TypeOK /\ exits \in [Pids -> Nat] /\ child \in [Pids -> Child]
  BY ChildTyped DEF HostInv
<1>1. TypeOK'
  <2>1. exits' \in [Pids -> Nat] /\ handle' \in 0..spawned'
    BY <1>0, Numbers
  <2> QED BY <1>0, <2>1 DEF TypeOK
<1>2. StopSound'
  BY DEF HostInv, StopSound, Idle
<1>3. ChildrenSound'
  <2>1. n \notin Living
    BY DEF Living
  <2> QED BY <2>1 DEF HostInv, ChildrenSound, Living
<1>4. HearingSound'
  BY <1>0 DEF HostInv, HearingSound
<1>5. GraceSound'
  BY DEF HostInv, GraceSound, Reacts
<1> QED BY <1>1, <1>2, <1>3, <1>4, <1>5 DEF HostInv

\* finished(): the next child starts at once, or m_process is cleared.
LEMMA FinishedKeeps ==
  ASSUME HostInv, NEW n \in Pids, Finished(n)
  PROVE  HostInv'
<1>1. /\ parentAlive /\ hostAlive /\ child[n].phase = "gone" /\ child[n].said # "READY"
      /\ exits' = [exits EXCEPT ![n] = 1]
      /\ UNCHANGED <<parentAlive, hostAlive, stopping, readies>>
  BY DEF Finished, Signals
<1>2. CASE handle = n /\ StartChild
  BY <1>1, <1>2, StartKeeps
<1>3. CASE /\ handle' = IF handle = n THEN 0 ELSE handle
           /\ UNCHANGED <<spawned, readyEmitted, child>>
  BY <1>1, <1>3, ClearKeeps
<1> QED BY <1>2, <1>3 DEF Finished

\* stop() begins: a child still without a handler is gone at once, any other has
\* the byte in its pipe and the whole of its grace before the budget's end.
LEMMA StopBeginsKeeps ==
  ASSUME HostInv, NEW destroy \in BOOLEAN, StopBegins(destroy)
  PROVE  HostInv'
<1>0. /\ TypeOK /\ child \in [Pids -> Child] /\ handle \in Pids /\ handle <= spawned
      /\ hostAlive /\ stopping = Idle
      /\ stopping' = [child |-> handle, stage |-> "terminating", left |-> Budget,
                      destroying |-> destroy]
      /\ UNCHANGED <<parentAlive, hostAlive, spawned, handle, readyEmitted, readies, exits>>
      /\ spawned \in Nat /\ handle # 0
  BY ChildTyped, Numbers DEF HostInv, StopBegins, LoopRuns, HandleInStop, heard
<1>1. PICK h \in Pids : h = handle
  BY <1>0
<1>2. PICK d : d = Terminated(child[h])
  OBVIOUS
<1>3. child' = [child EXCEPT ![h] = d] /\ child[h] \in Child
  BY <1>0, <1>1, <1>2 DEF StopBegins
<1>4. child[h].phase # "unborn"
  BY <1>0, <1>1 DEF HostInv, ChildrenSound, Pids
<1>5. /\ d \in Child /\ d.said = child[h].said /\ d.grace = child[h].grace
      /\ \/ d.phase = "gone"
         \/ d.phase = child[h].phase /\ d.signalled /\ d.phase \notin {"forked", "guarding"}
      /\ d.phase # "unborn"
  BY <1>2, <1>3, <1>4 DEF Terminated, Child, Phases, Starting
<1>6. child'[h] = d /\ \A k \in Pids : k # h => child'[k] = child[k]
  BY <1>0, <1>3
<1>7. TypeOK'
  <2>1. child' \in [Pids -> Child]
    BY <1>0, <1>3, <1>5
  <2>2. stopping' \in [child : 0..spawned', stage : {"none", "terminating", "killing"},
                       left : Nat, destroying : BOOLEAN]
    BY <1>0, <1>1 DEF Budget, Pids
  <2> QED BY <1>0, <2>1, <2>2 DEF TypeOK, Child
<1>8. StopSound'
  BY <1>0, <1>1 DEF StopSound, Pids
<1>9. ChildrenSound'
  <2>1. \A k \in Pids : child'[k].phase = "unborn" <=> child[k].phase = "unborn"
    BY <1>4, <1>5, <1>6
  <2>2. \A k \in Pids : child'[k].phase = child[k].phase \/ child'[k].phase = "gone"
    BY <1>5, <1>6
  <2>3. \A k \in Living' : k \in Living
    BY <2>1, <2>2 DEF Living
  <2> QED BY <1>0, <2>1, <2>3 DEF HostInv, ChildrenSound
<1>10. HearingSound'
  <2>1. \A k \in Pids :
          /\ child'[k].said = child[k].said
          /\ child'[k].phase = child[k].phase \/ child'[k].phase = "gone"
    BY <1>5, <1>6
  <2>2. "gone" \notin Starting \cup {"unborn"}
    BY DEF Starting
  <2>3. handle' # 0 => (readyEmitted' <=> child'[handle'].said = "heard")
    BY <1>0, <2>1 DEF HostInv, HearingSound
  <2> QED BY <1>0, <2>1, <2>2, <2>3 DEF HostInv, HearingSound
<1>11. GraceSound'
  <2>1. \A k \in Pids : child'[k].grace <= Grace
    BY <1>5, <1>6 DEF HostInv, GraceSound
  <2>2. d.phase = "gone" \/ Reacts(d)'
    BY <1>0, <1>5 DEF Reacts, Budget
  <2>3. stopping'.child = h /\ child'[h] = d
    BY <1>0, <1>1, <1>6
  <2>4. child'[h].phase = "gone" \/ Reacts(child[h])'
    BY <2>2, <2>3 DEF Reacts
  <2> QED BY <2>1, <2>3, <2>4 DEF GraceSound
<1> QED BY <1>7, <1>8, <1>9, <1>10, <1>11 DEF HostInv

\* A second passes: a child that it finds responsive is unloading, with a second
\* of its grace to spend, or has lost the signal.
LEMMA TickKeeps ==
  ASSUME HostInv, Tick
  PROVE  HostInv'
<1>0. /\ TypeOK /\ child \in [Pids -> Child]
      /\ UNCHANGED <<parentAlive, hostAlive, spawned, handle, readyEmitted, readies, exits>>
      /\ stopping' = [stopping EXCEPT !.left = Less(@)]
      /\ \A n \in Pids : ~Due(n)
      /\ stopping \in [child : 0..spawned, stage : {"none", "terminating", "killing"},
                       left : Nat, destroying : BOOLEAN]
  BY ChildTyped DEF HostInv, Tick, heard, TypeOK
<1>1. ASSUME NEW n \in Pids
      PROVE  /\ child'[n] = [child[n] EXCEPT !.grace = Less(child[n].grace),
                   !.excused = child[n].excused
                                 \/ (stopping.child = n
                                       /\ (child[n].stuck \/ child[n].phase \in Starting))]
             /\ child[n] \in Child
  BY <1>0 DEF Tick
<1>2. \A k \in Nat : Less(k) \in Nat /\ Less(k) <= k /\ (k > 0 => Less(k) = k - 1)
  BY DEF Less
<1>3. ASSUME NEW n \in Pids
      PROVE  /\ child'[n] \in Child
             /\ child'[n].phase = child[n].phase /\ child'[n].said = child[n].said
             /\ child'[n].signalled = child[n].signalled /\ child'[n].pipe = child[n].pipe
             /\ child'[n].grace = Less(child[n].grace) /\ child[n].grace \in Nat
             /\ child'[n].excused = (child[n].excused
                                 \/ (stopping.child = n
                                       /\ (child[n].stuck \/ child[n].phase \in Starting)))
  <2>1. PICK x \in BOOLEAN : x = (child[n].excused
                                  \/ (stopping.child = n
                                        /\ (child[n].stuck \/ child[n].phase \in Starting)))
    OBVIOUS
  <2>2. child'[n] = [child[n] EXCEPT !.grace = Less(child[n].grace), !.excused = x]
    BY <1>1, <2>1
  <2>3. child[n] \in Child /\ child[n].grace \in Nat /\ Less(child[n].grace) \in Nat
    BY <1>1, <1>2 DEF Child
  <2>4. /\ child'[n] \in Child
        /\ child'[n].phase = child[n].phase /\ child'[n].said = child[n].said
        /\ child'[n].signalled = child[n].signalled /\ child'[n].pipe = child[n].pipe
        /\ child'[n].grace = Less(child[n].grace) /\ child'[n].excused = x
    BY <2>2, <2>3 DEF Child
  <2> QED BY <2>1, <2>3, <2>4
<1>4. /\ stopping'.left = Less(stopping.left) /\ stopping'.child = stopping.child
      /\ stopping'.stage = stopping.stage /\ stopping.left \in Nat
      /\ stopping' \in [child : 0..spawned, stage : {"none", "terminating", "killing"},
                        left : Nat, destroying : BOOLEAN]
  BY <1>0, <1>2
<1>5. TypeOK'
  <2>1. child' \in [Pids -> Child]
    BY <1>3 DEF Tick
  <2> QED BY <1>0, <1>4, <2>1 DEF TypeOK, Child
<1>6. StopSound'
  <2>1. stopping = Idle => stopping' = Idle
    BY <1>0 DEF Less, Idle
  <2> QED BY <1>0, <1>4, <2>1 DEF HostInv, StopSound
<1>7. ChildrenSound'
  <2>1. \A k : k \in Living' <=> k \in Living
    BY <1>3 DEF Living
  <2> QED BY <1>0, <1>3, <2>1 DEF HostInv, ChildrenSound
<1>8. HearingSound'
  <2>1. handle # 0 => handle \in Pids
    BY <1>0, Numbers
  <2>2. \A k \in Pids : child'[k].phase = child[k].phase /\ child'[k].said = child[k].said
    BY <1>3
  <2> QED BY <1>0, <2>1, <2>2 DEF HostInv, HearingSound
<1>9. GraceSound'
  <2>1. \A k \in Pids : child'[k].grace <= Grace
    BY <1>2, <1>3 DEF HostInv, GraceSound, Grace
  <2>2. ASSUME stopping.stage = "terminating", NEW s, s = stopping.child
        PROVE  child'[s].excused \/ child'[s].phase = "gone" \/ Reacts(child[s])'
    <3>1. s \in Pids
      BY <2>2, StopChild, Stopping
    <3>2. child[s].excused \/ child[s].phase = "gone" \/ Reacts(child[s])
      BY <2>2 DEF HostInv, GraceSound
    <3> SUFFICES ASSUME ~child'[s].excused, child[s].phase # "gone"
                 PROVE  Reacts(child[s])'
      BY <1>3, <3>1
    <3>3. ~child[s].excused /\ ~child[s].stuck /\ child[s].phase \notin Starting
      BY <1>3, <2>2, <3>1
    <3>4. Reacts(child[s])
      BY <3>2, <3>3
    <3>5. /\ ~(child[s].phase = "serving" /\ child[s].pipe)
          /\ child[s].phase = "unloading" => child[s].grace # 0
      BY <1>0, <3>1, <3>3 DEF Due
    <3>6. child[s].phase # "unborn"
      <4>1. s <= spawned /\ s \in Nat /\ spawned \in Nat
        BY <1>0, <2>2, <3>1, StopChild, Stopping, Numbers
      <4>2. child[s].phase = "unborn" <=> s > spawned
        BY <3>1 DEF HostInv, ChildrenSound
      <4> QED BY <4>1, <4>2
    <3>7. child[s].phase \in {"serving", "unloading"}
      BY <1>3, <1>1, <3>1, <3>3, <3>6 DEF Child, Phases
    <3>8. CASE child[s].phase = "serving"
      BY <1>3, <3>1, <3>4, <3>5, <3>8 DEF Reacts
    <3>9. CASE child[s].phase = "unloading"
      <4>1. child[s].grace \in 1..2
        BY <1>3, <3>1, <3>5, <3>9 DEF HostInv, GraceSound, Grace
      <4>2. stopping.left < 3 => child[s].grace < stopping.left
        BY <3>4, <3>9 DEF Reacts, Budget
      <4>3. child'[s].grace < stopping'.left \/ ~(stopping'.left < 3)
        BY <1>2, <1>3, <1>4, <3>1, <4>1, <4>2
      <4> QED BY <1>3, <3>1, <3>4, <3>9, <4>3 DEF Reacts, Budget
    <3> QED BY <3>7, <3>8, <3>9
  <2> QED BY <1>4, <2>1, <2>2 DEF GraceSound
<1> QED BY <1>5, <1>6, <1>7, <1>8, <1>9 DEF HostInv

\* The initial state: no child was started.
LEMMA HostInit == Init => HostInv
<1> SUFFICES ASSUME Init PROVE HostInv
  OBVIOUS
<1>1. /\ spawned = 0 /\ handle = 0 /\ stopping = Idle /\ MaxSpawns \in Nat /\ 0 \in 0..0
      /\ \A n \in Pids :
           /\ child[n] = [phase |-> "unborn", parent |-> "unread", pipe |-> FALSE,
                          signalled |-> FALSE, stuck |-> FALSE, grace |-> 0,
                          said |-> "nothing", doomed |-> FALSE, excused |-> FALSE]
           /\ child[n] \in Child /\ n > 0
           /\ readies[n] = 0 /\ exits[n] = 0
  BY SpawnsAssumption DEF Init, Child, Phases, Pids
<1>2. TypeOK
  <2>1. /\ child \in [Pids -> Child]
        /\ readies \in [Pids -> Nat] /\ exits \in [Pids -> Nat]
    BY <1>1 DEF Init
  <2>2. stopping \in [child : 0..spawned, stage : {"none", "terminating", "killing"},
                      left : Nat, destroying : BOOLEAN]
    BY <1>1 DEF Idle
  <2>3. /\ parentAlive \in BOOLEAN /\ hostAlive \in BOOLEAN /\ readyEmitted \in BOOLEAN
    BY Zenon DEF Init
  <2>4. spawned \in 0..MaxSpawns /\ handle \in 0..spawned
    BY <1>1
  <2> QED BY <2>1, <2>2, <2>3, <2>4, ChildTyped, Zenon
<1>3. StopSound /\ ChildrenSound /\ HearingSound
  BY <1>1 DEF StopSound, ChildrenSound, HearingSound, Living
<1>4. GraceSound
  BY <1>1 DEF GraceSound, Grace, Idle
<1> QED BY <1>2, <1>3, <1>4 DEF HostInv

\* Every step of host and children.
LEMMA HostStep == HostInv /\ [Next]_vars => HostInv'
<1> SUFFICES ASSUME HostInv, [Next]_vars PROVE HostInv'
  OBVIOUS
<1>1. ASSUME NEW n \in Pids, ChildNext(n) \/ ServeToken(n) PROVE HostInv'
  <2>1. /\ UNCHANGED <<hostVars, heard>>
        /\ \E d \in Child : child' = [child EXCEPT ![n] = d] /\ Moved(child[n], d)
    BY <1>1, ChildMoves DEF HostInv
  <2>2. PICK d \in Child : child' = [child EXCEPT ![n] = d] /\ Moved(child[n], d)
    BY <2>1
  <2> QED BY <2>1, <2>2, ChildKeeps
<1>2. CASE Spawn
  <2>1. /\ StartChild /\ handle = 0 /\ parentAlive /\ hostAlive
        /\ UNCHANGED <<parentAlive, hostAlive, stopping, readies>> /\ exits' = exits
    BY <1>2 DEF Spawn, LoopRuns, heard
  <2> QED BY <2>1, StartKeeps
<1> QED BY <1>1, <1>2, ReadKeeps, FinishedKeeps, StopBeginsKeeps, TickKeeps, HostGivesUp
        DEF Next, HostNext

\* The inductive invariant of a host and its children.
THEOREM HostSound == Spec => []HostInv
<1>1. Init => HostInv
  BY HostInit
<1> QED BY <1>1, HostStep, PTL DEF Spec

\* The types of the host's state.
THEOREM HostTypes == Spec => []TypeOK
<1>1. HostInv => TypeOK
  BY DEF HostInv
<1> QED BY <1>1, HostSound, PTL

\* One process per host: no child is started while another lives, and the living
\* one is m_process.
THEOREM OneChildPerHost == Spec => []OneChild
<1>1. HostInv => OneChild
  BY DEF HostInv, ChildrenSound, OneChild
<1> QED BY <1>1, HostSound, PTL

\* What a host has read of a child it announced exactly once, and of no other.
THEOREM ReadyIsAnnounced == Spec => []ReadyIsHeard
<1>1. HostInv => ReadyIsHeard
  BY DEF HostInv, HearingSound, ReadyIsHeard
<1> QED BY <1>1, HostSound, PTL

\* stop() kills no child that was serving and gave its loop back: its grace fits
\* into the budget, second by second.
THEOREM KillsAreExcused == Spec => KillsOnlyTheUnresponsive
<1>1. ASSUME HostInv, [Next]_vars, NEW n \in Pids, ~child[n].doomed, child'[n].doomed
      PROVE  child[n].excused \/ Lost(n) \/ ~hostAlive'
  <2>0. TypeOK /\ child \in [Pids -> Child]
    BY <1>1, ChildTyped DEF HostInv
  <2>1. ASSUME NEW k \in Pids, NEW d, child' = [child EXCEPT ![k] = d],
               d.doomed = child[k].doomed
        PROVE  FALSE
    BY <1>1, <2>0, <2>1
  <2>2. ASSUME NEW k \in Pids, ChildNext(k) \/ ServeToken(k) PROVE FALSE
    BY <2>0, <2>1, <2>2, ChildMoves DEF Moved
  <2>3. ASSUME NEW k \in Pids, NEW d, d \in {"forked"}, child' = [child EXCEPT ![k].phase = d]
        PROVE  FALSE
    <3>1. PICK e : e = [child[k] EXCEPT !.phase = d]
      OBVIOUS
    <3>2. child' = [child EXCEPT ![k] = e] /\ e.doomed = child[k].doomed
      BY <2>0, <2>3, <3>1 DEF Child
    <3> QED BY <2>1, <3>2
  <2>4. ASSUME StartChild PROVE FALSE
    BY <1>1, <2>0, <2>3, <2>4, Numbers DEF StartChild
  <2>5. ASSUME NEW k \in Pids, ReadStdout(k) PROVE FALSE
    <3>1. PICK e : e = [child[k] EXCEPT !.said = "heard"]
      OBVIOUS
    <3>2. child' = [child EXCEPT ![k] = e] /\ e.doomed = child[k].doomed
      BY <2>0, <2>5, <3>1 DEF Child, ReadStdout
    <3> QED BY <2>1, <3>2
  <2>6. child' = child => FALSE
    BY <1>1
  <2>7. ASSUME NEW b \in BOOLEAN, StopBegins(b) PROVE FALSE
    <3>1. PICK h, e : h = handle /\ e = Terminated(child[h])
      OBVIOUS
    <3>2. h \in Pids /\ child' = [child EXCEPT ![h] = e]
      BY <1>1, <2>0, <2>7, <3>1, Numbers DEF StopBegins
    <3>3. e.doomed = child[h].doomed
      BY <2>0, <3>1, <3>2 DEF Terminated, Child
    <3> QED BY <2>1, <3>2, <3>3
  <2>8. CASE Tick
    BY <1>1, <2>0, <2>8 DEF Tick, Child
  <2>9. CASE StopReturns
    BY <1>1, <2>9 DEF StopReturns
  <2>10. CASE StopKills
    <3>1. n = stopping.child
      BY <1>1, <2>0, <2>10 DEF StopKills
    <3>2. stopping.stage = "terminating" /\ stopping.left = 0 /\ child[n].phase # "gone"
      BY <2>10, <3>1 DEF StopKills
    <3>3. child[n].excused \/ Reacts(child[n])
      BY <1>1, <3>1, <3>2 DEF HostInv, GraceSound
    <3>4. child[n].grace \in Nat
      BY <2>0 DEF Child
    <3> QED BY <3>2, <3>3, <3>4 DEF Reacts, Lost, Budget
  <2>11. Spawn \/ (\E k \in Pids : Finished(k)) => StartChild \/ child' = child
    BY DEF Spawn, Finished
  <2>12. SpawnFails \/ DestroyIdleHost \/ ParentCrashes \/ UNCHANGED vars
           => child' = child
    BY DEF SpawnFails, DestroyIdleHost, ParentCrashes, vars
  <2> QED BY <1>1, <2>2, <2>4, <2>5, <2>6, <2>7, <2>8, <2>9, <2>10, <2>11, <2>12
          DEF Next, HostNext
<1>2. HostInv /\ [Next]_vars =>
        [\A n \in Pids : ~child[n].doomed /\ child'[n].doomed
           => child[n].excused \/ Lost(n) \/ ~hostAlive']_vars
  BY <1>1
<1> QED BY <1>2, HostSound, PTL DEF Spec, KillsOnlyTheUnresponsive
=============================================================================
