------------------------------- MODULE ViewHost -------------------------------
(***************************************************************************)
(* A view module's process: ViewModuleHost (src/ViewModuleHost.cpp) spawns *)
(* and stops it, ui-host (ui-host/main.cpp) is the process.                *)
(*                                                                         *)
(* Time is a clock of whole seconds: Tick takes the budgets of stop() and  *)
(* of the unload hook down, and waits for whatever a responsive process    *)
(* does at once.  The POSIX build is modelled; QProcess, the operating     *)
(* system, the plugin and the owner of the host are external.              *)
(***************************************************************************)
EXTENDS Naturals

CONSTANT MaxSpawns   \* bound: children a host starts in its life

ASSUME SpawnsAssumption == MaxSpawns \in Nat \ {0}

Pids     == 1..MaxSpawns
Idle     == [child |-> 0, stage |-> "none", left |-> 0, destroying |-> FALSE]
Starting == {"forked", "guarding", "handling", "loading"}
Phases   == Starting \cup {"unborn", "serving", "unloading", "gone"}

VARIABLES
  parentAlive,   \* the process of the host
  hostAlive,     \* the ViewModuleHost object
  spawned,       \* children started so far
  handle,        \* m_process: the child it stands for, 0 if null
  readyEmitted,  \* m_readyEmitted
  stopping,      \* the running stop(), which blocks its thread
  child,         \* the children, as the operating system has them
  readies,       \* ready() emissions for each child
  exits          \* processExited() emissions for each child

hostVars == <<parentAlive, hostAlive, spawned, handle, readyEmitted, stopping>>
heard    == <<readies, exits>>
vars     == <<hostVars, child, heard>>

-----------------------------------------------------------------------------
TypeOK ==
  /\ parentAlive \in BOOLEAN
  /\ hostAlive \in BOOLEAN
  /\ spawned \in 0..MaxSpawns
  /\ handle \in 0..spawned
  /\ readyEmitted \in BOOLEAN
  /\ stopping \in [child : 0..spawned, stage : {"none", "terminating", "killing"},
                   left : Nat, destroying : BOOLEAN]
  /\ child \in [Pids -> [phase : Phases,
                         parent : {"unread", "parent", "init"},  \* parent_pid
                         pipe : BOOLEAN,       \* a byte in sigPipe
                         signalled : BOOLEAN,  \* the handler ran at least once
                         stuck : BOOLEAN,      \* its main thread is in plugin code
                         grace : Nat,          \* left of kUnloadGraceMs
                         said : {"nothing", "READY", "heard"},
                         doomed : BOOLEAN,     \* SIGKILL is under way
                         excused : BOOLEAN]]   \* was not responsive during stop()
  /\ readies \in [Pids -> Nat]
  /\ exits \in [Pids -> Nat]

Init ==
  /\ parentAlive = TRUE
  /\ hostAlive = TRUE
  /\ spawned = 0
  /\ handle = 0
  /\ readyEmitted = FALSE
  /\ stopping = Idle
  /\ child = [n \in Pids |->
       [phase |-> "unborn", parent |-> "unread", pipe |-> FALSE, signalled |-> FALSE,
        stuck |-> FALSE, grace |-> 0, said |-> "nothing", doomed |-> FALSE, excused |-> FALSE]]
  /\ readies = [n \in Pids |-> 0]
  /\ exits = [n \in Pids |-> 0]

Living == {n \in Pids : child[n].phase \notin {"unborn", "gone"}}

\* The host's thread runs its event loop.
LoopRuns == parentAlive /\ hostAlive /\ stopping = Idle

\* Signals of child n's QProcess are delivered by the event loop, and inside
\* the waitForFinished() of its own stop().
Signals(n) == parentAlive /\ hostAlive /\ stopping.child \in {0, n}

-----------------------------------------------------------------------------
(* ViewModuleHost                                                          *)

\* spawn(), gone wrong: a second child inherits what the first one said.
ReadyAtSpawn_Kept == readyEmitted

\* spawn() resets what it knows of the child's output.
ReadyAtSpawn == FALSE

StartChild ==
  /\ spawned < MaxSpawns
  /\ spawned' = spawned + 1
  /\ handle' = spawned + 1
  /\ readyEmitted' = ReadyAtSpawn
  /\ child' = [child EXCEPT ![spawned + 1].phase = "forked"]

Spawn ==
  /\ LoopRuns
  /\ handle = 0
  /\ StartChild
  /\ UNCHANGED <<parentAlive, hostAlive, stopping, heard>>

\* spawn() fails: no binary, no socket, or the process never starts.  (Without a
\* token nothing happens at all.)
SpawnFails ==
  /\ LoopRuns
  /\ handle = 0
  /\ readyEmitted' = ReadyAtSpawn
  /\ UNCHANGED <<parentAlive, hostAlive, spawned, handle, stopping, child, heard>>

\* newConnection of the token server: the credential goes out and is read.
ServeToken(n) ==
  /\ LoopRuns
  /\ child[n].phase = "handling"
  /\ child' = [child EXCEPT ![n].phase = "loading"]
  /\ UNCHANGED <<hostVars, heard>>

\* readyReadStandardOutput: ready() is emitted at most once.
ReadStdout(n) ==
  /\ Signals(n)
  /\ child[n].said = "READY"
  /\ child' = [child EXCEPT ![n].said = "heard"]
  /\ readyEmitted' = TRUE
  /\ readies' = IF readyEmitted THEN readies ELSE [readies EXCEPT ![n] = @ + 1]
  /\ UNCHANGED <<parentAlive, hostAlive, spawned, handle, stopping, exits>>

\* finished(), with the output drained: processExited() is emitted, and the
\* owner may spawn the next child from its slot, even inside stop().
Finished(n) ==
  /\ Signals(n)
  /\ child[n].phase = "gone"
  /\ child[n].said # "READY"
  /\ exits[n] = 0
  /\ exits' = [exits EXCEPT ![n] = 1]
  /\ IF handle = n
     THEN \/ StartChild
          \/ handle' = 0 /\ UNCHANGED <<spawned, readyEmitted, child>>
     ELSE UNCHANGED <<handle, spawned, readyEmitted, child>>
  /\ UNCHANGED <<parentAlive, hostAlive, stopping, readies>>

\* SIGTERM: the default action before ui-host installed its handler, and a byte
\* in the pipe afterwards.
Terminated(c) ==
  CASE c.phase \in {"forked", "guarding"} -> [c EXCEPT !.phase = "gone"]
    [] c.phase = "gone" -> c
    [] OTHER -> [c EXCEPT !.pipe = TRUE, !.signalled = TRUE]

\* stop(), gone wrong: m_process is cleared at once.
HandleInStop_Cleared == 0

\* stop() leaves m_process alone until finished() clears it.
HandleInStop == handle

\* The wait that follows a kill(), gone wrong: waitForFinished(-1), no bound at all.
KillWait_Forever == 0 - 1

\* waitForFinished(3000), and the 1000 that follow a kill().
Budget   == 3
KillWait == 1

\* stop() and ~ViewModuleHost(), which calls it.
StopBegins(destroy) ==
  /\ LoopRuns
  /\ handle # 0
  /\ handle' = HandleInStop
  /\ stopping' = [child |-> handle, stage |-> "terminating", left |-> Budget, destroying |-> destroy]
  /\ child' = [child EXCEPT ![handle] = Terminated(@)]
  /\ UNCHANGED <<parentAlive, hostAlive, spawned, readyEmitted, heard>>

StopKills ==
  LET n == stopping.child
  IN /\ parentAlive
     /\ stopping.stage = "terminating"
     /\ stopping.left = 0
     /\ child[n].phase # "gone"
     /\ child' = [child EXCEPT ![n].doomed = TRUE]
     /\ stopping' = [stopping EXCEPT !.stage = "killing", !.left = KillWait]
     /\ UNCHANGED <<parentAlive, hostAlive, spawned, handle, readyEmitted, heard>>

\* stop() returns, because the child finished or the second wait expired; in the
\* destructor the QProcess that is left is destroyed too, and kills its child.
StopReturns ==
  /\ parentAlive
  /\ stopping # Idle
  /\ exits[stopping.child] = 1 \/ (stopping.stage = "killing" /\ stopping.left = 0)
  /\ stopping' = Idle
  /\ hostAlive' = ~stopping.destroying
  /\ child' = IF stopping.destroying /\ handle # 0
              THEN [child EXCEPT ![handle].doomed = TRUE] ELSE child
  /\ UNCHANGED <<parentAlive, spawned, handle, readyEmitted, heard>>

DestroyIdleHost ==
  /\ LoopRuns
  /\ handle = 0
  /\ hostAlive' = FALSE
  /\ UNCHANGED <<parentAlive, spawned, handle, readyEmitted, stopping, child, heard>>

ParentCrashes ==
  /\ parentAlive
  /\ parentAlive' = FALSE
  /\ stopping' = Idle
  /\ UNCHANGED <<hostAlive, spawned, handle, readyEmitted, child, heard>>

-----------------------------------------------------------------------------
(* ui-host                                                                 *)

\* A step of child n alone.
Moves(n, phase) ==
  /\ child' = [child EXCEPT ![n].phase = phase]
  /\ UNCHANGED <<hostVars, heard>>

\* getppid(): a child whose parent died before it looked takes init for it.
ReadParent(n) ==
  /\ child[n].phase = "forked"
  /\ child' = [child EXCEPT ![n].phase = "guarding",
                            ![n].parent = IF parentAlive THEN "parent" ELSE "init"]
  /\ UNCHANGED <<hostVars, heard>>

Orphan(n) == child[n].parent = "parent" /\ ~parentAlive

\* The second getppid(), the watchdog thread and the signal handlers.
Guard(n) ==
  /\ child[n].phase = "guarding"
  /\ Moves(n, IF Orphan(n) THEN "gone" ELSE "handling")

\* The watchdog, gone wrong: it is a timer of the main thread.
Watches_MainThread(n) == child[n].phase \in {"handling", "loading", "serving", "unloading"} /\ ~child[n].stuck

\* The watchdog has a thread of its own.
Watches(n) == child[n].phase \in {"handling", "loading", "serving", "unloading"}

OrphanExits(n) ==
  /\ Watches(n)
  /\ Orphan(n)
  /\ Moves(n, "gone")

\* The parent does not answer on the token socket in time, or is not there.
TokenFails(n) ==
  /\ child[n].phase = "handling"
  /\ Moves(n, "gone")

\* A plugin that does not load, or cannot be remoted.
LoadFails(n) ==
  /\ child[n].phase = "loading"
  /\ ~child[n].stuck
  /\ Moves(n, "gone")

\* READY is printed and app.exec() entered.
Serve(n) ==
  /\ child[n].phase = "loading"
  /\ ~child[n].stuck
  /\ child' = [child EXCEPT ![n].phase = "serving", ![n].said = "READY"]
  /\ UNCHANGED <<hostVars, heard>>

\* kUnloadGraceMs, gone wrong: all of the parent's budget.
Grace_Whole == 3

\* kUnloadGraceMs.
Grace == 2

\* The notifier of the pipe: app.quit() ends app.exec(), and does nothing when
\* the loop that runs the notifier is one of initLogos(), before app.exec().
Notified(n) ==
  /\ child[n].pipe
  /\ ~child[n].stuck
  /\ \/ /\ child[n].phase = "serving"
        /\ child' = [child EXCEPT ![n].pipe = FALSE, ![n].phase = "unloading", ![n].grace = Grace]
     \/ /\ child[n].phase \in {"loading", "unloading"}
        /\ child' = [child EXCEPT ![n].pipe = FALSE]
  /\ UNCHANGED <<hostVars, heard>>

\* runPluginAboutToUnload() returns, early or when its deadline passes; the
\* plugin is deleted and main returns.
Unloaded(n) ==
  /\ child[n].phase = "unloading"
  /\ ~child[n].stuck
  /\ Moves(n, "gone")

\* The plugin's own code holds the main thread, and may never give it back.
Stick(n) ==
  /\ child[n].phase \in {"loading", "serving", "unloading"}
  /\ child' = [child EXCEPT ![n].stuck = ~@]
  /\ UNCHANGED <<hostVars, heard>>

Crash(n) ==
  /\ n \in Living
  /\ Moves(n, "gone")

\* SIGKILL arrives, which may take longer than stop() waits for it.
Die(n) ==
  /\ n \in Living
  /\ child[n].doomed
  /\ Moves(n, "gone")

-----------------------------------------------------------------------------
\* What a responsive process does within the same second.
Due(n) ==
  \/ child[n].phase = "serving" /\ child[n].pipe /\ ~child[n].stuck
  \/ child[n].phase = "unloading" /\ child[n].grace = 0 /\ ~child[n].stuck
  \/ child[n].phase = "gone" /\ stopping.child = n

\* A countdown.
Less(k) == IF k = 0 THEN 0 ELSE k - 1

\* A second passes.
Tick ==
  /\ \/ stopping # Idle /\ stopping.left > 0
     \/ stopping = Idle /\ \E n \in Pids : child[n].phase = "unloading" /\ child[n].grace > 0
  /\ \A n \in Pids : ~Due(n)
  /\ stopping' = [stopping EXCEPT !.left = Less(@)]
  /\ child' = [n \in Pids |->
       [child[n] EXCEPT !.grace = Less(@),
                        !.excused = @ \/ (stopping.child = n
                                          /\ (child[n].stuck \/ child[n].phase \in Starting))]]
  /\ UNCHANGED <<parentAlive, hostAlive, spawned, handle, readyEmitted, heard>>

HostNext ==
  \/ Spawn
  \/ SpawnFails
  \/ \E n \in Pids : ServeToken(n)
  \/ \E n \in Pids : ReadStdout(n)
  \/ \E n \in Pids : Finished(n)
  \/ \E destroy \in BOOLEAN : StopBegins(destroy)
  \/ StopKills
  \/ StopReturns
  \/ DestroyIdleHost
  \/ ParentCrashes

ChildNext(n) ==
  \/ ReadParent(n)
  \/ Guard(n)
  \/ OrphanExits(n)
  \/ TokenFails(n)
  \/ LoadFails(n)
  \/ Serve(n)
  \/ Notified(n)
  \/ Unloaded(n)
  \/ Stick(n)
  \/ Crash(n)
  \/ Die(n)

Next == HostNext \/ (\E n \in Pids : ChildNext(n)) \/ Tick

Spec == Init /\ [][Next]_vars

\* The operating system runs a child's start, kills what it was told to kill and
\* schedules the watchdog's thread; connecting to nobody fails.
FairSpec ==
  /\ Spec
  /\ \A n \in Pids : WF_vars(ReadParent(n)) /\ WF_vars(Guard(n)) /\ WF_vars(OrphanExits(n))
                     /\ WF_vars(TokenFails(n)) /\ WF_vars(Die(n))

-----------------------------------------------------------------------------
\* One process per host: a child is never started while another one lives, and
\* a living child is the one stop() would stop.
OneChild ==
  /\ \A n, k \in Living : n = k
  /\ parentAlive /\ hostAlive => Living \subseteq {handle}

\* A byte the handler wrote was read by a loop that could not quit: the signal came
\* while initLogos() ran an event loop, where app.quit() does nothing.
Lost(n) == child[n].phase \in {"loading", "serving"} /\ child[n].signalled /\ ~child[n].pipe

\* stop() never kills a child that was serving and gave its loop back: the grace
\* period fits into the budget.  Only a child whose plugin held the thread, that
\* was still starting, or that lost the signal is killed, or one that is started
\* while its host is being destroyed.
KillsOnlyTheUnresponsive ==
  [][\A n \in Pids : ~child[n].doomed /\ child'[n].doomed
       => child[n].excused \/ Lost(n) \/ ~hostAlive']_vars

\* Whatever READY a host has read of a child it announced exactly once, and of
\* no other child; before its exit is announced, its output has been read.
ReadyIsHeard ==
  \A n \in Pids :
    /\ readies[n] = (IF child[n].said = "heard" THEN 1 ELSE 0)
    /\ exits[n] = 1 => child[n].said # "READY"

\* A child never outlives a crashed parent for good, whatever it was doing.
OrphansEnd == ~parentAlive ~> Living = {}
=============================================================================
