-------------------------- MODULE SidecarSupervisor --------------------------
(* The desktop shell keeps one engine running (apps/desktop/src-tauri/src): *)
(* it spawns alphaloop-engine, reads its handshake, owns it or attaches to  *)
(* the engine of the command line, waits for its exit, starts it again with *)
(* a back-off up to a cap, and lets the user restart it after that.         *)
(*                                                                          *)
(* Threads: the main thread runs setup, restart_engine_sidecar and the exit *)
(* of the application; each owned child has a waiter; each failure below    *)
(* the cap has a recovery thread.  A step is what one of them does under    *)
(* one mutex, or one call on a process.  Of the engine the module keeps     *)
(* what EngineOwner promises: one at a time has the lock, and a second one  *)
(* reports who that is.  Delays, the endpoint the shell talks to (and the   *)
(* owner.json it clears with it), secrets and messages are left out.        *)
EXTENDS Naturals, FiniteSets

CONSTANTS
    MaxRestarts,  \* RestartPolicy.max_restarts
    Recovery,     \* recovery threads
    Main,         \* the main thread
    NoEngine,     \* no process
    CliEngine,    \* the engine of the command line
    MaxPid,       \* bound: engines the desktop spawns
    MaxDeaths,    \* bound: engines that die of themselves
    MaxClicks,    \* bound: restarts by the user
    MaxCli        \* bound: times the command line starts an engine

ASSUME CountAssumption ==
    /\ MaxRestarts \in Nat \ {0} /\ MaxPid \in Nat /\ MaxDeaths \in Nat
    /\ MaxClicks \in Nat /\ MaxCli \in Nat

Pid == 1..MaxPid

ASSUME NameAssumption ==
    /\ Main \notin Recovery
    /\ NoEngine \notin Pid /\ CliEngine \notin Pid /\ NoEngine # CliEngine

\* A recovery gets a thread of its own from the system: there are as many as
\* failures that are answered with one.
ASSUME RecoveryAssumption ==
    /\ IsFiniteSet(Recovery)
    /\ Cardinality(Recovery) >= (MaxRestarts - 1) * (1 + MaxClicks)

VARIABLES
    engine,    \* processes: not yet, starting, serving, dead
    said,      \* the first line of an engine: nothing, or the owner it names
    lock,      \* which engine has the lifetime lock
    child,     \* SharedChild.child: holds the process, or has been emptied
    waiter,    \* the waiter thread of a child
    binding,   \* EngineSupervisor.binding
    ui,        \* SidecarUiState: phase and restart_count
    banner,    \* the window shows that the engine has stopped, and a button
    thread,    \* main and recovery threads
    app,       \* the desktop process
    deaths, clicks, clis

shellVars == <<engine, said, lock, child, waiter, binding, ui, banner,
               thread, app, deaths, clicks, clis>>
procs == <<engine, said, lock>>
bounds == <<deaths, clicks, clis>>

Phase == {"running", "restarting", "stopped"}
Binding == [st : {"stopped"}, pid : {NoEngine}]
           \cup [st : {"owned"}, pid : Pid] \cup [st : {"attached"}, pid : {CliEngine}]
ThreadState ==
    [pc : {"idle", "quit", "kill", "restore", "spawn", "hand",
           "adopt", "attach", "mark", "failed"},
     mode : {"setup", "user", "exit", "recovery"},
     pid : Pid \cup {NoEngine, CliEngine}]

Threads == Recovery \cup {Main}
Unbound == [st |-> "stopped", pid |-> NoEngine]
Idle == [pc |-> "idle", mode |-> "recovery", pid |-> NoEngine]
StartsAt(pc, mode) == [pc |-> pc, mode |-> mode, pid |-> NoEngine]

To(t, pc) == thread' = [thread EXCEPT ![t].pc = pc]
Spawned == {p \in Pid : engine[p] # "unborn"}
Freed(p) == IF lock = p THEN NoEngine ELSE lock

-----------------------------------------------------------------------------
(* Engine processes, as EngineOwner describes them *)

EngineReady(p) ==
    /\ engine[p] = "starting" /\ lock = NoEngine
    /\ engine' = [engine EXCEPT ![p] = "serving"]
    /\ said' = [said EXCEPT ![p] = p]
    /\ lock' = p
    /\ UNCHANGED <<child, waiter, binding, ui, banner, thread, app, bounds>>

\* already_running, and the process exits.
EngineRefused(p) ==
    /\ engine[p] = "starting" /\ lock # NoEngine
    /\ engine' = [engine EXCEPT ![p] = "dead"]
    /\ said' = [said EXCEPT ![p] = lock]
    /\ UNCHANGED <<lock, child, waiter, binding, ui, banner, thread, app,
                   bounds>>

EngineDies(p) ==
    /\ engine[p] \in {"starting", "serving"} /\ deaths < MaxDeaths
    /\ engine' = [engine EXCEPT ![p] = "dead"]
    /\ lock' = Freed(p)
    /\ deaths' = deaths + 1
    /\ UNCHANGED <<said, child, waiter, binding, ui, banner, thread, app,
                   clicks, clis>>

\* Slip: the engine does not watch its standard input.
EngineEndsStarting(p) ==
    /\ app = "gone" /\ engine[p] = "starting"
    /\ engine' = [engine EXCEPT ![p] = "dead"]
    /\ lock' = Freed(p)
    /\ UNCHANGED <<said, child, waiter, binding, ui, banner, thread, app, bounds>>

\* Standard input ends with the desktop that held it open: the engine stops.
\* One that has not finished starting fails when it writes its handshake.
EngineEnds(p) ==
    /\ app = "gone" /\ engine[p] \in {"starting", "serving"}
    /\ engine' = [engine EXCEPT ![p] = "dead"]
    /\ lock' = Freed(p)
    /\ UNCHANGED <<said, child, waiter, binding, ui, banner, thread, app,
                   bounds>>

CliStarts == /\ lock = NoEngine /\ clis < MaxCli
             /\ lock' = CliEngine /\ clis' = clis + 1
             /\ UNCHANGED <<engine, said, child, waiter, binding, ui,
                            banner, thread, app, deaths, clicks>>

CliStops == /\ lock = CliEngine
            /\ lock' = NoEngine
            /\ UNCHANGED <<engine, said, child, waiter, binding, ui,
                           banner, thread, app, bounds>>

-----------------------------------------------------------------------------
(* start_desktop_sidecar *)

\* The process that a spawn makes.
Fresh == CHOOSE p \in Pid : engine[p] = "unborn"
                             /\ \A q \in Pid : q < p => engine[q] # "unborn"

Spawn(t) ==
    /\ thread[t].pc = "spawn" /\ Spawned # Pid
    /\ engine' = [engine EXCEPT ![Fresh] = "starting"]
    /\ thread' = [thread EXCEPT ![t].pc = "hand", ![t].pid = Fresh]
    /\ UNCHANGED <<said, lock, child, waiter, binding, ui, banner, app, bounds>>

\* Slip: the end of the output of an engine is not noticed.
NoHandshakeWaits(t) ==
    LET p == thread[t].pid IN
    /\ thread[t].pc = "hand" /\ engine[p] = "starting" /\ said[p] # NoEngine
    /\ To(t, "failed")
    /\ UNCHANGED <<procs, child, waiter, binding, ui, banner, app, bounds>>

\* "engine exited before handshake"; an executable that cannot be spawned fails
\* the start the same way.
NoHandshake(t) ==
    LET p == thread[t].pid IN
    /\ thread[t].pc = "hand" /\ engine[p] = "dead" /\ said[p] = NoEngine
    /\ To(t, "failed")
    /\ UNCHANGED <<procs, child, waiter, binding, ui, banner, app, bounds>>

\* An engine that is ready gets its waiter; one that names an owner other than the command
\* line fails the start.
AfterHandshake(p) == IF said[p] = p THEN "adopt"
                     ELSE IF said[p] = CliEngine THEN "attach" ELSE "failed"
Handshake(t) ==
    LET p == thread[t].pid IN
    /\ thread[t].pc = "hand" /\ said[p] # NoEngine
    /\ To(t, AfterHandshake(p))
    /\ IF said[p] = p
       THEN /\ child' = [child EXCEPT ![p] = "held"]
            /\ waiter' = [waiter EXCEPT ![p] = "watching"]
       ELSE UNCHANGED <<child, waiter>>
    /\ UNCHANGED <<procs, binding, ui, banner, app, bounds>>

\* child.pid() is 0 once the waiter has seen the process exit.
Adopts(p) == child[p] = "held" /\ binding = Unbound
AdoptOwned(t) ==
    LET p == thread[t].pid IN
    /\ thread[t].pc = "adopt"
    /\ IF Adopts(p)
       THEN binding' = [st |-> "owned", pid |-> p] /\ To(t, "mark")
       ELSE UNCHANGED binding /\ To(t, "failed")
    /\ UNCHANGED <<procs, child, waiter, ui, banner, app, bounds>>

Attach(t) ==
    /\ thread[t].pc = "attach"
    /\ IF binding = Unbound
       THEN binding' = [st |-> "attached", pid |-> CliEngine] /\ To(t, "mark")
       ELSE UNCHANGED binding /\ To(t, "failed")
    /\ UNCHANGED <<procs, child, waiter, ui, banner, app, bounds>>

MarkRunning(t) ==
    /\ thread[t].pc = "mark"
    /\ ui' = [ui EXCEPT !.phase = "running"]
    /\ thread' = [thread EXCEPT ![t] = Idle]
    /\ UNCHANGED <<procs, child, waiter, binding, banner, app, bounds>>

-----------------------------------------------------------------------------
(* schedule_sidecar_recovery *)

\* Slip: one restart too many.
CapPassed(count) == count > MaxRestarts
CapExceeded(count) == count >= MaxRestarts

\* record_crash: count the failure, stop at the cap.
RecordCrash ==
    ui' = [phase |-> IF CapExceeded(ui.count + 1) THEN "stopped"
                     ELSE "restarting",
           count |-> ui.count + 1]

Spare == CHOOSE r \in Recovery : thread[r].pc = "idle"
Sleeping == StartsAt("quit", "recovery")

\* A recovery that follows a failed start goes on as the thread of that start.
Fails(t) ==
    /\ thread[t].pc = "failed" /\ thread[t].mode # "user"
    /\ RecordCrash
    /\ IF ui'.phase = "stopped"
       THEN thread' = [thread EXCEPT ![t] = Idle]
       ELSE LET r == IF t = Main THEN Spare ELSE t
            IN  thread' = [thread EXCEPT ![t] = Idle, ![r] = Sleeping]
    /\ UNCHANGED <<procs, child, waiter, binding, banner, app, bounds>>

\* restart_engine_sidecar returns the error to the window.
UserFails(t) ==
    /\ thread[t].pc = "failed" /\ thread[t].mode = "user"
    /\ thread' = [thread EXCEPT ![t] = Idle]
    /\ UNCHANGED <<procs, child, waiter, binding, ui, banner, app, bounds>>

\* The waiter sees an exit, or that somebody took the child to kill it.
Waits(p) ==
    /\ waiter[p] = "watching"
    /\ engine[p] = "dead" \/ child[p] = "empty"
    /\ child' = [child EXCEPT ![p] = "empty"]
    /\ waiter' = [waiter EXCEPT ![p] = "exit"]
    /\ UNCHANGED <<procs, binding, ui, banner, thread, app, bounds>>

\* on_exit
OnExit(p) ==
    /\ waiter[p] = "exit"
    /\ RecordCrash
    /\ IF ui'.phase = "stopped"
       THEN UNCHANGED thread
       ELSE thread' = [thread EXCEPT ![Spare] = Sleeping]
    /\ waiter' = [waiter EXCEPT ![p] = "done"]
    /\ UNCHANGED <<procs, child, binding, banner, app, bounds>>

-----------------------------------------------------------------------------
(* quit, the restart by the user, and the end of the application *)

\* What follows shutdown_owned: nothing at the exit, a start otherwise.
AfterQuit(t) == thread' = [thread EXCEPT ![t] =
                    IF thread[t].mode = "exit" THEN Idle
                    ELSE StartsAt("spawn", thread[t].mode)]

\* shutdown_owned takes the binding, and acts on what it took.
Quit(t) ==
    /\ thread[t].pc = "quit"
    /\ binding' = Unbound
    /\ IF binding = Unbound
       THEN AfterQuit(t)
       ELSE thread' = [thread EXCEPT
                 ![t].pid = binding.pid,
                 ![t].pc = IF binding.st = "owned" THEN "kill" ELSE "restore"]
    /\ UNCHANGED <<procs, child, waiter, ui, banner, app, bounds>>

\* Slip: the child is dropped, not killed.
KillDrops(t) ==
    /\ thread[t].pc = "kill"
    /\ child' = [child EXCEPT ![thread[t].pid] = "empty"]
    /\ AfterQuit(t)
    /\ UNCHANGED <<procs, waiter, binding, ui, banner, app, bounds>>

Kill(t) ==
    LET p == thread[t].pid IN
    /\ thread[t].pc = "kill"
    /\ child' = [child EXCEPT ![p] = "empty"]
    /\ IF child[p] = "held"
       THEN engine' = [engine EXCEPT ![p] = "dead"] /\ lock' = Freed(p)
       ELSE UNCHANGED <<engine, lock>>
    /\ AfterQuit(t)
    /\ UNCHANGED <<said, waiter, binding, ui, banner, app, bounds>>

\* The engine of the command line is left alone and bound again.
Restore(t) ==
    /\ thread[t].pc = "restore"
    /\ binding' = [st |-> "attached", pid |-> CliEngine]
    /\ AfterQuit(t)
    /\ UNCHANGED <<procs, child, waiter, ui, banner, app, bounds>>

\* The window asks for the phase every two seconds.
Poll == /\ app = "up" /\ banner # (ui.phase = "stopped")
        /\ banner' = (ui.phase = "stopped")
        /\ UNCHANGED <<procs, child, waiter, binding, ui, thread, app,
                       bounds>>

\* restart_engine_sidecar: the window offers it with the banner.
UserRestart ==
    /\ app = "up" /\ banner /\ thread[Main].pc = "idle" /\ clicks < MaxClicks
    /\ ui' = [phase |-> "restarting", count |-> 0]
    /\ thread' = [thread EXCEPT ![Main] = StartsAt("quit", "user")]
    /\ clicks' = clicks + 1
    /\ UNCHANGED <<procs, child, waiter, binding, banner, app, deaths, clis>>

\* The last window closes, or the user quits.
ExitRequested ==
    /\ app = "up" /\ thread[Main].pc = "idle"
    /\ app' = "exiting"
    /\ thread' = [thread EXCEPT ![Main] = StartsAt("quit", "exit")]
    /\ UNCHANGED <<procs, child, waiter, binding, ui, banner, bounds>>

\* The process of the desktop ends with every thread of it.  It may also die.
Gone ==
    /\ app # "gone"
    /\ app' = "gone"
    /\ thread' = [t \in Threads |-> Idle]
    /\ waiter' = [p \in Pid |-> "off"]
    /\ child' = [p \in Pid |-> "none"]
    /\ binding' = Unbound
    /\ ui' = [phase |-> "stopped", count |-> 0]
    /\ banner' = FALSE
    /\ UNCHANGED <<procs, bounds>>

-----------------------------------------------------------------------------
(* The specification *)

ShellInit ==
    /\ engine = [p \in Pid |-> "unborn"]
    /\ said = [p \in Pid |-> NoEngine]
    /\ lock = NoEngine
    /\ child = [p \in Pid |-> "none"]
    /\ waiter = [p \in Pid |-> "off"]
    /\ binding = Unbound
    /\ ui = [phase |-> "running", count |-> 0]
    /\ banner = FALSE
    /\ thread = [t \in Threads |->
                   IF t = Main THEN StartsAt("spawn", "setup") ELSE Idle]
    /\ app = "up"
    /\ deaths = 0 /\ clicks = 0 /\ clis = 0

Works(t) ==
    \/ Spawn(t) \/ NoHandshake(t) \/ Handshake(t) \/ AdoptOwned(t) \/ Attach(t)
    \/ MarkRunning(t) \/ Fails(t) \/ UserFails(t)
    \/ Quit(t) \/ Kill(t) \/ Restore(t)

Watches(p) == Waits(p) \/ OnExit(p)
Answers(p) == EngineReady(p) \/ EngineRefused(p)

ShellNext ==
    \/ \E t \in Threads : Works(t)
    \/ \E p \in Pid : Watches(p) \/ Answers(p) \/ EngineDies(p) \/ EngineEnds(p)
    \/ CliStarts \/ CliStops
    \/ Poll \/ UserRestart \/ ExitRequested \/ Gone

ShellSpec == ShellInit /\ [][ShellNext]_shellVars

\* Some thread that can go on does, an engine that starts comes to an answer,
\* one whose standard input has ended stops.  Nothing must die, be clicked or be quit.
ShellFairSpec ==
    /\ ShellSpec
    /\ WF_shellVars(\E t \in Threads : Works(t))
    /\ WF_shellVars(\E p \in Pid : Watches(p))
    /\ WF_shellVars(\E p \in Pid : Answers(p))
    /\ WF_shellVars(\E p \in Pid : EngineEnds(p))

-----------------------------------------------------------------------------
(* Properties *)

ShellTypeOK ==
    /\ engine \in [Pid -> {"unborn", "starting", "serving", "dead"}]
    /\ said \in [Pid -> Pid \cup {NoEngine, CliEngine}]
    /\ lock \in Pid \cup {NoEngine, CliEngine}
    /\ child \in [Pid -> {"none", "held", "empty"}]
    /\ waiter \in [Pid -> {"off", "watching", "exit", "done"}]
    /\ binding \in Binding
    /\ ui \in [phase : Phase, count : Nat]
    /\ banner \in BOOLEAN
    /\ thread \in [Threads -> ThreadState]
    /\ app \in {"up", "exiting", "gone"}
    /\ deaths \in 0..MaxDeaths /\ clicks \in 0..MaxClicks /\ clis \in 0..MaxCli

\* However failures of starts, exits of engines and restarts by the user
\* overlap, max_restarts bounds the engines that are spawned after the first
\* start and after each restart by the user: recovery cannot spin.
RestartsBounded == Spawned \subseteq 1..(MaxRestarts * (1 + clicks))

Healthy(p) == child[p] = "held" /\ engine[p] = "serving"
Resting ==
    /\ \A t \in Threads : thread[t].pc = "idle"
    /\ \A p \in Pid : waiter[p] \in {"exit", "watching"}
                       => waiter[p] = "watching" /\ Healthy(p)

\* ... and it comes to rest: every recovery ends in a running engine or in a
\* stop, no thread waits for an answer that does not come, and the exit of
\* every engine has been dealt with.
RecoveryRests == []<>Resting

\* Wherever one engine dies or the command line starts its own, recoveries
\* that overlap (an engine that dies while it is adopted fails its start and
\* its waiter) end with no engine behind that quit cannot end: one that serves
\* is the one the desktop is bound to.  A second disturbance can break it.
NoOrphan ==
    Resting /\ app = "up" /\ clicks = 0 /\ deaths + clis <= 1
      => \A p \in Pid : engine[p] = "serving"
                         => binding = [st |-> "owned", pid |-> p]

\* An engine never outlives the desktop that spawned it, bound or not, and
\* however the desktop ends.
EngineEndsWithDesktop ==
    [](app = "gone" => <>(\A p \in Pid : engine[p] \in {"unborn", "dead"}))

\* "Restart failed; banner stays until user retries": while the window is
\* told that the engine is restarting, something restarts it.
RestartingMeansWork == Resting /\ app = "up" => ui.phase # "restarting"

\* Every engine is accounted for: within the bound on restarts, and none
\* serving that the desktop is not bound to.
EngineIsTracked == ShellTypeOK /\ RestartsBounded /\ NoOrphan
=============================================================================
