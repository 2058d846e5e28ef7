----------------------------- MODULE EngineOwner -----------------------------
(* One engine per runtime directory (engine/research/runtime.py, serve of   *)
(* engine/main.py, apps/cli/main.py): the advisory lock on engine.lock, the *)
(* record in owner.json, and the processes that take, publish, probe and    *)
(* give up both.                                                            *)
(*                                                                          *)
(* A process of Proc is one run of alphaloop-engine, launched once: a       *)
(* restart is another process.  A command of Cli is one run of alphaloop,   *)
(* and Child gives the engine it launches if it does.                       *)
(* Each step is one system call on the lock or on the file, which is where  *)
(* processes interleave.  owner.json is replaced as a whole, so it is never *)
(* read half written; its fields besides pid and phase are left out.        *)
EXTENDS Naturals, FiniteSets

CONSTANTS
    Proc,        \* engine processes
    Cli,         \* runs of the command line
    Child,       \* the engine process each of them may launch
    Nobody,      \* no process
    NoFile,      \* owner.json does not exist
    MaxMishaps,  \* bound: engines that die, and records the desktop removes
    MayStop      \* engines may be stopped (signal, end of the desktop)

ASSUME ActorAssumption ==
    /\ Proc \cap Cli = {}
    /\ Nobody \notin Proc \cup Cli
    /\ Child \in [Cli -> Proc]
    /\ \A c, d \in Cli : Child[c] = Child[d] => c = d
    /\ NoFile \notin [pid : Proc, phase : {"starting", "ready"}]
ASSUME BoundAssumption == MaxMishaps \in Nat /\ MayStop \in BOOLEAN

VARIABLES
    holder,     \* who has the exclusive lock on engine.lock
    file,       \* owner.json
    proc,       \* engine processes
    cli,        \* command line processes
    look,       \* where each process is in read_live_owner
    mishaps,    \* engines that died, records the desktop removed
    published,  \* observation: engines whose ready record was written
    alone       \* observation: starts that nothing else interfered with

vars == <<holder, file, proc, cli, look, mishaps, published, alone>>

Actor == Proc \cup Cli
Record == [pid : Proc, phase : {"starting", "ready"}]

\* An engine: acquire the lock, claim the file, start the API, serve, and
\* close; or wait for the answer of the engine that has the lock.
ProcState == [pc : {"unborn", "acquire", "wait", "claimed", "starting",
                    "serving", "closing", "unlinking", "gone"},
              stop : BOOLEAN, late : BOOLEAN,
              end : {"none", "failed", "answered", "over"},
              told : Proc \cup {Nobody}]
CliState == [pc : {"idle", "first", "poll", "status", "done", "failed"},
             late : BOOLEAN, told : Proc \cup {Nobody}]
LookState == [pc : {"off", "exists", "probe", "read", "unlock", "unlink",
                    "seen", "raised"},
              seen : Record \cup {NoFile}]

Unborn == [pc |-> "unborn", stop |-> FALSE, late |-> FALSE, end |-> "none",
           told |-> Nobody]
NoLook == [pc |-> "off", seen |-> NoFile]
StartLook == [pc |-> "exists", seen |-> NoFile]

Busy(a) == IF a \in Proc THEN proc[a].pc \notin {"unborn", "gone"}
                         ELSE cli[a].pc \notin {"idle", "done", "failed"}

\* A command and its engine start together.
Starter(a) == IF \E c \in Cli : a = Child[c]
              THEN CHOOSE c \in Cli : a = Child[c] ELSE a
Starts(x) == IF \A a \in Actor : Busy(a) => Starter(a) = x
             THEN {x} ELSE {}

\* Once a has moved, only its own start can still be alone.
Moved(a) == alone' = alone \cap {Starter(a)}

LookTo(a, pc) == look' = [look EXCEPT ![a].pc = pc]
Goes(p, pc) == proc' = [proc EXCEPT ![p].pc = pc]
Over(how, told) == [pc |-> "gone", stop |-> FALSE, late |-> FALSE,
                    end |-> how, told |-> told]
Ends(p, how) == [proc EXCEPT ![p] = Over(how, Nobody)]

-----------------------------------------------------------------------------
(* read_live_owner *)

Seen(a, rec) == look' = [look EXCEPT ![a] = [pc |-> "seen", seen |-> rec]]

LookExists(a) ==
    /\ look[a].pc = "exists"
    /\ IF file = NoFile THEN Seen(a, NoFile) ELSE LookTo(a, "probe")
    /\ Moved(a)
    /\ UNCHANGED <<holder, file, proc, cli, mishaps, published>>

\* The probe takes the lock when it is free.
LookProbe(a) ==
    /\ look[a].pc = "probe"
    /\ \/ holder # Nobody /\ LookTo(a, "read") /\ UNCHANGED holder
       \/ holder = Nobody /\ LookTo(a, "unlock") /\ holder' = a
    /\ Moved(a)
    /\ UNCHANGED <<file, proc, cli, mishaps, published>>

\* The file may be gone by now: read_text raises.
LookRead(a) ==
    /\ look[a].pc = "read"
    /\ IF file = NoFile THEN LookTo(a, "raised") ELSE Seen(a, file)
    /\ Moved(a)
    /\ UNCHANGED <<holder, file, proc, cli, mishaps, published>>

LookUnlock(a) ==
    /\ look[a].pc = "unlock"
    /\ holder' = Nobody
    /\ LookTo(a, "unlink")
    /\ Moved(a)
    /\ UNCHANGED <<file, proc, cli, mishaps, published>>

\* The file that is removed is the one of now, whoever wrote it.
LookUnlink(a) ==
    /\ look[a].pc = "unlink"
    /\ file' = NoFile
    /\ Seen(a, NoFile)
    /\ Moved(a)
    /\ UNCHANGED <<holder, proc, cli, mishaps, published>>

ReadLiveOwner(a) == \/ LookExists(a) \/ LookProbe(a) \/ LookRead(a)
                    \/ LookUnlock(a) \/ LookUnlink(a)

-----------------------------------------------------------------------------
(* An engine process *)

Launched(p) == [proc EXCEPT ![p].pc = "acquire"]

\* The desktop, or a shell, runs alphaloop-engine.
Launch(p) ==
    /\ Starter(p) = p
    /\ proc[p].pc = "unborn"
    /\ proc' = Launched(p)
    /\ alone' = Starts(p)
    /\ UNCHANGED <<holder, file, cli, look, mishaps, published>>

\* Slip: the lock is taken in shared mode.
AcquireShared(p) ==
    /\ proc[p].pc = "acquire"
    /\ holder' = p
    /\ Goes(p, "claimed")
    /\ Moved(p)
    /\ UNCHANGED <<file, cli, look, mishaps, published>>

Acquire(p) ==
    /\ proc[p].pc = "acquire"
    /\ holder = Nobody
    /\ holder' = p
    /\ Goes(p, "claimed")
    /\ Moved(p)
    /\ UNCHANGED <<file, cli, look, mishaps, published>>

\* Slip: owner.json is taken for an owner, as a pid file is.
ContendOnFile(p) ==
    /\ proc[p].pc = "acquire"
    /\ holder # Nobody \/ file # NoFile
    /\ Goes(p, "wait")
    /\ look' = [look EXCEPT ![p] = StartLook]
    /\ Moved(p)
    /\ UNCHANGED <<holder, file, cli, mishaps, published>>

\* "alphaloop engine already has an owner": ask who it is.
Contend(p) ==
    /\ proc[p].pc = "acquire"
    /\ holder # Nobody
    /\ Goes(p, "wait")
    /\ look' = [look EXCEPT ![p] = StartLook]
    /\ Moved(p)
    /\ UNCHANGED <<holder, file, cli, mishaps, published>>

WriteRecord(p, phase) == file' = [pid |-> p, phase |-> phase]

Claim(p) ==
    /\ proc[p].pc = "claimed"
    /\ WriteRecord(p, "starting")
    /\ Goes(p, "starting")
    /\ Moved(p)
    /\ UNCHANGED <<holder, cli, look, mishaps, published>>

PublishReady(p) ==
    /\ proc[p].pc = "starting"
    /\ WriteRecord(p, "ready")
    /\ Goes(p, "serving")
    /\ published' = published \cup {p}
    /\ Moved(p)
    /\ UNCHANGED <<holder, cli, look, mishaps>>

\* A signal, or the end of the desktop that holds its standard input.
Stop(p) ==
    /\ proc[p].pc = "serving"
    /\ \/ proc[p].stop /\ Moved(p)
       \/ MayStop /\ alone' = {}
    /\ Goes(p, "closing")
    /\ UNCHANGED <<holder, file, cli, look, mishaps, published>>

\* EngineLock.close: the lock first, the file afterwards.
CloseUnlock(p) ==
    /\ proc[p].pc = "closing"
    /\ holder' = Nobody
    /\ Goes(p, "unlinking")
    /\ Moved(p)
    /\ UNCHANGED <<file, cli, look, mishaps, published>>

CloseUnlink(p) ==
    /\ proc[p].pc = "unlinking"
    /\ file' = NoFile
    /\ proc' = Ends(p, "over")
    /\ Moved(p)
    /\ UNCHANGED <<holder, cli, look, mishaps, published>>

\* Slip: any record will do.
IsThere(rec) == rec # NoFile
IsReady(rec) == rec # NoFile /\ rec.phase = "ready"

\* The contender reads until the record is ready or ten seconds are over.
WaitAgain(p) ==
    /\ proc[p].pc = "wait" /\ look[p].pc = "seen"
    /\ look[p].seen # NoFile /\ ~IsReady(look[p].seen)
    /\ ~proc[p].late
    /\ look' = [look EXCEPT ![p] = StartLook]
    /\ Moved(p)
    /\ UNCHANGED <<holder, file, proc, cli, mishaps, published>>

WaitAnswers(p) ==
    /\ proc[p].pc = "wait" /\ look[p].pc = "seen"
    /\ IsReady(look[p].seen)
    /\ proc' = [proc EXCEPT ![p] = Over("answered", look[p].seen.pid)]
    /\ look' = [look EXCEPT ![p] = NoLook]
    /\ Moved(p)
    /\ UNCHANGED <<holder, file, cli, mishaps, published>>

WaitFails(p) ==
    /\ proc[p].pc = "wait"
    /\ \/ look[p].pc = "raised"
       \/ look[p].pc = "seen" /\ look[p].seen = NoFile
       \/ look[p].pc = "seen" /\ proc[p].late /\ ~IsReady(look[p].seen)
    /\ proc' = Ends(p, "failed")
    /\ look' = [look EXCEPT ![p] = NoLook]
    /\ Moved(p)
    /\ UNCHANGED <<holder, file, cli, mishaps, published>>

\* The ten seconds of a contender are over.
Deadline(p) ==
    /\ proc[p].pc = "wait" /\ ~proc[p].late
    /\ proc' = [proc EXCEPT ![p].late = TRUE]
    /\ UNCHANGED <<holder, file, cli, look, mishaps, published, alone>>

\* The process ends without its finally clause: the system frees the lock,
\* the file stays.
Released(p) == IF holder = p THEN Nobody ELSE holder
Die(p) ==
    /\ mishaps < MaxMishaps
    /\ Busy(p)
    /\ mishaps' = mishaps + 1
    /\ holder' = Released(p)
    /\ proc' = Ends(p, "over")
    /\ look' = [look EXCEPT ![p] = NoLook]
    /\ alone' = {}
    /\ UNCHANGED <<file, cli, published>>

\* clear_owner_file of the desktop: at the restart by the user and when it
\* gives up an engine, it removes the record whoever the owner is.
DesktopClears ==
    /\ mishaps < MaxMishaps
    /\ file # NoFile
    /\ mishaps' = mishaps + 1
    /\ file' = NoFile
    /\ alone' = {}
    /\ UNCHANGED <<holder, proc, cli, look, published>>

Engine(p) ==
    \/ Acquire(p) \/ Contend(p) \/ Claim(p) \/ PublishReady(p) \/ Stop(p)
    \/ CloseUnlock(p) \/ CloseUnlink(p)
    \/ WaitAgain(p) \/ WaitAnswers(p) \/ WaitFails(p)

-----------------------------------------------------------------------------
(* alphaloop start, alphaloop status *)

\* Both begin by reading the owner.
Asks(c, pc) == /\ cli' = [cli EXCEPT ![c].pc = pc]
               /\ look' = [look EXCEPT ![c] = StartLook]

Begin(c) ==
    /\ cli[c].pc = "idle"
    /\ Asks(c, "first") \/ Asks(c, "status")
    /\ alone' = Starts(c)
    /\ UNCHANGED <<holder, file, proc, mishaps, published>>

\* start: there is an owner already.
CliReuses(c) ==
    /\ cli[c].pc = "first" /\ look[c].pc = "seen" /\ look[c].seen # NoFile
    /\ Asks(c, "status")
    /\ Moved(c)
    /\ UNCHANGED <<holder, file, proc, mishaps, published>>

\* start: there is none, launch a detached engine.
CliLaunches(c) ==
    /\ cli[c].pc = "first" /\ look[c].pc = "seen" /\ look[c].seen = NoFile
    /\ proc' = Launched(Child[c])
    /\ Asks(c, "poll")
    /\ Moved(c)
    /\ UNCHANGED <<holder, file, mishaps, published>>

\* Slip: the deadline is not looked at.
CliPollsOn(c) ==
    /\ cli[c].pc = "poll" /\ look[c].pc = "seen"
    /\ ~IsReady(look[c].seen)
    /\ look' = [look EXCEPT ![c] = StartLook]
    /\ Moved(c)
    /\ UNCHANGED <<holder, file, proc, cli, mishaps, published>>

CliPollsAgain(c) ==
    /\ cli[c].pc = "poll" /\ look[c].pc = "seen"
    /\ ~IsReady(look[c].seen) /\ ~cli[c].late
    /\ look' = [look EXCEPT ![c] = StartLook]
    /\ Moved(c)
    /\ UNCHANGED <<holder, file, proc, cli, mishaps, published>>

\* Any engine that is ready will do.
CliStarted(c) ==
    /\ cli[c].pc = "poll" /\ look[c].pc = "seen" /\ IsReady(look[c].seen)
    /\ Asks(c, "status")
    /\ Moved(c)
    /\ UNCHANGED <<holder, file, proc, mishaps, published>>

\* process.terminate: an engine whose signal handlers are set stops in order;
\* before that, and on Windows, it is gone.
Terminated(p) ==
    (IF proc[p].pc \in {"starting", "serving"}
     THEN {[proc EXCEPT ![p].stop = TRUE]} ELSE {})
    \cup (IF Busy(p) THEN {Ends(p, "over")} ELSE {proc})

CliTimesOut(c) ==
    LET p == Child[c] IN
    /\ cli[c].pc = "poll" /\ look[c].pc = "seen"
    /\ ~IsReady(look[c].seen) /\ cli[c].late
    /\ cli' = [cli EXCEPT ![c].pc = "failed"]
    /\ proc' \in Terminated(p)
    /\ LET dead == proc'[p].pc = "gone"
       IN /\ holder' = IF dead THEN Released(p) ELSE holder
          /\ look' = [a \in Actor |-> IF a = c \/ (a = p /\ dead)
                                     THEN NoLook ELSE look[a]]
    /\ Moved(c)
    /\ UNCHANGED <<file, mishaps, published>>

CliReports(c) ==
    /\ cli[c].pc = "status" /\ look[c].pc = "seen"
    /\ LET told == IF look[c].seen = NoFile THEN Nobody ELSE look[c].seen.pid
       IN cli' = [cli EXCEPT ![c] = [pc |-> "done", late |-> FALSE,
                                     told |-> told]]
    /\ look' = [look EXCEPT ![c] = NoLook]
    /\ Moved(c)
    /\ UNCHANGED <<holder, file, proc, mishaps, published>>

\* read_live_owner raised.
CliRaises(c) ==
    /\ look[c].pc = "raised"
    /\ cli' = [cli EXCEPT ![c].pc = "failed"]
    /\ look' = [look EXCEPT ![c] = NoLook]
    /\ Moved(c)
    /\ UNCHANGED <<holder, file, proc, mishaps, published>>

CliDeadline(c) ==
    /\ cli[c].pc = "poll" /\ ~cli[c].late
    /\ cli' = [cli EXCEPT ![c].late = TRUE]
    /\ UNCHANGED <<holder, file, proc, look, mishaps, published, alone>>

Command(c) ==
    \/ CliReuses(c) \/ CliPollsAgain(c) \/ CliStarted(c) \/ CliTimesOut(c)
    \/ CliReports(c) \/ CliRaises(c) \/ CliLaunches(c)

-----------------------------------------------------------------------------
(* The specification *)

Init ==
    /\ holder = Nobody
    /\ file = NoFile
    /\ proc = [p \in Proc |-> Unborn]
    /\ cli = [c \in Cli |-> [pc |-> "idle", late |-> FALSE,
                             told |-> Nobody]]
    /\ look = [a \in Actor |-> NoLook]
    /\ mishaps = 0
    /\ published = {}
    /\ alone = {}

Next ==
    \/ \E p \in Proc : Launch(p) \/ Engine(p) \/ Deadline(p) \/ Die(p)
    \/ \E c \in Cli : Begin(c) \/ Command(c) \/ CliDeadline(c)
    \/ \E a \in Actor : ReadLiveOwner(a)
    \/ DesktopClears

Spec == Init /\ [][Next]_vars

\* Some process that can go on does, ten seconds pass, and SIGTERM is handled.
\* Nobody must launch, stop or kill anything.
FairSpec ==
    /\ Spec
    /\ WF_vars(\E p \in Proc :
                 Engine(p) /\ (proc[p].pc = "serving" => proc[p].stop))
    /\ WF_vars(\E c \in Cli : Command(c))
    /\ WF_vars(\E a \in Actor : ReadLiveOwner(a))
    /\ WF_vars((\E p \in Proc : Deadline(p)) \/ (\E c \in Cli : CliDeadline(c)))

-----------------------------------------------------------------------------
(* Properties *)

TypeOK ==
    /\ holder \in Actor \cup {Nobody}
    /\ file \in Record \cup {NoFile}
    /\ proc \in [Proc -> ProcState]
    /\ cli \in [Cli -> CliState]
    /\ look \in [Actor -> LookState]
    /\ mishaps \in 0..MaxMishaps
    /\ published \subseteq Proc
    /\ alone \subseteq Actor

\* Desktop and command line never run two engines on one data directory,
\* whatever dies, stops and starts meanwhile, and whatever owner.json says:
\* from acquire to close an engine has the lock, and no probe takes it away.
Owns(p) == proc[p].pc \in {"claimed", "starting", "serving", "closing"}
OneEngine == \A p \in Proc : Owns(p) => holder = p

\* A client is never sent to an engine that did not open its API: who is
\* named by already_running, or ended the wait of alphaloop start, was ready.
AnsweredWasReady ==
    \A p \in Proc : proc[p].end = "answered" => proc[p].told \in published

\* What an engine that died left behind never stops a start: one that nobody
\* else takes part in does not fail, and alphaloop start then names the
\* engine it launched, unless that was too slow.
LoneStartServes ==
    /\ \A p \in Proc : Starter(p) \in alone => proc[p].end # "failed"
    /\ \A c \in Cli \cap alone :
          /\ cli[c].pc = "failed" => cli[c].late
          /\ cli[c].pc = "done" /\ proc[Child[c]].pc # "unborn"
                => cli[c].told = Child[c]

\* Every start ends: the engine serves or exits, the command returns.  No
\* reader of owner.json waits for ever for an owner that is gone.
Settled == /\ \A p \in Proc : proc[p].pc \in {"unborn", "serving", "gone"}
           /\ \A c \in Cli : ~Busy(c)
EveryStartEnds == []<>Settled

\* "Exactly one engine acquires the lifetime lock and the others report
\* already_running": a contender that comes to its end has an answer.
ContendersReport == \A p \in Proc : proc[p].end # "failed"

\* The records of every process are well formed and none of them stops a
\* start that nobody else takes part in.
StartsAreServed == TypeOK /\ LoneStartServes
=============================================================================
