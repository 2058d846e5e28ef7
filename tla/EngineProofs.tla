--------------------------- MODULE EngineProofs ---------------------------
(***************************************************************************)
(* Who runs the engine, for every set of engines and commands, every cap   *)
(* on restarts and any number of deaths and clicks.                        *)
(*                                                                         *)
(* EngineOwner: the state stays well typed, there is one engine at a time, *)
(* who is named as the owner was ready, and a start that nobody else takes *)
(* part in is served.  OneEngine is not inductive: an engine that closes,  *)
(* dies or is killed, and a probe of read_live_owner, free the lock, and   *)
(* must not free that of another engine.  LockInv adds who holds it while  *)
(* a probe runs, that an engine probes only while it waits, and that a     *)
(* command launches an engine once.  LoneInv is about a start that is      *)
(* alone, step by step: the record it may find is stale and its probe gets *)
(* the lock, so it removes the record and launches; what it reads from     *)
(* then on is its own engine's record.                                     *)
(*                                                                         *)
(* SidecarSupervisor: EngineIsTracked, from ShellInv, in the second part.  *)
(***************************************************************************)
EXTENDS EngineOwner, SidecarSupervisor, FiniteSetTheorems, TLAPS

-----------------------------------------------------------------------------
(* Types *)

\* A thread of read_live_owner that starts or ends is well typed.
LEMMA LooksOK == NoLook \in LookState /\ StartLook \in LookState
  BY DEF NoLook, StartLook, LookState

\* So is the state of an engine that is over.
LEMMA OverOK ==
  ASSUME NEW how \in {"failed", "answered", "over"},
         NEW told \in Proc \cup {Nobody}
  PROVE  Over(how, told) \in ProcState
  BY DEF Over, ProcState

\* Every step of read_live_owner keeps the types.
LEMMA LookTypeOK ==
  ASSUME TypeOK, NEW a \in Actor, ReadLiveOwner(a)
  PROVE  TypeOK'
<1> USE DEF TypeOK
<1>1. /\ look[a] \in LookState
      /\ \A pc \in {"read", "probe", "unlock", "unlink", "raised"} :
            [look[a] EXCEPT !.pc = pc] \in LookState
  BY DEF LookState
<1>2. \A rec \in Record \cup {NoFile} :
         [pc |-> "seen", seen |-> rec] \in LookState
  BY DEF LookState
<1>3. CASE LookExists(a)
  BY <1>1, <1>2, <1>3 DEF LookExists, Seen, LookTo, Moved
<1>4. CASE LookProbe(a)
  BY <1>1, <1>4 DEF LookProbe, LookTo, Moved
<1>5. CASE LookRead(a)
  BY <1>1, <1>2, <1>5 DEF LookRead, Seen, LookTo, Moved
<1>6. CASE LookUnlock(a)
  BY <1>1, <1>6 DEF LookUnlock, LookTo, Moved
<1>7. CASE LookUnlink(a)
  BY <1>2, <1>7 DEF LookUnlink, Seen, Moved
<1>8. QED BY <1>3, <1>4, <1>5, <1>6, <1>7 DEF ReadLiveOwner

\* Every step of an engine does.
LEMMA EngineTypeOK ==
  ASSUME TypeOK, NEW p \in Proc, Launch(p) \/ Engine(p) \/ Deadline(p) \/ Die(p)
  PROVE  TypeOK'
<1> USE DEF TypeOK
<1>1. /\ p \in Actor /\ proc[p] \in ProcState
      /\ \A pc \in {"acquire", "wait", "claimed", "starting", "serving",
                    "closing", "unlinking"} :
            [proc[p] EXCEPT !.pc = pc] \in ProcState
      /\ [proc[p] EXCEPT !.late = TRUE] \in ProcState
  BY DEF Actor, ProcState
<1>2. \A phase \in {"starting", "ready"} :
         [pid |-> p, phase |-> phase] \in Record
  BY DEF Record
<1>3. CASE Launch(p)
  BY <1>1, <1>3 DEF Launch, Launched, Starts
<1>4. CASE Acquire(p)
  BY <1>1, <1>4 DEF Acquire, Goes, Moved
<1>5. CASE Contend(p)
  BY <1>1, <1>5, LooksOK DEF Contend, Goes, Moved
<1>6. CASE Claim(p)
  BY <1>1, <1>2, <1>6 DEF Claim, WriteRecord, Goes, Moved
<1>7. CASE PublishReady(p)
  BY <1>1, <1>2, <1>7 DEF PublishReady, WriteRecord, Goes, Moved
<1>8. CASE Stop(p)
  BY <1>1, <1>8 DEF Stop, Goes, Moved
<1>9. CASE CloseUnlock(p)
  BY <1>1, <1>9 DEF CloseUnlock, Goes, Moved
<1>10. CASE CloseUnlink(p)
  BY <1>10, OverOK DEF CloseUnlink, Ends, Moved
<1>11. CASE WaitAgain(p)
  BY <1>11, LooksOK DEF WaitAgain, Moved
<1>12. CASE WaitAnswers(p)
  <2>1. look[p].seen \in Record
    BY <1>1, <1>12 DEF WaitAnswers, IsReady, LookState
  <2>2. look[p].seen.pid \in Proc BY <2>1 DEF Record
  <2>3. QED BY <1>1, <1>12, <2>2, OverOK, LooksOK DEF WaitAnswers, Moved
<1>13. CASE WaitFails(p)
  BY <1>1, <1>13, OverOK, LooksOK DEF WaitFails, Ends, Moved
<1>14. CASE Deadline(p)
  BY <1>1, <1>14 DEF Deadline
<1>15. CASE Die(p)
  BY <1>1, <1>15, OverOK, LooksOK, BoundAssumption DEF Die, Ends, Released
<1>16. QED
  BY <1>3, <1>4, <1>5, <1>6, <1>7, <1>8, <1>9, <1>10, <1>11, <1>12, <1>13,
     <1>14, <1>15 DEF Engine

\* What a step of a command leaves a command with is well typed.
LEMMA CommandTypeOK ==
  ASSUME TypeOK, NEW c \in Cli, Begin(c) \/ Command(c) \/ CliDeadline(c)
  PROVE  TypeOK'
<1> USE DEF TypeOK
<1>1. /\ c \in Actor /\ cli[c] \in CliState /\ Child[c] \in Proc
      /\ \A pc \in {"first", "poll", "status", "failed"} :
            [cli[c] EXCEPT !.pc = pc] \in CliState
      /\ [cli[c] EXCEPT !.late = TRUE] \in CliState
  <2>1. c \in Actor /\ cli[c] \in CliState /\ Child[c] \in Proc
    BY ActorAssumption DEF Actor
  <2>2. \A s \in CliState :
          /\ \A pc \in {"first", "poll", "status", "failed"} :
                [s EXCEPT !.pc = pc] \in CliState
          /\ [s EXCEPT !.late = TRUE] \in CliState
    BY DEF CliState
  <2>3. QED BY <2>1, <2>2
<1>2. \A pc \in {"first", "poll", "status"} :
         Asks(c, pc) => /\ cli' \in [Cli -> CliState]
                        /\ look' \in [Actor -> LookState]
  BY <1>1, LooksOK DEF Asks
<1>3. CASE Begin(c)
  BY <1>1, <1>2, <1>3 DEF Begin, Starts
<1>4. CASE CliReuses(c)
  BY <1>2, <1>4 DEF CliReuses, Moved
<1>5. CASE CliLaunches(c)
  <2>1. [proc[Child[c]] EXCEPT !.pc = "acquire"] \in ProcState
    BY <1>1 DEF ProcState
  <2>2. QED BY <1>1, <1>2, <1>5, <2>1 DEF CliLaunches, Launched, Moved
<1>6. CASE CliPollsAgain(c)
  BY <1>6, LooksOK DEF CliPollsAgain, Moved
<1>7. CASE CliStarted(c)
  BY <1>2, <1>7 DEF CliStarted, Moved
<1>8. CASE CliTimesOut(c)
  <2> DEFINE p == Child[c]
  <2>1. /\ [proc[p] EXCEPT !.stop = TRUE] \in ProcState
        /\ Over("over", Nobody) \in ProcState
    <3>1. \A s \in ProcState : [s EXCEPT !.stop = TRUE] \in ProcState
      BY DEF ProcState
    <3>2. QED BY <1>1, <3>1, OverOK
  <2>2. proc' \in [Proc -> ProcState]
    BY <1>1, <1>8, <2>1 DEF CliTimesOut, Terminated, Ends
  <2>3. look' \in [Actor -> LookState]
    BY <1>8, LooksOK DEF CliTimesOut
  <2>4. QED BY <1>1, <1>8, <2>2, <2>3 DEF CliTimesOut, Released, Moved
<1>9. CASE CliReports(c)
  <2> DEFINE told == IF look[c].seen = NoFile THEN Nobody ELSE look[c].seen.pid
             over == [pc |-> "done", late |-> FALSE, told |-> told]
  <2>1. look[c].seen \in Record \cup {NoFile} BY <1>1 DEF LookState
  <2>2. told \in Proc \cup {Nobody} BY <2>1 DEF Record
  <2>3. over \in CliState BY <2>2 DEF CliState
  <2>4. cli' = [cli EXCEPT ![c] = over] BY <1>9 DEF CliReports
  <2>5. QED BY <1>9, <2>3, <2>4, LooksOK DEF CliReports, Moved
<1>10. CASE CliRaises(c)
  BY <1>1, <1>10, LooksOK DEF CliRaises, Moved
<1>11. CASE CliDeadline(c)
  BY <1>1, <1>11 DEF CliDeadline
<1>12. QED
  BY <1>3, <1>4, <1>5, <1>6, <1>7, <1>8, <1>9, <1>10, <1>11 DEF Command

\* Every step keeps the types.
LEMMA TypeStep == TypeOK /\ [Next]_vars => TypeOK'
<1>1. CASE \E p \in Proc : Launch(p) \/ Engine(p) \/ Deadline(p) \/ Die(p)
  BY <1>1, EngineTypeOK
<1>2. CASE \E c \in Cli : Begin(c) \/ Command(c) \/ CliDeadline(c)
  BY <1>2, CommandTypeOK
<1>3. CASE \E a \in Actor : ReadLiveOwner(a)
  BY <1>3, LookTypeOK
<1>4. CASE DesktopClears
  BY <1>4, BoundAssumption DEF TypeOK, DesktopClears
<1>5. CASE UNCHANGED vars
  BY <1>5 DEF TypeOK, vars
<1>6. QED BY <1>1, <1>2, <1>3, <1>4, <1>5 DEF Next

\* The first state is well typed.
LEMMA TypeInit == Init => TypeOK
  BY LooksOK, BoundAssumption DEF Init, TypeOK, Unborn, ProcState, CliState

\* The lock, owner.json and the processes keep their types.
THEOREM TypeCorrect == Spec => []TypeOK
  BY TypeInit, TypeStep, PTL DEF Spec

-----------------------------------------------------------------------------
(* One engine *)

\* A probe that got the lock has it until it unlocks.
ProbeHolds == \A a \in Actor : look[a].pc = "unlock" => holder = a

\* An engine reads the owner only while it waits for the one that has the
\* lock: it never frees as a prober the lock it took as an engine.
ProbersWait == \A p \in Proc : look[p].pc # "off" => proc[p].pc = "wait"

\* What a command may still launch has not been launched.
ChildUnborn ==
    \A c \in Cli : cli[c].pc \in {"idle", "first"}
                    => proc[Child[c]].pc = "unborn"

LockInv == OneEngine /\ ProbeHolds /\ ProbersWait /\ ChildUnborn

\* An engine that nobody launches but itself is no command's child.
LEMMA LaunchedByItself ==
  ASSUME NEW p \in Proc, Starter(p) = p, NEW c \in Cli
  PROVE  Child[c] # p
<1>1. SUFFICES ASSUME p = Child[c] PROVE FALSE OBVIOUS
<1>2. (CHOOSE d \in Cli : p = Child[d]) \in Cli BY <1>1
<1>3. p \in Cli BY <1>1, <1>2 DEF Starter
<1>4. QED BY <1>3, ActorAssumption

\* No step of read_live_owner takes the lock of an engine.
LEMMA LookLockOK ==
  ASSUME TypeOK, LockInv, NEW a \in Actor, ReadLiveOwner(a)
  PROVE  LockInv'
<1> USE DEF TypeOK, LockInv, OneEngine, Owns, ProbeHolds, ProbersWait,
            ChildUnborn
<1>1. /\ look' \in [Actor -> LookState]
      /\ \A b \in Actor : b # a => look'[b] = look[b]
      /\ look[a].pc # "off"
      /\ look'[a].pc = "unlock" => holder = Nobody /\ holder' = a
      /\ UNCHANGED <<proc, cli>>
  <2>1. look' \in [Actor -> LookState] BY LookTypeOK
  <2>2. QED
    BY <2>1 DEF ReadLiveOwner, LookExists, LookProbe, LookRead, LookUnlock,
                LookUnlink, Seen, LookTo, LookState
<1>2. \/ holder' = holder
      \/ holder = Nobody /\ holder' = a
      \/ look[a].pc = "unlock" /\ holder' = Nobody /\ look'[a].pc # "unlock"
  BY DEF ReadLiveOwner, LookExists, LookProbe, LookRead, LookUnlock,
         LookUnlink, LookTo, LookState
<1>3. Nobody \notin Actor /\ Proc \subseteq Actor
  BY ActorAssumption DEF Actor
<1>4. QED BY <1>1, <1>2, <1>3

\* No step of an engine takes the lock of another.
LEMMA EngineLockOK ==
  ASSUME TypeOK, LockInv, NEW p \in Proc,
         Launch(p) \/ Engine(p) \/ Deadline(p) \/ Die(p)
  PROVE  LockInv'
<1> USE DEF TypeOK, LockInv, OneEngine, Owns, ProbeHolds, ProbersWait,
            ChildUnborn
<1>1. Nobody \notin Actor /\ p \in Actor /\ Proc \subseteq Actor
  BY ActorAssumption DEF Actor
<1>2. \A c \in Cli : Child[c] \in Proc BY ActorAssumption
<1>3. /\ NoLook.pc = "off" /\ StartLook.pc = "exists"
      /\ \A how, told : Over(how, told).pc = "gone"
  BY DEF NoLook, StartLook, Over
<1>4. /\ proc[p] \in ProcState
      /\ \A pc : [proc[p] EXCEPT !.pc = pc].pc = pc
      /\ [proc[p] EXCEPT !.late = TRUE].pc = proc[p].pc
  BY DEF ProcState
<1>5. CASE Launch(p)
  BY <1>1, <1>2, <1>4, <1>5, LaunchedByItself DEF Launch, Launched
<1>6. CASE Acquire(p)
  BY <1>1, <1>2, <1>4, <1>6 DEF Acquire, Goes
<1>7. CASE Contend(p)
  BY <1>1, <1>2, <1>3, <1>4, <1>7 DEF Contend, Goes
<1>8. CASE Claim(p)
  BY <1>1, <1>2, <1>4, <1>8 DEF Claim, Goes
<1>9. CASE PublishReady(p)
  BY <1>1, <1>2, <1>4, <1>9 DEF PublishReady, Goes
<1>10. CASE Stop(p)
  BY <1>1, <1>2, <1>4, <1>10 DEF Stop, Goes
<1>11. CASE CloseUnlock(p)
  BY <1>1, <1>2, <1>4, <1>11 DEF CloseUnlock, Goes
<1>12. CASE CloseUnlink(p)
  BY <1>1, <1>2, <1>3, <1>12 DEF CloseUnlink, Ends
<1>13. CASE WaitAgain(p)
  BY <1>1, <1>2, <1>3, <1>13 DEF WaitAgain
<1>14. CASE WaitAnswers(p)
  BY <1>1, <1>2, <1>3, <1>14 DEF WaitAnswers
<1>15. CASE WaitFails(p)
  BY <1>1, <1>2, <1>3, <1>15 DEF WaitFails, Ends
<1>16. CASE Deadline(p)
  BY <1>1, <1>2, <1>4, <1>16 DEF Deadline
<1>17. CASE Die(p)
  BY <1>1, <1>2, <1>3, <1>17 DEF Die, Ends, Released, Busy
<1>18. QED
  BY <1>5, <1>6, <1>7, <1>8, <1>9, <1>10, <1>11, <1>12, <1>13, <1>14, <1>15,
     <1>16, <1>17 DEF Engine

\* A command has no lock but a probe's, and kills no engine but its own.
LEMMA CommandLockOK ==
  ASSUME TypeOK, LockInv, NEW c \in Cli, Begin(c) \/ Command(c) \/ CliDeadline(c)
  PROVE  LockInv'
<1> USE DEF TypeOK, LockInv, OneEngine, Owns, ProbeHolds, ProbersWait,
            ChildUnborn
<1>1. /\ Nobody \notin Actor /\ c \in Actor /\ c \notin Proc
      /\ Proc \subseteq Actor
  BY ActorAssumption DEF Actor
<1>2. /\ Child[c] \in Proc
      /\ \A d \in Cli : Child[d] = Child[c] => d = c
  BY ActorAssumption
<1>3. /\ NoLook.pc = "off" /\ StartLook.pc = "exists"
      /\ \A how, told : Over(how, told).pc = "gone"
  BY DEF NoLook, StartLook, Over
<1>4. /\ cli[c] \in CliState
      /\ \A pc : [cli[c] EXCEPT !.pc = pc].pc = pc
      /\ [cli[c] EXCEPT !.late = TRUE].pc = cli[c].pc
  BY DEF CliState
<1>5. /\ proc[Child[c]] \in ProcState
      /\ [proc[Child[c]] EXCEPT !.pc = "acquire"].pc = "acquire"
      /\ [proc[Child[c]] EXCEPT !.stop = TRUE].pc = proc[Child[c]].pc
  BY <1>2 DEF ProcState
<1>6. CASE Begin(c)
  BY <1>1, <1>3, <1>4, <1>6 DEF Begin, Asks
<1>7. CASE CliReuses(c)
  BY <1>1, <1>3, <1>4, <1>7 DEF CliReuses, Asks
<1>8. CASE CliLaunches(c)
  BY <1>1, <1>2, <1>3, <1>4, <1>5, <1>8 DEF CliLaunches, Launched, Asks
<1>9. CASE CliPollsAgain(c)
  BY <1>1, <1>3, <1>9 DEF CliPollsAgain
<1>10. CASE CliStarted(c)
  BY <1>1, <1>3, <1>4, <1>10 DEF CliStarted, Asks
<1>11. CASE CliTimesOut(c)
  <2>1. PICK p \in Proc : p = Child[c] BY <1>2
  <2>2. /\ \A q \in Proc : q # p => proc'[q].pc = proc[q].pc
        /\ \/ proc'[p].pc = proc[p].pc
           \/ proc'[p].pc = "gone" /\ proc[p].pc # "unborn"
    <3>1. \/ proc' = [proc EXCEPT ![p].stop = TRUE]
          \/ proc' = Ends(p, "over") /\ Busy(p)
          \/ proc' = proc
      BY <1>11, <2>1 DEF CliTimesOut, Terminated
    <3>2. CASE proc' = [proc EXCEPT ![p].stop = TRUE]
      BY <1>5, <2>1, <3>2
    <3>3. CASE proc' = Ends(p, "over") /\ Busy(p)
      BY <1>3, <3>3 DEF Ends, Busy
    <3>4. QED BY <3>1, <3>2, <3>3
  <2>3. /\ \A a \in Actor : look'[a].pc \in {look[a].pc, "off"}
        /\ proc'[p].pc = "gone" => look'[p].pc = "off"
        /\ IF proc'[p].pc = "gone" THEN holder' = Released(p)
                                   ELSE holder' = holder
    BY <1>1, <1>3, <1>11, <2>1 DEF CliTimesOut
  <2>4. \A d \in Cli : cli'[d].pc \in {"idle", "first"} => cli'[d] = cli[d]
    BY <1>4, <1>11 DEF CliTimesOut
  <2>5. \A d \in Cli : Child[d] \in Proc BY ActorAssumption
  <2>6. QED BY <1>1, <2>2, <2>3, <2>4, <2>5 DEF Released
<1>12. CASE CliReports(c)
  BY <1>1, <1>3, <1>4, <1>12 DEF CliReports
<1>13. CASE CliRaises(c)
  BY <1>1, <1>3, <1>4, <1>13 DEF CliRaises
<1>14. CASE CliDeadline(c)
  BY <1>1, <1>4, <1>14 DEF CliDeadline
<1>15. QED
  BY <1>6, <1>7, <1>8, <1>9, <1>10, <1>11, <1>12, <1>13, <1>14 DEF Command

\* Every step keeps the lock where it belongs.
LEMMA LockStep == TypeOK /\ LockInv /\ [Next]_vars => LockInv'
<1> SUFFICES ASSUME TypeOK, LockInv, [Next]_vars PROVE LockInv'
  OBVIOUS
<1>1. CASE \E p \in Proc : Launch(p) \/ Engine(p) \/ Deadline(p) \/ Die(p)
  BY <1>1, EngineLockOK
<1>2. CASE \E c \in Cli : Begin(c) \/ Command(c) \/ CliDeadline(c)
  BY <1>2, CommandLockOK
<1>3. CASE \E a \in Actor : ReadLiveOwner(a)
  BY <1>3, LookLockOK
<1>4. CASE DesktopClears
  BY <1>4 DEF DesktopClears, LockInv, OneEngine, Owns, ProbeHolds,
              ProbersWait, ChildUnborn
<1>5. CASE UNCHANGED vars
  BY <1>5 DEF vars, LockInv, OneEngine, Owns, ProbeHolds, ProbersWait,
              ChildUnborn
<1>6. QED BY <1>1, <1>2, <1>3, <1>4, <1>5 DEF Next

\* Nobody has the lock at first.
LEMMA LockInit == Init => LockInv
  BY ActorAssumption
     DEF Init, LockInv, OneEngine, Owns, ProbeHolds, ProbersWait, ChildUnborn,
         Unborn, NoLook, Actor

\* From acquire to close an engine has the lock, whatever starts, stops, dies
\* and probes: two engines never run on one runtime directory.
THEOREM OneEngineAlways == Spec => []OneEngine
<1>1. Spec => [](TypeOK /\ LockInv)
  BY TypeInit, TypeStep, LockInit, LockStep, PTL DEF Spec
<1>2. LockInv => OneEngine BY DEF LockInv
<1>3. QED BY <1>1, <1>2, PTL

-----------------------------------------------------------------------------
(* Who is named was ready *)

\* A record that says ready, in the file or in the hands of a reader, was
\* written by an engine that had opened its API.
ReadyIsPublished(rec) == IsReady(rec) => rec.pid \in published
NamesInv ==
    /\ ReadyIsPublished(file)
    /\ \A a \in Actor : ReadyIsPublished(look[a].seen)
    /\ AnsweredWasReady

\* No record is not a ready one.
LEMMA NoFileNotReady ==
  ~IsReady(NoFile) /\ ~IsReady(NoLook.seen) /\ ~IsReady(StartLook.seen)
  BY DEF IsReady, NoLook, StartLook

\* Steps under which no record appears but by a reader who reads the file,
\* and no engine is answered.
LEMMA NamesQuiet ==
  ASSUME TypeOK, NamesInv,
         published \subseteq published',
         file' = file \/ file' = NoFile,
         \A a \in Actor : look'[a].seen \in {look[a].seen, file, NoFile},
         \A p \in Proc : proc'[p].end = "answered" => proc'[p] = proc[p]
  PROVE  NamesInv'
  BY NoFileNotReady DEF NamesInv, ReadyIsPublished, AnsweredWasReady, IsReady

\* A reader gets the record that is in the file.
LEMMA NamesLook ==
  ASSUME TypeOK, NamesInv, NEW a \in Actor, ReadLiveOwner(a)
  PROVE  NamesInv'
<1>1. \A b \in Actor : look'[b].seen \in {look[b].seen, file, NoFile}
  BY DEF ReadLiveOwner, LookExists, LookProbe, LookRead, LookUnlock,
         LookUnlink, Seen, LookTo, TypeOK, LookState
<1>2. /\ UNCHANGED <<proc, published>>
      /\ file' = file \/ file' = NoFile
  BY DEF ReadLiveOwner, LookExists, LookProbe, LookRead, LookUnlock,
         LookUnlink
<1>3. QED BY <1>1, <1>2, NamesQuiet

\* Moving on does not answer an engine.
LEMMA NotAnswered ==
  ASSUME TypeOK, NEW p \in Proc, NEW pc,
         proc' = [proc EXCEPT ![p].pc = pc]
  PROVE  \A q \in Proc : /\ proc'[q].end = proc[q].end
                         /\ proc'[q].told = proc[q].told
<1>1. proc[p] \in ProcState BY DEF TypeOK
<1>2. QED BY <1>1 DEF TypeOK, ProcState

\* An engine writes ready after it has opened its API, and repeats what it read.
LEMMA NamesEngine ==
  ASSUME TypeOK, NamesInv, NEW p \in Proc,
         Launch(p) \/ Engine(p) \/ Deadline(p) \/ Die(p)
  PROVE  NamesInv'
<1> USE DEF NamesInv, ReadyIsPublished, AnsweredWasReady
<1>1. p \in Actor /\ proc[p] \in ProcState BY DEF TypeOK, Actor
<1>2. look \in [Actor -> LookState] /\ proc \in [Proc -> ProcState]
  BY DEF TypeOK
<1>3. \A how, told : /\ Over(how, told).end = how
                     /\ Over(how, told).told = told
  BY DEF Over
<1>4. CASE Launch(p) \/ Acquire(p) \/ Stop(p) \/ CloseUnlock(p)
  <2>1. PICK pc : proc' = [proc EXCEPT ![p].pc = pc]
    BY <1>4 DEF Launch, Launched, Acquire, Stop, CloseUnlock, Goes
  <2>2. UNCHANGED <<file, look, published>>
    BY <1>4 DEF Launch, Acquire, Stop, CloseUnlock
  <2>3. QED BY <2>1, <2>2, NotAnswered
<1>5. CASE Contend(p)
  <2>1. proc' = [proc EXCEPT ![p].pc = "wait"] BY <1>5 DEF Contend, Goes
  <2>2. QED
    BY <1>2, <1>5, <2>1, NotAnswered, NoFileNotReady DEF Contend
<1>6. CASE Claim(p)
  <2>1. proc' = [proc EXCEPT ![p].pc = "starting"] BY <1>6 DEF Claim, Goes
  <2>2. ~IsReady(file') BY <1>6 DEF Claim, WriteRecord, IsReady
  <2>3. QED BY <1>6, <2>1, <2>2, NotAnswered DEF Claim
<1>7. CASE PublishReady(p)
  <2>1. proc' = [proc EXCEPT ![p].pc = "serving"]
    BY <1>7 DEF PublishReady, Goes
  <2>2. file'.pid = p BY <1>7 DEF PublishReady, WriteRecord
  <2>3. QED BY <1>7, <2>1, <2>2, NotAnswered DEF PublishReady
<1>8. CASE CloseUnlink(p)
  BY <1>2, <1>3, <1>8, NoFileNotReady DEF CloseUnlink, Ends
<1>9. CASE WaitAgain(p)
  BY <1>2, <1>9, NoFileNotReady DEF WaitAgain
<1>10. CASE WaitAnswers(p)
  BY <1>1, <1>2, <1>3, <1>10, NoFileNotReady DEF WaitAnswers
<1>11. CASE WaitFails(p)
  BY <1>2, <1>3, <1>11, NoFileNotReady DEF WaitFails, Ends
<1>12. CASE Deadline(p)
  <2>1. \A q \in Proc : proc'[q].end = proc[q].end /\ proc'[q].told = proc[q].told
    BY <1>1, <1>2, <1>12 DEF Deadline, ProcState
  <2>2. QED BY <1>12, <2>1 DEF Deadline
<1>13. CASE Die(p)
  BY <1>2, <1>3, <1>13, NoFileNotReady DEF Die, Ends
<1>14. QED
  BY <1>4, <1>5, <1>6, <1>7, <1>8, <1>9, <1>10, <1>11, <1>12, <1>13 DEF Engine

\* A command writes no record and answers no engine.
LEMMA NamesCommand ==
  ASSUME TypeOK, NamesInv, NEW c \in Cli, Begin(c) \/ Command(c) \/ CliDeadline(c)
  PROVE  NamesInv'
<1>1. UNCHANGED <<file, published>>
  BY DEF Begin, Command, CliReuses, CliLaunches, CliPollsAgain, CliStarted,
         CliTimesOut, CliReports, CliRaises, CliDeadline
<1>2. \A a \in Actor : look'[a].seen \in {look[a].seen, NoFile}
  BY DEF Begin, Command, CliReuses, CliLaunches, CliPollsAgain, CliStarted,
         CliTimesOut, CliReports, CliRaises, CliDeadline, Asks, NoLook,
         StartLook, TypeOK
<1>3. Child[c] \in Proc /\ proc[Child[c]] \in ProcState
  BY ActorAssumption DEF TypeOK
<1>4. \A q \in Proc : \/ proc'[q].end = "over"
                       \/ /\ proc'[q].end = proc[q].end
                          /\ proc'[q].told = proc[q].told
  <2>1. \/ proc' = proc
        \/ proc' = [proc EXCEPT ![Child[c]].pc = "acquire"]
        \/ proc' = [proc EXCEPT ![Child[c]].stop = TRUE]
        \/ proc' = Ends(Child[c], "over")
    BY DEF Begin, Command, CliReuses, CliLaunches, CliPollsAgain, CliStarted,
           CliTimesOut, CliReports, CliRaises, CliDeadline, Launched,
           Terminated
  <2>2. CASE proc' = proc BY <2>2
  <2>3. CASE proc' = [proc EXCEPT ![Child[c]].pc = "acquire"]
    BY <1>3, <2>3, NotAnswered
  <2>4. CASE proc' = [proc EXCEPT ![Child[c]].stop = TRUE]
    BY <1>3, <2>4 DEF TypeOK, ProcState
  <2>5. CASE proc' = Ends(Child[c], "over")
    BY <1>3, <2>5 DEF TypeOK, Ends, Over
  <2>6. QED BY <2>1, <2>2, <2>3, <2>4, <2>5
<1>5. QED
  BY <1>1, <1>2, <1>4, NoFileNotReady
  DEF NamesInv, ReadyIsPublished, AnsweredWasReady, IsReady

\* Every step keeps what records say true.
LEMMA NamesStep == TypeOK /\ NamesInv /\ [Next]_vars => NamesInv'
<1> SUFFICES ASSUME TypeOK, NamesInv, [Next]_vars PROVE NamesInv'
  OBVIOUS
<1>1. CASE \E p \in Proc : Launch(p) \/ Engine(p) \/ Deadline(p) \/ Die(p)
  BY <1>1, NamesEngine
<1>2. CASE \E c \in Cli : Begin(c) \/ Command(c) \/ CliDeadline(c)
  BY <1>2, NamesCommand
<1>3. CASE \E a \in Actor : ReadLiveOwner(a)
  BY <1>3, NamesLook
<1>4. CASE DesktopClears
  BY <1>4, NamesQuiet DEF DesktopClears
<1>5. CASE UNCHANGED vars
  BY <1>5, NamesQuiet DEF vars
<1>6. QED BY <1>1, <1>2, <1>3, <1>4, <1>5 DEF Next

\* At first there is no record.
LEMMA NamesInit == Init => NamesInv
  BY NoFileNotReady
     DEF Init, NamesInv, ReadyIsPublished, AnsweredWasReady, Unborn

\* The engine that already_running names had opened its API, though the
\* record was read without the lock and its writer may be gone since.
THEOREM AnsweredWasReadyAlways == Spec => []AnsweredWasReady
<1>1. Spec => [](TypeOK /\ NamesInv)
  BY TypeInit, TypeStep, NamesInit, NamesStep, PTL DEF Spec
<1>2. NamesInv => AnsweredWasReady BY DEF NamesInv
<1>3. QED BY <1>1, <1>2, PTL

-----------------------------------------------------------------------------
(* A start that nobody else takes part in *)

\* Who reads the owner, or has the lock, is at work; an engine that was never
\* launched has no history.
AtWork ==
    /\ \A a \in Actor : look[a].pc # "off" => Busy(a)
    /\ holder # Nobody => \/ holder \in Proc /\ Owns(holder)
                          \/ look[holder].pc = "unlock"
    /\ \A p \in Proc : proc[p].pc = "unborn" =>
                          proc[p].end = "none" /\ ~proc[p].stop

\* A command that is alone and has launched nothing meets no owner: a record
\* it finds is stale, its probe gets the lock, and it removes the record.
FindsNobody(c) ==
    /\ cli[c].pc \in {"first", "status", "done"}
    /\ look[c].pc \in {"off", "exists", "probe", "unlock", "unlink", "seen"}
    /\ look[c].pc = "seen" => /\ look[c].seen = NoFile
                              /\ cli[c].pc = "first" => file = NoFile

\* What owner.json says of an engine that starts alone.
RecordOf(p) ==
    CASE proc[p].pc = "starting" -> [pid |-> p, phase |-> "starting"]
      [] proc[p].pc = "serving"  -> [pid |-> p, phase |-> "ready"]
      [] OTHER                   -> NoFile

\* A command that is alone with the engine p it launched polls until the
\* record of p is ready, and reports p.
ReadsChild(c, p) ==
    /\ ~proc[p].stop
    /\ proc[p].pc \in {"acquire", "claimed", "starting", "serving"}
    /\ file = RecordOf(p)
    /\ look[c].pc \in {"exists", "probe", "read", "seen"}
    /\ look[c].pc \in {"probe", "read"} => file # NoFile
    /\ look[c].pc = "seen" =>
          \/ look[c].seen = NoFile /\ cli[c].pc = "poll"
          \/ /\ look[c].seen # NoFile /\ look[c].seen.pid = p
             /\ IsReady(look[c].seen) => proc[p].pc = "serving"
\* Where it is with that.
FindsChild(c, p) ==
    \/ cli[c].pc = "poll" /\ ReadsChild(c, p)
    \/ cli[c].pc = "status" /\ proc[p].pc = "serving" /\ ReadsChild(c, p)
    \/ cli[c].pc = "done" /\ cli[c].told = p
    \/ cli[c].pc = "failed" /\ cli[c].late

\* Whoever is at work belongs to the start that is alone; its engine never
\* waits for another one.
LoneOK(x) ==
    /\ Starter(x) = x
    /\ \A a \in Actor : Busy(a) => Starter(a) = x
    /\ \A p \in Proc : Starter(p) = x =>
                          proc[p].pc # "wait" /\ proc[p].end # "failed"
    /\ x \in Cli => IF proc[Child[x]].pc = "unborn"
                    THEN FindsNobody(x) ELSE FindsChild(x, Child[x])
\* So it is for the start that is alone, if one is.
LoneInv == \A x \in alone : LoneOK(x)

\* The invariant of the starts.
StartInv == TypeOK /\ LockInv /\ AtWork /\ LoneInv

\* Whose start an actor belongs to.
LEMMA StarterOf ==
  /\ \A c \in Cli : Starter(c) = c /\ Starter(Child[c]) = c
  /\ \A a \in Actor :
        \/ Starter(a) = a /\ a \in Actor
        \/ Starter(a) \in Cli /\ a = Child[Starter(a)]
<1>1. ASSUME NEW c \in Cli PROVE Starter(c) = c
  BY ActorAssumption DEF Starter
<1>2. ASSUME NEW c \in Cli PROVE Starter(Child[c]) = c
  <2> DEFINE d == CHOOSE d \in Cli : Child[c] = Child[d]
  <2>1. d \in Cli /\ Child[c] = Child[d] OBVIOUS
  <2>2. Starter(Child[c]) = d BY DEF Starter
  <2> HIDE DEF d
  <2>3. QED BY <2>1, <2>2, ActorAssumption
<1>3. ASSUME NEW a \in Actor
      PROVE  \/ Starter(a) = a /\ a \in Actor
             \/ Starter(a) \in Cli /\ a = Child[Starter(a)]
  <2>1. CASE \E c \in Cli : a = Child[c] BY <1>2, <2>1
  <2>2. CASE ~\E c \in Cli : a = Child[c] BY <2>2 DEF Starter
  <2>3. QED BY <2>1, <2>2
<1>4. QED BY <1>1, <1>2, <1>3

\* When a start is alone, only its own engine or probe has the lock.
LEMMA LoneLock ==
  ASSUME StartInv, NEW x \in alone, holder # Nobody
  PROVE  /\ Starter(holder) = x
         /\ (holder \in Proc /\ Owns(holder)) \/ look[holder].pc = "unlock"
<1>1. holder \in Actor BY DEF StartInv, TypeOK
<1>2. (holder \in Proc /\ Owns(holder)) \/ look[holder].pc = "unlock"
  BY DEF StartInv, AtWork
<1>3. Busy(holder)
  BY <1>1, <1>2 DEF StartInv, AtWork, Busy, Owns
<1>4. QED BY <1>1, <1>2, <1>3 DEF StartInv, LoneInv, LoneOK

\* Readers are at work, and what they lock they unlock.
LEMMA AtWorkLook ==
  ASSUME StartInv, NEW a \in Actor, ReadLiveOwner(a)
  PROVE  AtWork'
<1> USE DEF StartInv, TypeOK, AtWork
<1>1. /\ UNCHANGED <<proc, cli>> /\ look[a].pc # "off"
      /\ \A b \in Actor : b # a => look'[b] = look[b]
  BY DEF ReadLiveOwner, LookExists, LookProbe, LookRead, LookUnlock,
         LookUnlink, Seen, LookTo
<1>2. \A b \in Actor : Busy(b)' = Busy(b) BY <1>1 DEF Busy
<1>3. \A p : Owns(p)' = Owns(p) BY <1>1 DEF Owns
<1>4. \/ holder' = holder /\ look[a].pc # "unlock"
      \/ holder' = a /\ look'[a].pc = "unlock"
      \/ holder' = Nobody
  BY DEF ReadLiveOwner, LookExists, LookProbe, LookRead, LookUnlock,
         LookUnlink, LookTo, LookState
<1>5. QED BY <1>1, <1>2, <1>3, <1>4

\* So are engines.
LEMMA AtWorkEngine ==
  ASSUME StartInv, NEW p \in Proc,
         Launch(p) \/ Engine(p) \/ Deadline(p) \/ Die(p)
  PROVE  AtWork'
<1> USE DEF StartInv, TypeOK, AtWork, LockInv, ProbersWait, Owns
<1>1. Nobody \notin Actor /\ p \in Actor /\ Proc \subseteq Actor
      /\ Proc \cap Cli = {}
  BY ActorAssumption DEF Actor
<1>2. /\ NoLook.pc = "off" /\ StartLook.pc = "exists"
      /\ \A how, told : Over(how, told).pc = "gone"
  BY DEF NoLook, StartLook, Over
<1>3. /\ proc[p] \in ProcState
      /\ \A pc : [proc[p] EXCEPT !.pc = pc].pc = pc
      /\ [proc[p] EXCEPT !.late = TRUE].pc = proc[p].pc
      /\ [proc[p] EXCEPT !.late = TRUE].stop = proc[p].stop
      /\ [proc[p] EXCEPT !.late = TRUE].end = proc[p].end
  BY DEF ProcState
<1>4. ASSUME UNCHANGED cli, \A q \in Proc \ {p} : proc'[q] = proc[q],
             \A a \in Actor \ {p} : look'[a] = look[a],
             look'[p].pc # "off" => proc'[p].pc = "wait",
             proc'[p].pc = "unborn" =>
                proc'[p].end = "none" /\ ~proc'[p].stop,
             \/ holder' = Nobody
             \/ holder' = p /\ Owns(p)'
             \/ holder' = holder /\ holder # p
      PROVE  AtWork'
  <2>1. \A a \in Actor \ {p} : Busy(a)' = Busy(a) BY <1>1, <1>4 DEF Busy
  <2>2. look'[p].pc # "off" => Busy(p)' BY <1>1, <1>4 DEF Busy
  <2>3. \A a \in Actor : look'[a].pc # "off" => Busy(a)'
    BY <1>1, <1>4, <2>1, <2>2
  <2>4. holder' # Nobody => \/ holder' \in Proc /\ Owns(holder)'
                            \/ look'[holder'].pc = "unlock"
    BY <1>1, <1>4
  <2>5. \A q \in Proc : proc'[q].pc = "unborn" =>
                          proc'[q].end = "none" /\ ~proc'[q].stop
    BY <1>1, <1>4
  <2>6. QED BY <2>3, <2>4, <2>5
<1>5. CASE Launch(p)
  BY <1>1, <1>3, <1>4, <1>5 DEF Launch, Launched
<1>6. CASE Acquire(p) BY <1>1, <1>3, <1>4, <1>6 DEF Acquire, Goes
<1>7. CASE Contend(p) BY <1>1, <1>2, <1>3, <1>4, <1>7 DEF Contend, Goes
<1>8. CASE Claim(p) BY <1>1, <1>3, <1>4, <1>8 DEF Claim, Goes, OneEngine
<1>9. CASE PublishReady(p)
  BY <1>1, <1>3, <1>4, <1>9 DEF PublishReady, Goes, OneEngine
<1>10. CASE Stop(p) BY <1>1, <1>3, <1>4, <1>10 DEF Stop, Goes, OneEngine
<1>11. CASE CloseUnlock(p)
  BY <1>1, <1>3, <1>4, <1>11 DEF CloseUnlock, Goes
<1>12. CASE CloseUnlink(p)
  BY <1>1, <1>2, <1>4, <1>12 DEF CloseUnlink, Ends
<1>13. CASE WaitAgain(p) BY <1>1, <1>2, <1>4, <1>13 DEF WaitAgain
<1>14. CASE WaitAnswers(p) BY <1>1, <1>2, <1>4, <1>14 DEF WaitAnswers
<1>15. CASE WaitFails(p) BY <1>1, <1>2, <1>4, <1>15 DEF WaitFails, Ends
<1>16. CASE Deadline(p)
  <2>1. /\ UNCHANGED <<cli, look, holder>> /\ proc[p].pc = "wait"
        /\ proc' = [proc EXCEPT ![p].late = TRUE]
    BY <1>16 DEF Deadline
  <2>2. \A q \in Proc : /\ proc'[q].pc = proc[q].pc
                        /\ proc'[q].end = proc[q].end
                        /\ proc'[q].stop = proc[q].stop
    BY <1>3, <2>1
  <2>3. \A a \in Actor : Busy(a)' = Busy(a) BY <2>1, <2>2 DEF Busy
  <2>4. QED BY <2>1, <2>2, <2>3
<1>17. CASE Die(p)
  BY <1>1, <1>2, <1>4, <1>17 DEF Die, Ends, Released
<1>18. QED
  BY <1>5, <1>6, <1>7, <1>8, <1>9, <1>10, <1>11, <1>12, <1>13, <1>14, <1>15,
     <1>16, <1>17 DEF Engine

\* So are commands.
LEMMA AtWorkCommand ==
  ASSUME StartInv, NEW c \in Cli, Begin(c) \/ Command(c) \/ CliDeadline(c)
  PROVE  AtWork'
<1> USE DEF StartInv, TypeOK, AtWork
<1>1. /\ Nobody \notin Actor /\ c \in Actor /\ c \notin Proc
      /\ Proc \subseteq Actor /\ Child[c] \in Proc /\ Proc \cap Cli = {}
  BY ActorAssumption DEF Actor
<1>2. /\ NoLook.pc = "off" /\ StartLook.pc = "exists"
      /\ \A how, told : Over(how, told).pc = "gone"
  BY DEF NoLook, StartLook, Over
<1>3. /\ cli[c] \in CliState
      /\ \A pc : [cli[c] EXCEPT !.pc = pc].pc = pc
      /\ [cli[c] EXCEPT !.late = TRUE].pc = cli[c].pc
  BY DEF CliState
<1>4. ASSUME UNCHANGED <<proc, holder>>, look[c].pc # "unlock",
             \A d \in Cli \ {c} : cli'[d] = cli[d],
             \A a \in Actor \ {c} : look'[a] = look[a],
             look'[c].pc # "off" => cli'[c].pc \in {"first", "poll", "status"}
      PROVE  AtWork'
  <2>1. \A a \in Actor \ {c} : Busy(a)' = Busy(a)
    BY <1>1, <1>4 DEF Busy, Actor
  <2>2. look'[c].pc # "off" => Busy(c)' BY <1>1, <1>4 DEF Busy
  <2>3. \A a \in Actor : look'[a].pc # "off" => Busy(a)'
    BY <1>1, <1>4, <2>1, <2>2
  <2>4. \A q : Owns(q)' = Owns(q) BY <1>4 DEF Owns
  <2>5. holder' # Nobody => \/ holder' \in Proc /\ Owns(holder)'
                            \/ look'[holder'].pc = "unlock"
    BY <1>1, <1>4, <2>4
  <2>6. QED BY <1>4, <2>3, <2>5
<1>5. \A pc \in {"first", "poll", "status"} :
         Asks(c, pc) => /\ \A d \in Cli \ {c} : cli'[d] = cli[d]
                        /\ \A a \in Actor \ {c} : look'[a] = look[a]
                        /\ cli'[c].pc = pc /\ look'[c].pc = "exists"
  BY <1>1, <1>2, <1>3 DEF Asks
<1>6. CASE Begin(c)
  <2>1. look[c].pc # "unlock"
    BY <1>1, <1>6 DEF Begin, Busy
  <2>2. QED BY <1>4, <1>5, <1>6, <2>1 DEF Begin
<1>7. CASE CliReuses(c) BY <1>4, <1>5, <1>7 DEF CliReuses
<1>8. CASE CliLaunches(c)
  <2> DEFINE p == Child[c]
  <2>0. proc[p] \in ProcState /\ [proc[p] EXCEPT !.pc = "acquire"].pc = "acquire"
    BY <1>1 DEF ProcState
  <2>1. /\ Asks(c, "poll") /\ UNCHANGED holder /\ look[c].pc = "seen"
        /\ proc' = [proc EXCEPT ![p].pc = "acquire"]
        /\ proc[p].pc = "unborn"
    BY <1>8 DEF CliLaunches, Launched, LockInv, ChildUnborn
  <2>2. /\ \A q \in Proc \ {p} : proc'[q] = proc[q]
        /\ proc'[p].pc = "acquire"
    BY <2>0, <2>1, <1>1
  <2>3. /\ \A d \in Cli \ {c} : cli'[d] = cli[d]
        /\ \A a \in Actor \ {c} : look'[a] = look[a]
        /\ cli'[c].pc = "poll" /\ look'[c].pc = "exists"
    BY <1>5, <2>1
  <2>4. ASSUME NEW a \in Actor, Busy(a) PROVE Busy(a)'
    BY <1>1, <2>2, <2>3, <2>4 DEF Busy, Actor
  <2>5. Busy(c)' BY <1>1, <2>3 DEF Busy
  <2>6. \A a \in Actor : look'[a].pc # "off" => Busy(a)'
    BY <2>3, <2>4, <2>5
  <2>7. \A q \in Proc : Owns(q) => Owns(q)' BY <2>1, <2>2 DEF Owns
  <2>8. holder' # Nobody => \/ holder' \in Proc /\ Owns(holder)'
                            \/ look'[holder'].pc = "unlock"
    BY <1>1, <2>1, <2>3, <2>7
  <2>9. \A q \in Proc : proc'[q].pc = "unborn" =>
                          proc'[q].end = "none" /\ ~proc'[q].stop
    BY <2>2
  <2>10. QED BY <2>6, <2>8, <2>9
<1>9. CASE CliPollsAgain(c) BY <1>1, <1>2, <1>4, <1>9 DEF CliPollsAgain
<1>10. CASE CliStarted(c) BY <1>4, <1>5, <1>10 DEF CliStarted
<1>11. CASE CliTimesOut(c)
  <2> DEFINE p == Child[c]
  <2>0. /\ proc[p] \in ProcState
        /\ [proc[p] EXCEPT !.stop = TRUE].pc = proc[p].pc
    BY <1>1 DEF ProcState
  <2>1. /\ \A q \in Proc : q # p => proc'[q] = proc[q]
        /\ \/ proc'[p] = proc[p]
           \/ proc'[p].pc = proc[p].pc /\ proc[p].pc \in {"starting", "serving"}
           \/ proc'[p].pc = "gone"
    <3>1. \/ /\ proc' = [proc EXCEPT ![p].stop = TRUE]
             /\ proc[p].pc \in {"starting", "serving"}
          \/ proc' = Ends(p, "over")
          \/ proc' = proc
      BY <1>11 DEF CliTimesOut, Terminated
    <3>2. CASE /\ proc' = [proc EXCEPT ![p].stop = TRUE]
               /\ proc[p].pc \in {"starting", "serving"}
      BY <1>1, <2>0, <3>2
    <3>3. CASE proc' = Ends(p, "over") BY <1>1, <1>2, <3>3 DEF Ends
    <3>4. QED BY <1>2, <3>1, <3>2, <3>3
  <2>2. /\ \A a \in Actor : look'[a] = look[a] \/ look'[a].pc = "off"
        /\ look'[c].pc = "off" /\ look[c].pc = "seen"
        /\ \A a \in Actor \ {c, p} : look'[a] = look[a]
        /\ proc'[p].pc = "gone" => look'[p].pc = "off"
        /\ proc'[p].pc # "gone" => look'[p] = look[p]
        /\ IF proc'[p].pc = "gone" THEN holder' = Released(p)
                                   ELSE holder' = holder
    BY <1>1, <1>2, <1>11 DEF CliTimesOut
  <2>3. \A d \in Cli \ {c} : cli'[d] = cli[d]
    BY <1>11 DEF CliTimesOut
  <2>4. ASSUME NEW a \in Actor, look'[a].pc # "off" PROVE Busy(a)'
    <3>1. Busy(a) /\ a # c /\ (a = p => proc'[p].pc = proc[p].pc)
      BY <2>1, <2>2, <2>4
    <3>2. QED BY <1>1, <2>1, <2>3, <2>4, <3>1 DEF Busy, Actor
  <2>5. ASSUME holder' # Nobody
        PROVE  \/ holder' \in Proc /\ Owns(holder)'
               \/ look'[holder'].pc = "unlock"
    <3>1. holder' = holder /\ (proc'[p].pc = "gone" => holder # p)
      BY <2>2, <2>5 DEF Released
    <3>2. CASE holder \in Proc /\ Owns(holder)
      BY <2>1, <3>1, <3>2 DEF Owns
    <3>3. CASE look[holder].pc = "unlock"
      BY <1>1, <2>2, <2>5, <3>1, <3>3
    <3>4. QED BY <2>5, <3>1, <3>2, <3>3
  <2>6. \A q \in Proc : proc'[q].pc = "unborn" =>
                          proc'[q].end = "none" /\ ~proc'[q].stop
    BY <2>1
  <2>7. QED BY <2>4, <2>5, <2>6
<1>12. CASE CliReports(c)
  BY <1>1, <1>2, <1>4, <1>12 DEF CliReports
<1>13. CASE CliRaises(c)
  BY <1>1, <1>2, <1>4, <1>13 DEF CliRaises
<1>14. CASE CliDeadline(c)
  <2>1. /\ UNCHANGED <<proc, holder, look>>
        /\ cli' = [cli EXCEPT ![c].late = TRUE]
    BY <1>14 DEF CliDeadline
  <2>2. \A d \in Cli : cli'[d].pc = cli[d].pc BY <1>3, <2>1
  <2>3. \A a \in Actor : Busy(a)' = Busy(a) BY <2>1, <2>2 DEF Busy, Actor
  <2>4. \A q : Owns(q)' = Owns(q) BY <2>1 DEF Owns
  <2>5. QED BY <2>1, <2>3, <2>4
<1>15. QED
  BY <1>6, <1>7, <1>8, <1>9, <1>10, <1>11, <1>12, <1>13, <1>14 DEF Command

\* A reader whose start is alone is a command: it clears what a dead engine
\* left, or reads what its own engine wrote.
LEMMA LoneLook ==
  ASSUME StartInv, NEW a \in Actor, ReadLiveOwner(a)
  PROVE  LoneInv'
<1> USE DEF StartInv, TypeOK
<1> SUFFICES ASSUME NEW x \in alone' PROVE LoneOK(x)'
  BY DEF LoneInv
<1>1. /\ UNCHANGED <<proc, cli>> /\ look[a].pc # "off" /\ Busy(a)
      /\ alone' = alone \cap {Starter(a)}
      /\ \A b \in Actor : b # a => look'[b] = look[b]
  BY DEF ReadLiveOwner, LookExists, LookProbe, LookRead, LookUnlock,
         LookUnlink, Seen, LookTo, Moved, AtWork
<1>2. x \in alone /\ x = Starter(a) /\ LoneOK(x) BY <1>1 DEF LoneInv
<1>3. a \notin Proc
  BY <1>1, <1>2 DEF LoneOK, LockInv, ProbersWait
<1>4. a \in Cli /\ x = a BY <1>2, <1>3, StarterOf DEF Actor
<1> DEFINE p == Child[a]
<1>5. p \in Proc /\ Nobody \notin Actor /\ p # a
  BY <1>3, <1>4, ActorAssumption DEF Actor
<1>6. /\ \A pc : LookTo(a, pc) => look'[a].pc = pc
      /\ \A rec : Seen(a, rec) => look'[a].pc = "seen" /\ look'[a].seen = rec
  <2>1. look[a] \in LookState OBVIOUS
  <2>2. ASSUME NEW pc, LookTo(a, pc) PROVE look'[a].pc = pc
    <3>1. look'[a] = [look[a] EXCEPT !.pc = pc] BY <2>2 DEF LookTo
    <3>2. QED BY <2>1, <3>1 DEF LookState
  <2>3. ASSUME NEW rec, Seen(a, rec)
        PROVE  look'[a].pc = "seen" /\ look'[a].seen = rec
    <3>1. look'[a] = [pc |-> "seen", seen |-> rec] BY <2>3 DEF Seen
    <3>2. QED BY <3>1
  <2>4. QED BY <2>2, <2>3
<1>7. SUFFICES IF proc[p].pc = "unborn" THEN FindsNobody(a)'
                                        ELSE FindsChild(a, p)'
  <2>1. \A b \in Actor : Busy(b)' = Busy(b) BY <1>1 DEF Busy
  <2>2. \A b : Starter(b)' = Starter(b) BY DEF Starter
  <2>3. QED BY <1>1, <1>2, <1>4, <1>7, <2>1, <2>2 DEF LoneOK
<1>8. CASE proc[p].pc = "unborn"
  <2>0. SUFFICES FindsNobody(a)' BY <1>8
  <2>1. FindsNobody(a) BY <1>2, <1>4, <1>8 DEF LoneOK
  <2>2. CASE LookExists(a)
    BY <1>1, <1>6, <2>1, <2>2 DEF LookExists, FindsNobody
  <2>3. CASE LookProbe(a)
    <3>1. holder = Nobody
      <4>1. SUFFICES ASSUME holder # Nobody PROVE FALSE OBVIOUS
      <4>2. /\ Starter(holder) = a /\ holder \in Actor
            /\ (holder \in Proc /\ Owns(holder)) \/ look[holder].pc = "unlock"
        BY <1>2, <1>4, <4>1, LoneLock
      <4>3. holder = a \/ holder = p BY <1>4, <4>2, StarterOf
      <4>4. look[p].pc # "unlock" /\ ~Owns(p)
        BY <1>5, <1>8 DEF LockInv, ProbersWait, Owns
      <4>5. look[a].pc # "unlock" BY <2>3 DEF LookProbe
      <4>6. QED BY <1>3, <4>2, <4>3, <4>4, <4>5
    <3>2. QED BY <1>1, <1>6, <2>1, <2>3, <3>1 DEF LookProbe, FindsNobody
  <2>4. CASE LookRead(a) BY <2>1, <2>4 DEF LookRead, FindsNobody
  <2>5. CASE LookUnlock(a)
    BY <1>1, <1>6, <2>1, <2>5 DEF LookUnlock, FindsNobody
  <2>6. CASE LookUnlink(a)
    BY <1>1, <1>6, <2>1, <2>6 DEF LookUnlink, FindsNobody
  <2>7. QED BY <1>8, <2>2, <2>3, <2>4, <2>5, <2>6 DEF ReadLiveOwner
<1>9. CASE proc[p].pc # "unborn"
  <2>1. /\ ReadsChild(a, p)
        /\ \/ cli[a].pc = "poll"
           \/ cli[a].pc = "status" /\ proc[p].pc = "serving"
    <3>1. FindsChild(a, p) BY <1>2, <1>4, <1>9 DEF LoneOK
    <3>2. cli[a].pc \notin {"done", "failed"} BY <1>1, <1>3 DEF Busy
    <3>3. QED BY <3>1, <3>2 DEF FindsChild
  <2>2. SUFFICES ReadsChild(a, p)'
    BY <1>1, <1>9, <2>1 DEF FindsChild
  <2>3. RecordOf(p)' = RecordOf(p) BY <1>1 DEF RecordOf
  <2>4. /\ file # NoFile =>
             /\ file.pid = p /\ proc[p].pc \in {"starting", "serving"}
             /\ IsReady(file) => proc[p].pc = "serving"
        /\ proc[p].pc = "serving" => file # NoFile
    <3>1. \A phase \in {"starting", "ready"} :
             [pid |-> p, phase |-> phase] # NoFile
      BY <1>5, ActorAssumption
    <3>2. QED BY <2>1, <3>1 DEF ReadsChild, RecordOf, IsReady
  <2>5. CASE LookExists(a)
    BY <1>1, <1>6, <2>1, <2>3, <2>4, <2>5
    DEF LookExists, ReadsChild
  <2>6. CASE LookProbe(a)
    <3>1. holder # Nobody
      BY <1>5, <2>1, <2>4, <2>6
      DEF LookProbe, ReadsChild, LockInv, OneEngine, Owns, Actor
    <3>2. QED
      BY <1>1, <1>6, <2>1, <2>3, <2>6, <3>1 DEF LookProbe, ReadsChild
  <2>7. CASE LookRead(a)
    BY <1>1, <1>6, <2>1, <2>3, <2>4, <2>7 DEF LookRead, ReadsChild
  <2>8. CASE LookUnlock(a) \/ LookUnlink(a)
    BY <2>1, <2>8 DEF LookUnlock, LookUnlink, ReadsChild
  <2>9. QED BY <2>5, <2>6, <2>7, <2>8 DEF ReadLiveOwner
<1>10. QED BY <1>8, <1>9

\* The engine of the start that is alone takes the lock, writes its record
\* and serves; no other engine moves.
LEMMA LoneEngine ==
  ASSUME StartInv, NEW p \in Proc,
         Launch(p) \/ Engine(p) \/ Deadline(p) \/ Die(p)
  PROVE  LoneInv'
<1> USE DEF StartInv, TypeOK
<1> SUFFICES ASSUME NEW x \in alone' PROVE LoneOK(x)'
  BY DEF LoneInv
<1>1. Nobody \notin Actor /\ p \in Actor /\ Proc \subseteq Actor
      /\ Proc \cap Cli = {} /\ Cli \subseteq Actor
      /\ \A c \in Cli : Child[c] \in Proc
  BY ActorAssumption DEF Actor
<1>2. proc[p] \in ProcState
  OBVIOUS
<1>3. /\ \A pc : /\ [proc[p] EXCEPT !.pc = pc].pc = pc
                 /\ [proc[p] EXCEPT !.pc = pc].end = proc[p].end
                 /\ [proc[p] EXCEPT !.pc = pc].stop = proc[p].stop
      /\ Over("over", Nobody).pc = "gone" /\ Over("over", Nobody).end = "over"
  BY <1>2 DEF ProcState, Over
<1>s. \A b : Starter(b)' = Starter(b) BY DEF Starter
<1>4. CASE Launch(p)
  <2>1. /\ Starter(p) = p /\ proc[p].pc = "unborn"
        /\ proc' = [proc EXCEPT ![p].pc = "acquire"] /\ UNCHANGED cli
        /\ alone' = Starts(p)
    BY <1>4 DEF Launch, Launched
  <2>2. x = p /\ \A a \in Actor : Busy(a) => Starter(a) = p
    BY <2>1 DEF Starts
  <2>3. \A q \in Proc : Starter(q) = p => q = p
    BY <1>1, StarterOf
  <2>4. \A a \in Actor : a # p => Busy(a)' = Busy(a)
    BY <1>1, <2>1 DEF Busy, Actor
  <2>5. proc'[p].pc = "acquire" /\ proc'[p].end = "none"
    BY <1>3, <2>1 DEF AtWork
  <2>6. \A a \in Actor : Busy(a)' => Starter(a) = p
    BY <2>1, <2>2, <2>4
  <2>7. QED
    BY <1>1, <1>s, <2>1, <2>2, <2>3, <2>5, <2>6 DEF LoneOK
<1>5. CASE Engine(p)
  <2>1. proc[p].pc \notin {"unborn", "gone"} /\ Busy(p)
    BY <1>1, <1>5 DEF Engine, Acquire, Contend, Claim, PublishReady, Stop,
       CloseUnlock, CloseUnlink, WaitAgain, WaitAnswers, WaitFails, Busy
  <2>2. alone' \subseteq alone \cap {Starter(p)} /\ UNCHANGED cli
    BY <1>5 DEF Engine, Acquire, Contend, Claim, PublishReady, Stop,
       CloseUnlock, CloseUnlink, WaitAgain, WaitAnswers, WaitFails, Moved
  <2>3. x \in alone /\ x = Starter(p) /\ LoneOK(x)
    BY <2>2 DEF LoneInv
  <2>4. proc[p].pc # "wait" /\ proc[p].end # "failed" BY <2>3 DEF LoneOK
  <2>5. ~Contend(p)
    <3>1. SUFFICES ASSUME Contend(p) PROVE FALSE OBVIOUS
    <3>2. holder # Nobody /\ proc[p].pc = "acquire" BY <3>1 DEF Contend
    <3>3. /\ Starter(holder) = x /\ holder \in Actor
          /\ (holder \in Proc /\ Owns(holder)) \/ look[holder].pc = "unlock"
      BY <2>3, <3>2, LoneLock
    <3>4. ~Owns(p) /\ look[p].pc # "unlock"
      BY <3>2 DEF Owns, LockInv, ProbersWait
    <3>5. holder # p BY <3>3, <3>4
    <3>6. /\ x \in Cli /\ p = Child[x] /\ holder = x
      BY <1>1, <2>3, <3>3, <3>5, StarterOf
    <3>7. look[x].pc = "unlock" /\ Busy(x)
      BY <1>1, <3>3, <3>6 DEF AtWork
    <3>8. FindsChild(x, p) BY <2>1, <2>3, <3>6 DEF LoneOK
    <3>9. QED
      BY <1>1, <3>6, <3>7, <3>8 DEF FindsChild, ReadsChild, Busy
  <2>6. ASSUME \A q \in Proc \ {p} : proc'[q] = proc[q],
               proc'[p].pc \notin {"unborn", "wait"},
               proc'[p].end # "failed",
               x \in Cli => FindsChild(x, Child[x])'
        PROVE  LoneOK(x)'
    <3>1. \A a \in Actor : Busy(a)' => Busy(a)
      BY <1>1, <2>1, <2>2, <2>6 DEF Busy, Actor
    <3>2. x \in Cli => p = Child[x]
      BY <1>1, <2>3, StarterOf
    <3>3. x \in Cli => proc'[Child[x]].pc # "unborn" BY <2>6, <3>2
    <3>4. \A q \in Proc : Starter(q) = x =>
                             proc'[q].pc # "wait" /\ proc'[q].end # "failed"
      BY <2>3, <2>6 DEF LoneOK
    <3>5. QED BY <1>s, <2>3, <2>6, <3>1, <3>3, <3>4 DEF LoneOK
  <2>7. x \in Cli => p = Child[x] /\ FindsChild(x, p)
    BY <1>1, <2>1, <2>3, StarterOf DEF LoneOK
  <2>8. \A phase \in {"starting", "ready"} :
             [pid |-> p, phase |-> phase] # NoFile
    BY ActorAssumption
  <2>9. CASE Acquire(p)
    <3>1. /\ proc' = [proc EXCEPT ![p].pc = "claimed"]
          /\ proc[p].pc = "acquire" /\ UNCHANGED <<file, look>>
      BY <2>9 DEF Acquire, Goes
    <3>2. /\ proc'[p].pc = "claimed" /\ proc'[p].end = proc[p].end
          /\ proc'[p].stop = proc[p].stop
          /\ \A q \in Proc \ {p} : proc'[q] = proc[q]
      BY <1>3, <3>1
    <3>3. x \in Cli => FindsChild(x, p)'
      BY <2>2, <2>7, <3>1, <3>2 DEF FindsChild, ReadsChild, RecordOf
    <3>4. QED BY <2>4, <2>6, <2>7, <3>2, <3>3
  <2>10. CASE Claim(p)
    <3>1. /\ proc' = [proc EXCEPT ![p].pc = "starting"]
          /\ proc[p].pc = "claimed" /\ UNCHANGED look
          /\ file' = [pid |-> p, phase |-> "starting"]
      BY <2>10 DEF Claim, WriteRecord, Goes
    <3>2. /\ proc'[p].pc = "starting" /\ proc'[p].end = proc[p].end
          /\ proc'[p].stop = proc[p].stop
          /\ \A q \in Proc \ {p} : proc'[q] = proc[q]
      BY <1>3, <3>1
    <3>3. x \in Cli => FindsChild(x, p)'
      BY <2>2, <2>7, <2>8, <3>1, <3>2 DEF FindsChild, ReadsChild, RecordOf
    <3>4. QED BY <2>4, <2>6, <2>7, <3>2, <3>3
  <2>11. CASE PublishReady(p)
    <3>1. /\ proc' = [proc EXCEPT ![p].pc = "serving"]
          /\ proc[p].pc = "starting" /\ UNCHANGED look
          /\ file' = [pid |-> p, phase |-> "ready"]
      BY <2>11 DEF PublishReady, WriteRecord, Goes
    <3>2. /\ proc'[p].pc = "serving" /\ proc'[p].end = proc[p].end
          /\ proc'[p].stop = proc[p].stop
          /\ \A q \in Proc \ {p} : proc'[q] = proc[q]
      BY <1>3, <3>1
    <3>3. x \in Cli => FindsChild(x, p)'
      BY <2>2, <2>7, <2>8, <3>1, <3>2 DEF FindsChild, ReadsChild, RecordOf
    <3>4. QED BY <2>4, <2>6, <2>7, <3>2, <3>3
  <2>12. CASE Stop(p) \/ CloseUnlock(p)
    <3>1. PICK pc \in {"closing", "unlinking"} :
               proc' = [proc EXCEPT ![p].pc = pc]
      BY <2>12 DEF Stop, CloseUnlock, Goes
    <3>2. /\ proc'[p].pc = pc /\ proc'[p].end = proc[p].end
          /\ \A q \in Proc \ {p} : proc'[q] = proc[q]
      BY <1>3, <3>1
    <3>3. proc[p].stop \/ proc[p].pc = "closing"
      BY <2>12 DEF Stop, CloseUnlock
    <3>4. x \in Cli => FindsChild(x, p)'
      BY <2>2, <2>7, <3>3 DEF FindsChild, ReadsChild
    <3>5. QED BY <2>4, <2>6, <2>7, <3>2, <3>4
  <2>13. CASE CloseUnlink(p)
    <3>1. /\ proc' = [proc EXCEPT ![p] = Over("over", Nobody)]
          /\ proc[p].pc = "unlinking"
      BY <2>13 DEF CloseUnlink, Ends
    <3>2. /\ proc'[p].pc = "gone" /\ proc'[p].end = "over"
          /\ \A q \in Proc \ {p} : proc'[q] = proc[q]
      BY <1>3, <3>1
    <3>3. x \in Cli => FindsChild(x, p)'
      BY <2>2, <2>7, <3>1 DEF FindsChild, ReadsChild
    <3>4. QED BY <2>6, <2>7, <3>2, <3>3
  <2>14. QED
    BY <1>5, <2>4, <2>5, <2>9, <2>10, <2>11, <2>12, <2>13
    DEF Engine, WaitAgain, WaitAnswers, WaitFails
<1>6. CASE Deadline(p)
  <2>1. proc[p].pc = "wait" /\ alone' = alone BY <1>6 DEF Deadline
  <2>2. x \in alone /\ LoneOK(x) BY <2>1 DEF LoneInv
  <2>3. Busy(p) BY <1>1, <2>1 DEF Busy
  <2>4. QED BY <1>1, <2>1, <2>2, <2>3 DEF LoneOK
<1>7. CASE Die(p) BY <1>7 DEF Die
<1>8. QED BY <1>4, <1>5, <1>6, <1>7

\* The command of the start that is alone launches its engine and reports it.
LEMMA LoneCommand ==
  ASSUME StartInv, NEW c \in Cli, Begin(c) \/ Command(c) \/ CliDeadline(c)
  PROVE  LoneInv'
<1> USE DEF StartInv, TypeOK
<1> SUFFICES ASSUME NEW x \in alone' PROVE LoneOK(x)'
  BY DEF LoneInv
<1> DEFINE p == Child[c]
<1>1. /\ Nobody \notin Actor /\ c \in Actor /\ c \notin Proc /\ p \in Proc
      /\ Proc \subseteq Actor /\ Cli \subseteq Actor
      /\ \A d \in Cli : d \notin Proc
  BY ActorAssumption DEF Actor
<1>2. /\ cli[c] \in CliState /\ proc[p] \in ProcState
      /\ look[c] \in LookState
  BY <1>1
<1>3. /\ \A pc : /\ [cli[c] EXCEPT !.pc = pc].pc = pc
                 /\ [cli[c] EXCEPT !.pc = pc].late = cli[c].late
      /\ [cli[c] EXCEPT !.late = TRUE].pc = cli[c].pc
      /\ NoLook.pc = "off" /\ StartLook.pc = "exists"
  BY <1>2 DEF CliState, NoLook, StartLook
<1>4. \A pc \in {"first", "poll", "status"} :
         Asks(c, pc) => /\ \A d \in Cli \ {c} : cli'[d] = cli[d]
                        /\ cli'[c].pc = pc /\ look'[c].pc = "exists"
  BY <1>1, <1>3 DEF Asks
<1>s. /\ \A b : Starter(b)' = Starter(b)
      /\ Starter(c) = c /\ Starter(p) = c
      /\ \A a \in Actor : Starter(a) = c => a \in {c, p}
  BY <1>1, StarterOf DEF Starter
<1>5. CASE Begin(c)
  <2>1. /\ cli[c].pc = "idle" /\ alone' = Starts(c) /\ UNCHANGED proc
        /\ \E pc \in {"first", "status"} : Asks(c, pc)
    BY <1>5 DEF Begin
  <2>2. x = c /\ \A a \in Actor : Busy(a) => Starter(a) = c
    BY <2>1 DEF Starts
  <2>3. proc[p].pc = "unborn" /\ proc[p].end = "none"
    BY <1>1, <2>1 DEF LockInv, ChildUnborn, AtWork
  <2>4. \A a \in Actor : a # c => Busy(a)' = Busy(a)
    BY <1>1, <1>4, <2>1 DEF Busy, Actor
  <2>5. \A a \in Actor : Busy(a)' => Starter(a) = c
    BY <1>s, <2>2, <2>4
  <2>6. \A q \in Proc : Starter(q) = c => q = p
    BY <1>1, <1>s
  <2>7. FindsNobody(c)' BY <1>4, <2>1 DEF FindsNobody
  <2>8. QED BY <1>s, <2>1, <2>2, <2>3, <2>5, <2>6, <2>7 DEF LoneOK
<1>6. CASE Command(c) \/ CliDeadline(c)
  <2>1. Busy(c)
    <3>1. look[c].pc # "off" \/ cli[c].pc = "poll"
      BY <1>6 DEF Command, CliReuses, CliPollsAgain, CliStarted, CliTimesOut,
         CliReports, CliRaises, CliLaunches, CliDeadline
    <3>2. QED BY <1>1, <3>1 DEF AtWork, Busy
  <2>2. alone' \subseteq alone /\ UNCHANGED file
    BY <1>6 DEF Command, CliReuses, CliPollsAgain, CliStarted, CliTimesOut,
       CliReports, CliRaises, CliLaunches, CliDeadline, Moved
  <2>3. x \in alone /\ LoneOK(x) /\ x = c
    BY <1>1, <1>s, <2>1, <2>2 DEF LoneInv, LoneOK
  <2>4. IF proc[p].pc = "unborn" THEN FindsNobody(c) ELSE FindsChild(c, p)
    BY <2>3 DEF LoneOK
  <2>5. ASSUME \A d \in Cli \ {c} : cli'[d] = cli[d],
               \A q \in Proc \ {p} : proc'[q] = proc[q],
               \/ proc'[p] = proc[p]
               \/ proc'[p].pc # "wait" /\ proc'[p].end # "failed",
               IF proc'[p].pc = "unborn" THEN FindsNobody(c)'
                                         ELSE FindsChild(c, p)'
        PROVE  LoneOK(x)'
    <3>1. \A a \in Actor : a \notin {c, p} => Busy(a)' = Busy(a)
      BY <1>1, <2>5 DEF Busy, Actor
    <3>2. \A a \in Actor : Busy(a)' => Starter(a) = c
      BY <1>s, <2>3, <3>1 DEF LoneOK
    <3>3. \A q \in Proc : Starter(q) = c => q = p
      BY <1>1, <1>s
    <3>4. proc'[p].pc # "wait" /\ proc'[p].end # "failed"
      BY <1>1, <1>s, <2>3, <2>5 DEF LoneOK
    <3>5. QED BY <1>s, <2>3, <2>5, <3>2, <3>3, <3>4 DEF LoneOK
  <2>6. CASE CliReuses(c)
    <3>1. cli[c].pc = "first" /\ look[c].pc = "seen" /\ look[c].seen # NoFile
      BY <2>6 DEF CliReuses
    <3>2. proc[p].pc = "unborn" BY <3>1 DEF LockInv, ChildUnborn
    <3>3. QED BY <2>4, <3>1, <3>2 DEF FindsNobody
  <2>7. CASE CliLaunches(c)
    <3>1. /\ cli[c].pc = "first" /\ look[c].pc = "seen"
          /\ proc' = [proc EXCEPT ![p].pc = "acquire"] /\ Asks(c, "poll")
      BY <2>7 DEF CliLaunches, Launched
    <3>2. /\ proc[p].pc = "unborn" /\ proc[p].end = "none" /\ ~proc[p].stop
      BY <1>1, <3>1 DEF LockInv, ChildUnborn, AtWork
    <3>3. /\ proc'[p].pc = "acquire" /\ proc'[p].end = "none"
          /\ ~proc'[p].stop
          /\ \A q \in Proc \ {p} : proc'[q] = proc[q]
      BY <1>1, <1>2, <3>1, <3>2 DEF ProcState
    <3>4. file' = NoFile BY <2>2, <2>4, <3>1, <3>2 DEF FindsNobody
    <3>5. /\ \A d \in Cli \ {c} : cli'[d] = cli[d]
          /\ cli'[c].pc = "poll" /\ look'[c].pc = "exists"
      BY <1>4, <3>1
    <3>6. FindsChild(c, p)'
      BY <3>3, <3>4, <3>5 DEF FindsChild, ReadsChild, RecordOf
    <3>7. QED BY <2>5, <3>3, <3>5, <3>6
  <2>8. CASE CliPollsAgain(c)
    <3>1. /\ cli[c].pc = "poll" /\ UNCHANGED <<proc, cli>>
          /\ look' = [look EXCEPT ![c] = StartLook]
      BY <2>8 DEF CliPollsAgain
    <3>2. look'[c].pc = "exists" BY <1>1, <1>3, <3>1
    <3>3. proc[p].pc # "unborn" /\ FindsChild(c, p)
      BY <2>4, <3>1 DEF FindsNobody
    <3>4. FindsChild(c, p)'
      BY <2>2, <3>1, <3>2, <3>3 DEF FindsChild, ReadsChild, RecordOf
    <3>5. QED BY <2>5, <3>1, <3>3, <3>4
  <2>9. CASE CliStarted(c)
    <3>1. /\ cli[c].pc = "poll" /\ look[c].pc = "seen"
          /\ IsReady(look[c].seen) /\ Asks(c, "status") /\ UNCHANGED proc
      BY <2>9 DEF CliStarted
    <3>2. /\ \A d \in Cli \ {c} : cli'[d] = cli[d]
          /\ cli'[c].pc = "status" /\ look'[c].pc = "exists"
      BY <1>4, <3>1
    <3>3. proc[p].pc # "unborn" /\ ReadsChild(c, p)
      BY <2>4, <3>1 DEF FindsNobody, FindsChild
    <3>4. proc[p].pc = "serving"
      BY <3>1, <3>3 DEF ReadsChild, IsReady
    <3>5. FindsChild(c, p)'
      BY <2>2, <3>1, <3>2, <3>3, <3>4 DEF FindsChild, ReadsChild, RecordOf
    <3>6. QED BY <2>5, <3>1, <3>2, <3>3, <3>5
  <2>10. CASE CliTimesOut(c)
    <3>1. /\ cli[c].pc = "poll" /\ cli[c].late
          /\ cli' = [cli EXCEPT ![c].pc = "failed"]
          /\ proc' \in Terminated(p)
      BY <2>10 DEF CliTimesOut
    <3>2. /\ \A d \in Cli \ {c} : cli'[d] = cli[d]
          /\ cli'[c].pc = "failed" /\ cli'[c].late
      BY <1>3, <3>1
    <3>3. proc[p].pc # "unborn" /\ proc[p].pc # "wait"
          /\ proc[p].end # "failed"
      BY <1>1, <1>s, <2>3, <2>4, <3>1 DEF FindsNobody, LoneOK
    <3>4. /\ \A q \in Proc \ {p} : proc'[q] = proc[q]
          /\ proc'[p].pc \notin {"unborn", "wait"} /\ proc'[p].end # "failed"
      <4>1. \/ proc' = [proc EXCEPT ![p].stop = TRUE]
            \/ proc' = [proc EXCEPT ![p] = Over("over", Nobody)]
            \/ proc' = proc
        BY <3>1 DEF Terminated, Ends
      <4>2. /\ [proc[p] EXCEPT !.stop = TRUE].pc = proc[p].pc
            /\ [proc[p] EXCEPT !.stop = TRUE].end = proc[p].end
            /\ Over("over", Nobody).pc = "gone"
            /\ Over("over", Nobody).end = "over"
        BY <1>2 DEF ProcState, Over
      <4>3. CASE proc' = [proc EXCEPT ![p].stop = TRUE]
        BY <1>1, <3>3, <4>2, <4>3
      <4>4. CASE proc' = [proc EXCEPT ![p] = Over("over", Nobody)]
        BY <1>1, <4>2, <4>4
      <4>5. CASE proc' = proc BY <3>3, <4>5
      <4>6. QED BY <4>1, <4>3, <4>4, <4>5
    <3>5. FindsChild(c, p)' BY <3>2 DEF FindsChild
    <3>6. QED BY <2>5, <3>2, <3>4, <3>5
  <2>11. CASE CliReports(c)
    <3> DEFINE told == IF look[c].seen = NoFile THEN Nobody
                       ELSE look[c].seen.pid
               over == [pc |-> "done", late |-> FALSE, told |-> told]
    <3>1. /\ cli[c].pc = "status" /\ look[c].pc = "seen" /\ UNCHANGED proc
          /\ cli' = [cli EXCEPT ![c] = over]
          /\ look' = [look EXCEPT ![c] = NoLook]
      BY <2>11 DEF CliReports
    <3>2. over.pc = "done" /\ over.told = told OBVIOUS
    <3>3. cli'[c] = over /\ \A d \in Cli \ {c} : cli'[d] = cli[d]
      BY <3>1
    <3>4. look'[c].pc = "off" BY <1>1, <1>3, <3>1
    <3>5. CASE proc[p].pc = "unborn"
      <4>1. FindsNobody(c)' BY <3>2, <3>3, <3>4 DEF FindsNobody
      <4>2. QED BY <2>5, <3>1, <3>3, <3>5, <4>1
    <3>6. CASE proc[p].pc # "unborn"
      <4>1. told = p
        BY <2>4, <3>1, <3>6 DEF FindsChild, ReadsChild
      <4>2. FindsChild(c, p)' BY <3>2, <3>3, <4>1 DEF FindsChild
      <4>3. QED BY <2>5, <3>1, <3>3, <3>6, <4>2
    <3>7. QED BY <3>5, <3>6
  <2>12. CASE CliRaises(c)
    <3>1. look[c].pc = "raised" BY <2>12 DEF CliRaises
    <3>2. QED
      BY <1>1, <2>1, <2>4, <3>1 DEF FindsNobody, FindsChild, ReadsChild, Busy
  <2>13. CASE CliDeadline(c)
    <3>1. /\ cli[c].pc = "poll" /\ UNCHANGED <<proc, look>>
          /\ cli' = [cli EXCEPT ![c].late = TRUE]
      BY <2>13 DEF CliDeadline
    <3>2. /\ \A d \in Cli \ {c} : cli'[d] = cli[d]
          /\ cli'[c].pc = "poll"
      BY <1>3, <3>1
    <3>3. proc[p].pc # "unborn" /\ FindsChild(c, p)
      BY <2>4, <3>1 DEF FindsNobody
    <3>4. FindsChild(c, p)'
      BY <2>2, <3>1, <3>2, <3>3 DEF FindsChild, ReadsChild, RecordOf
    <3>5. QED BY <2>5, <3>1, <3>2, <3>3, <3>4
  <2>14. QED
    BY <1>6, <2>6, <2>7, <2>8, <2>9, <2>10, <2>11, <2>12, <2>13 DEF Command
<1>7. QED BY <1>5, <1>6

\* The invariant of the starts is inductive.
LEMMA StartStep == StartInv /\ [Next]_vars => StartInv'
<1> SUFFICES ASSUME StartInv, [Next]_vars PROVE StartInv' OBVIOUS
<1>1. TypeOK' /\ LockInv' BY TypeStep, LockStep DEF StartInv
<1>2. CASE \E p \in Proc : Launch(p) \/ Engine(p) \/ Deadline(p) \/ Die(p)
  BY <1>1, <1>2, AtWorkEngine, LoneEngine DEF StartInv
<1>3. CASE \E c \in Cli : Begin(c) \/ Command(c) \/ CliDeadline(c)
  BY <1>1, <1>3, AtWorkCommand, LoneCommand DEF StartInv
<1>4. CASE \E a \in Actor : ReadLiveOwner(a)
  BY <1>1, <1>4, AtWorkLook, LoneLook DEF StartInv
<1>5. CASE DesktopClears
  BY <1>1, <1>5 DEF DesktopClears, StartInv, AtWork, LoneInv, Busy, Owns
<1>6. CASE UNCHANGED vars
  BY <1>1, <1>6 DEF vars, StartInv, AtWork, LoneInv, LoneOK, Busy, Owns,
     Starter, FindsNobody, FindsChild, ReadsChild, RecordOf
<1>7. QED BY <1>2, <1>3, <1>4, <1>5, <1>6 DEF Next

\* Nobody is at work at first.
LEMMA StartInit == Init => StartInv
<1> SUFFICES ASSUME Init PROVE StartInv OBVIOUS
<1>1. TypeOK /\ LockInv BY TypeInit, LockInit
<1>2. AtWork BY DEF Init, AtWork, NoLook, Unborn
<1>3. LoneInv BY DEF Init, LoneInv
<1>4. QED BY <1>1, <1>2, <1>3 DEF StartInv

\* A start that nobody else takes part in is served, whatever owner.json an
\* engine that died left behind: its engine does not fail, and alphaloop start
\* names the engine it launched unless that was too slow (runtime.py,
\* read_live_owner; apps/cli/main.py).
THEOREM StartsAreServedAlways == Spec => []StartsAreServed
<1>1. Spec => []StartInv BY StartInit, StartStep, PTL DEF Spec
<1>2. StartInv => StartsAreServed
  <2> SUFFICES ASSUME StartInv PROVE LoneStartServes
    BY DEF StartInv, StartsAreServed
  <2>1. ASSUME NEW c \in Cli \cap alone
        PROVE  /\ cli[c].pc = "failed" => cli[c].late
               /\ cli[c].pc = "done" /\ proc[Child[c]].pc # "unborn"
                     => cli[c].told = Child[c]
    BY <2>1 DEF StartInv, LoneInv, LoneOK, FindsNobody, FindsChild
  <2>2. \A p \in Proc : Starter(p) \in alone => proc[p].end # "failed"
    BY DEF StartInv, LoneInv, LoneOK
  <2>3. QED BY <2>1, <2>2 DEF LoneStartServes
<1>3. QED BY <1>1, <1>2, PTL

-----------------------------------------------------------------------------
(* The desktop shell.  EngineIsTracked says nothing of a step; ShellInv    *)
(* does.  Its parts: who has an engine (EngineInv, HandInv, CliInv,        *)
(* GoneInv); a count of starts done, under way and left against the cap,   *)
(* and of recovery threads (BoundInv, SpareInv); and, as long as at most   *)
(* one engine died or the command line started one, how far things have    *)
(* gone (CalmInv).                                                         *)

Handles(t, p) == thread[t].pc \in {"hand", "adopt"} /\ thread[t].pid = p
Kills(t, p) == thread[t].pc = "kill" /\ thread[t].pid = p
Owned(p) == binding = [st |-> "owned", pid |-> p]

\* The engine that serves has the lock and has said so; the shell holds only
\* what has said so, and lets go only of what is dead.
EngineInv == \A p \in Pid :
    /\ lock = p <=> engine[p] = "serving"
    /\ engine[p] \in {"unborn", "starting"} => said[p] = NoEngine
    /\ engine[p] = "serving" => said[p] = p
    /\ said[p] \in Pid => engine[said[p]] # "unborn"
    /\ child[p] # "none" \/ waiter[p] # "off" => said[p] = p
    /\ child[p] = "empty" => engine[p] = "dead"
    /\ waiter[p] \in {"exit", "done"} => child[p] = "empty"
    /\ Owned(p) => child[p] # "none"

\* An engine is in one hand: of the thread that spawned it until that adopts
\* it, then bound, then of the thread that kills it.
HandInv == \A t \in Threads :
    /\ thread[t].pc \in {"hand", "adopt", "kill"} => thread[t].pid \in Pid
    /\ \A p \in Pid :
         /\ Handles(t, p) =>
              /\ engine[p] # "unborn" /\ ~Owned(p)
              /\ thread[t].pc = "hand" => child[p] = "none" /\ waiter[p] = "off"
              /\ thread[t].pc = "adopt" => child[p] # "none"
              /\ \A s \in Threads : ~Kills(s, p) /\ (Handles(s, p) => s = t)
         /\ Kills(t, p) => child[p] # "none" /\ ~Owned(p)

\* The command line is named only after it started.
CliInv ==
    /\ lock = CliEngine => clis >= 1
    /\ \A p \in Pid : said[p] = CliEngine => clis >= 1
    /\ \A t \in Threads : thread[t].pc \in {"attach", "restore"} => clis >= 1
    /\ binding.st = "attached" => clis >= 1

\* Of a desktop that is gone nothing is left but engines.
GoneInv == app = "gone" =>
    /\ \A t \in Threads : thread[t] = Idle
    /\ \A p \in Pid : waiter[p] = "off" /\ child[p] = "none"
    /\ binding = Unbound

\* Starts under way, recoveries under way, and failures that will still be
\* answered with a start.
Pending == {t \in Threads : thread[t].pc \in {"quit", "kill", "restore", "spawn"}
                             /\ thread[t].mode # "exit"}
Recovering == {r \in Recovery : thread[r].pc # "idle"}
Left == IF ui.count < MaxRestarts THEN MaxRestarts - 1 - ui.count ELSE 0
Cap == MaxRestarts * (1 + clicks)

\* Starts done, under way and left are within the cap.
BoundInv ==
    /\ \A t \in Threads : thread[t].pc = "spawn" => thread[t].mode # "exit"
    /\ \E n \in 0..MaxPid :
         /\ Spawned = 1..n
         /\ n <= Cap
         /\ app # "gone" => n + Cardinality(Pending) + Left <= Cap

\* ... and there is a thread for each of them.
SpareInv ==
    app # "gone" =>
      Cardinality(Recovering) + Left + (MaxRestarts - 1) * (MaxClicks - clicks)
        <= Cardinality(Recovery)

\* At most one disturbance, and the user has not restarted: NoOrphan's case.
Calm == app = "up" /\ clicks = 0 /\ deaths + clis <= 1

\* Before the first failure is counted, setup is all there is.
YoungInv == ui.count = 0 =>
    /\ \A r \in Recovery : thread[r].pc = "idle"
    /\ thread[Main].pc \notin {"quit", "kill", "restore"}
    /\ thread[Main].pc = "spawn" => Spawned = {}
    /\ Spawned \subseteq {1}
    /\ thread[Main].pc \in {"spawn", "hand", "adopt", "attach"} => binding = Unbound
    /\ thread[Main].pc = "failed" => \A p \in Pid :
         /\ engine[p] # "starting" /\ child[p] # "held"
         /\ said[p] = p => child[p] = "empty"
    /\ \A p \in Pid : waiter[p] # "done"

\* Nothing fails before an engine has died.
FaultInv == deaths = 0 =>
    /\ ui.count = 0 /\ thread[Main].pc # "failed"
    /\ \A p \in Pid : waiter[p] # "exit" /\ (engine[p] = "dead" => said[p] = CliEngine)

\* Once a failure is counted, no dead engine is held that could be adopted.
HeldInv == \A p \in Pid :
    engine[p] = "dead" /\ said[p] = p => ui.count = 0 \/ child[p] = "empty"

\* While the shell is bound to an engine that died, nothing else is spawned.
StaleInv == \A p \in Pid : Owned(p) /\ engine[p] # "serving" =>
    Spawned = {p} /\ \A t \in Threads : thread[t].pc \in {"idle", "mark", "quit"}

\* An engine that starts or serves is in a hand, or bound.
KeptInv == \A p \in Pid :
    /\ engine[p] = "starting" =>
         \E t \in Threads : thread[t].pc = "hand" /\ thread[t].pid = p
    /\ engine[p] = "serving" =>
         Owned(p) \/ \E t \in Threads : Handles(t, p) \/ Kills(t, p)

CalmInv == Calm => YoungInv /\ FaultInv /\ HeldInv /\ StaleInv /\ KeptInv


ShellInv ==
    /\ ShellTypeOK /\ EngineInv /\ HandInv /\ CliInv /\ GoneInv
    /\ BoundInv /\ SpareInv /\ CalmInv

\* What the type invariant says of one thread.
LEMMA ThreadFields ==
    ASSUME ShellTypeOK, NEW t \in Threads
    PROVE  /\ thread[t] \in ThreadState
           /\ thread[t].pc \in {"idle", "quit", "kill", "restore", "spawn", "hand",
                                "adopt", "attach", "mark", "failed"}
           /\ thread[t].mode \in {"setup", "user", "exit", "recovery"}
           /\ thread[t].pid \in Pid \cup {NoEngine, CliEngine}
BY DEF ShellTypeOK, ThreadState

\* Processes are spawned in order.
LEMMA FreshIsNext ==
    ASSUME ShellTypeOK, NEW n \in 0..MaxPid, Spawned = 1..n, Spawned # Pid
    PROVE  n + 1 \in Pid /\ Fresh = n + 1 /\ engine[Fresh] = "unborn"
<1>1. MaxPid \in Nat
  BY CountAssumption
<1>2. n < MaxPid
  BY <1>1 DEF Pid
<1>3. n + 1 \in Pid /\ n + 1 \notin Spawned
  BY <1>1, <1>2 DEF Pid
<1>4. engine[n + 1] = "unborn" /\ \A q \in Pid : q < n + 1 => engine[q] # "unborn"
  BY <1>1, <1>3 DEF Pid, Spawned
<1>5. \A p \in Pid : engine[p] = "unborn" => ~(p < n + 1)
  BY <1>4
<1>6. /\ Fresh \in Pid /\ engine[Fresh] = "unborn"
      /\ \A q \in Pid : q < Fresh => engine[q] # "unborn"
  BY <1>3, <1>4 DEF Fresh
<1>7. ~(Fresh < n + 1) /\ ~(n + 1 < Fresh)
  BY <1>3, <1>4, <1>5, <1>6
<1>8. QED BY <1>1, <1>3, <1>6, <1>7 DEF Pid

\* While the desktop is there, a failure below the cap finds a spare thread.
LEMMA SpareIsThere ==
    ASSUME ShellTypeOK, SpareInv, app # "gone", ui.count + 1 < MaxRestarts
    PROVE  Spare \in Recovery /\ thread[Spare].pc = "idle"
<1>1. IsFiniteSet(Recovery) /\ Cardinality(Recovery) \in Nat
  BY RecoveryAssumption, FS_CardinalityType
<1>2. IsFiniteSet(Recovering) /\ Cardinality(Recovering) \in Nat
  BY <1>1, FS_Subset, FS_CardinalityType DEF Recovering
<1>3. ui.count \in Nat /\ MaxRestarts \in Nat \ {0} /\ MaxClicks \in Nat /\ clicks \in 0..MaxClicks
  BY CountAssumption DEF ShellTypeOK
<1>4. Left >= 1 /\ Left \in Nat
  BY <1>3 DEF Left
<1>5. MaxRestarts - 1 \in Nat /\ MaxClicks - clicks \in Nat
  BY <1>3
<1>6. (MaxRestarts - 1) * (MaxClicks - clicks) \in Nat
  BY <1>5
<1>7. Cardinality(Recovering) < Cardinality(Recovery)
  BY <1>1, <1>2, <1>4, <1>6 DEF SpareInv
<1>8. Recovering # Recovery
  BY <1>1, <1>7
<1>9. \E r \in Recovery : thread[r].pc = "idle"
  BY <1>8 DEF Recovering
<1>10. QED BY <1>9 DEF Spare

\* A failure is counted, and ends the recovery at the cap.
LEMMA CrashIsCounted ==
    ASSUME ShellTypeOK, RecordCrash
    PROVE  /\ ui' \in [phase : Phase, count : Nat]
           /\ ui'.count = ui.count + 1
           /\ ui'.phase = "stopped" <=> ui.count + 1 >= MaxRestarts
BY CountAssumption DEF ShellTypeOK, RecordCrash, CapExceeded, Phase

-----------------------------------------------------------------------------
(* Types                                                                   *)

\* What the shell's types need of one step.
LEMMA ShellTypeKeeps ==
    ASSUME ShellTypeOK, BoundInv, HandInv, [ShellNext]_shellVars
    PROVE  ShellTypeOK'
<1> USE DEF ShellTypeOK, procs, bounds
<1>1. CASE UNCHANGED shellVars
  BY <1>1 DEF shellVars
<1>2. ASSUME NEW t \in Threads, Works(t)
      PROVE  ShellTypeOK'
  <2>1. thread[t] \in ThreadState
    BY ThreadFields
  <2>2. \A s : \A r \in ThreadState : [thread EXCEPT ![s] = r] \in [Threads -> ThreadState]
    OBVIOUS
  <2>3. /\ Idle \in ThreadState /\ Sleeping \in ThreadState
        /\ \A mode \in {"setup", "user", "exit", "recovery"} :
             StartsAt("spawn", mode) \in ThreadState
    BY DEF Idle, Sleeping, StartsAt, ThreadState
  <2>4. AfterQuit(t) => thread' \in [Threads -> ThreadState]
    BY <2>2, <2>3, ThreadFields DEF AfterQuit
  <2>5. ASSUME NEW pc \in {"idle", "quit", "kill", "restore", "spawn", "hand",
                           "adopt", "attach", "mark", "failed"},
               NEW p \in Pid \cup {NoEngine, CliEngine}
        PROVE  [thread[t] EXCEPT !.pc = pc, !.pid = p] \in ThreadState
               /\ [thread[t] EXCEPT !.pc = pc] \in ThreadState
    BY <2>1 DEF ThreadState
  <2>6. CASE Spawn(t)
    <3>1. Fresh \in Pid
      BY <2>6, FreshIsNext DEF BoundInv, Spawn
    <3>2. thread' = [thread EXCEPT ![t] = [thread[t] EXCEPT !.pc = "hand", !.pid = Fresh]]
      BY <2>6 DEF Spawn
    <3>3. [thread[t] EXCEPT !.pc = "hand", !.pid = Fresh] \in ThreadState
      BY <2>5, <3>1
    <3>4. thread' \in [Threads -> ThreadState]
      BY <2>2, <3>2, <3>3
    <3>5. QED BY <2>6, <3>4 DEF Spawn
  <2>7. CASE NoHandshake(t) \/ Handshake(t) \/ AdoptOwned(t) \/ Attach(t)
    <3>1. PICK pc \in {"failed", "adopt", "attach", "mark"} : To(t, pc)
      BY <2>7 DEF NoHandshake, Handshake, AdoptOwned, Attach, AfterHandshake
    <3>2. thread' \in [Threads -> ThreadState]
      <4>1. [thread[t] EXCEPT !.pc = pc] \in ThreadState
        BY <2>5
      <4>2. QED BY <2>2, <3>1, <4>1 DEF To
    <3>3. CASE NoHandshake(t)
      BY <3>2, <3>3 DEF NoHandshake
    <3>4. CASE Handshake(t)
      <4>1. child' \in [Pid -> {"none", "held", "empty"}]
        BY <3>4 DEF Handshake
      <4>2. waiter' \in [Pid -> {"off", "watching", "exit", "done"}]
        BY <3>4 DEF Handshake
      <4>3. QED BY <3>2, <3>4, <4>1, <4>2 DEF Handshake
    <3>5. CASE AdoptOwned(t)
      <4>1. thread[t].pid \in Pid
        BY <3>5 DEF HandInv, AdoptOwned
      <4>2. binding' \in Binding
        BY <3>5, <4>1 DEF AdoptOwned, Binding
      <4>3. QED BY <3>2, <3>5, <4>2 DEF AdoptOwned
    <3>6. CASE Attach(t)
      BY <3>2, <3>6 DEF Attach, Binding
    <3>7. QED BY <2>7, <3>3, <3>4, <3>5, <3>6
  <2>8. CASE MarkRunning(t)
    BY <2>2, <2>3, <2>8 DEF MarkRunning, Phase
  <2>9. CASE Fails(t)
    BY <2>2, <2>3, <2>9, CrashIsCounted DEF Fails
  <2>10. CASE UserFails(t)
    BY <2>2, <2>3, <2>10 DEF UserFails
  <2>11. CASE Quit(t)
    <3>1. binding' \in Binding
      BY <2>11 DEF Quit, Binding, Unbound
    <3>2. thread' \in [Threads -> ThreadState]
      <4>1. CASE binding = Unbound
        BY <2>4, <2>11, <4>1 DEF Quit
      <4>2. CASE binding # Unbound
        <5>1. binding.pid \in Pid \cup {NoEngine, CliEngine}
          BY DEF Binding
        <5>2. PICK pc \in {"kill", "restore"} :
                thread' = [thread EXCEPT ![t] = [thread[t] EXCEPT !.pid = binding.pid, !.pc = pc]]
          BY <2>11, <4>2 DEF Quit
        <5>3. [thread[t] EXCEPT !.pid = binding.pid, !.pc = pc] \in ThreadState
          BY <2>1, <5>1 DEF ThreadState
        <5>4. QED BY <2>2, <5>2, <5>3
      <4>3. QED BY <4>1, <4>2
    <3>3. QED BY <2>11, <3>1, <3>2 DEF Quit
  <2>12. CASE Kill(t)
    BY <2>4, <2>12 DEF Kill, Freed
  <2>13. CASE Restore(t)
    BY <2>4, <2>13 DEF Restore, Binding
  <2>14. QED BY <1>2, <2>6, <2>7, <2>8, <2>9, <2>10, <2>11, <2>12, <2>13 DEF Works
<1>3. ASSUME NEW p \in Pid, Watches(p) \/ Answers(p) \/ EngineDies(p) \/ EngineEnds(p)
      PROVE  ShellTypeOK'
  <2>1. CASE Waits(p)
    BY <2>1 DEF Waits
  <2>2. CASE OnExit(p)
    <3>1. Sleeping \in ThreadState
      BY DEF Sleeping, StartsAt, ThreadState
    <3>2. QED BY <2>2, <3>1, CrashIsCounted DEF OnExit
  <2>3. CASE EngineReady(p)
    BY <2>3 DEF EngineReady
  <2>4. CASE EngineRefused(p)
    BY <2>4 DEF EngineRefused
  <2>5. CASE EngineDies(p)
    BY <2>5, CountAssumption DEF EngineDies, Freed
  <2>6. CASE EngineEnds(p)
    BY <2>6 DEF EngineEnds, Freed
  <2>7. QED BY <1>3, <2>1, <2>2, <2>3, <2>4, <2>5, <2>6 DEF Watches, Answers
<1>4. CASE CliStarts \/ CliStops
  BY <1>4, CountAssumption DEF CliStarts, CliStops
<1>5. CASE Poll
  BY <1>5 DEF Poll
<1>6. CASE UserRestart
  <2>1. StartsAt("quit", "user") \in ThreadState
    BY DEF StartsAt, ThreadState
  <2>2. clicks' \in 0..MaxClicks
    BY <1>6, CountAssumption DEF UserRestart
  <2>3. ui' \in [phase : Phase, count : Nat]
    BY <1>6 DEF UserRestart, Phase
  <2>4. thread' \in [Threads -> ThreadState]
    BY <1>6, <2>1 DEF UserRestart
  <2>5. QED BY <1>6, <2>2, <2>3, <2>4 DEF UserRestart
<1>7. CASE ExitRequested
  <2>1. StartsAt("quit", "exit") \in ThreadState
    BY DEF StartsAt, ThreadState
  <2>2. QED BY <1>7, <2>1 DEF ExitRequested
<1>8. CASE Gone
  <2>1. Idle \in ThreadState
    BY DEF Idle, ThreadState
  <2>2. QED BY <1>8, <2>1 DEF Gone, Binding, Unbound, Phase
<1>9. QED BY <1>1, <1>2, <1>3, <1>4, <1>5, <1>6, <1>7, <1>8 DEF ShellNext

-----------------------------------------------------------------------------
(* What a step does to the threads                                         *)

Turn(t, pc, mode, pid) ==
    /\ thread'[t].pc = pc /\ thread'[t].mode = mode /\ thread'[t].pid = pid
    /\ \A s \in Threads \ {t} : thread'[s] = thread[s]

\* One thread moves on.
LEMMA ToTurns ==
    ASSUME ShellTypeOK, NEW t \in Threads, NEW pc, To(t, pc)
    PROVE  Turn(t, pc, thread[t].mode, thread[t].pid)
BY ThreadFields DEF To, Turn, ShellTypeOK, ThreadState

\* What follows a quit is a start in the same mode, or nothing at the exit.
LEMMA AfterQuitTurns ==
    ASSUME ShellTypeOK, NEW t \in Threads, AfterQuit(t)
    PROVE  /\ thread[t].mode = "exit" => Turn(t, "idle", "recovery", NoEngine)
           /\ thread[t].mode # "exit" => Turn(t, "spawn", thread[t].mode, NoEngine)
BY DEF AfterQuit, Turn, ShellTypeOK, Idle, StartsAt

\* A spawn hands the thread the process it made.
LEMMA SpawnTurns ==
    ASSUME ShellTypeOK, NEW t \in Threads, Spawn(t)
    PROVE  Turn(t, "hand", thread[t].mode, Fresh)
<1>1. thread[t] \in ThreadState
  BY ThreadFields
<1>2. QED BY <1>1 DEF Spawn, Turn, ShellTypeOK, ThreadState

\* A quit takes what is bound, to kill it or to bind it again.
LEMMA QuitTurns ==
    ASSUME ShellTypeOK, NEW t \in Threads, Quit(t)
    PROVE  /\ binding = Unbound => AfterQuit(t)
           /\ binding.st = "owned" => Turn(t, "kill", thread[t].mode, binding.pid)
           /\ binding.st = "attached" =>
                Turn(t, "restore", thread[t].mode, binding.pid)
           /\ binding = Unbound \/ binding.st \in {"owned", "attached"}
<1>1. thread[t] \in ThreadState
  BY ThreadFields
<1>2. binding \in Binding
  BY DEF ShellTypeOK
<1>3. binding = Unbound <=> binding.st = "stopped"
  BY <1>2 DEF Binding, Unbound
<1>4. CASE binding = Unbound
  BY <1>4, <1>3 DEF Quit
<1>5. CASE binding # Unbound
  <2>1. binding.st \in {"owned", "attached"}
    BY <1>2, <1>3, <1>5 DEF Binding
  <2>2. QED BY <1>1, <1>3, <1>5, <2>1 DEF Quit, Turn, ShellTypeOK, ThreadState
<1>6. QED BY <1>4, <1>5

\* A failure below the cap leaves a thread that sleeps until the next start.
LEMMA FailsTurns ==
    ASSUME ShellTypeOK, SpareInv, app # "gone", NEW t \in Threads, Fails(t)
    PROVE  /\ ui' \in [phase : Phase, count : Nat] /\ ui'.count = ui.count + 1
           /\ ui.count + 1 >= MaxRestarts => Turn(t, "idle", "recovery", NoEngine)
           /\ ui.count + 1 < MaxRestarts =>
                IF t = Main
                THEN /\ Spare \in Recovery /\ thread[Spare].pc = "idle"
                     /\ thread'[Main] = Idle /\ thread'[Spare] = Sleeping
                     /\ \A s \in Threads \ {Main, Spare} : thread'[s] = thread[s]
                ELSE Turn(t, "quit", "recovery", NoEngine)
<1> USE DEF ShellTypeOK
<1>1. /\ ui' \in [phase : Phase, count : Nat] /\ ui'.count = ui.count + 1
      /\ ui'.phase = "stopped" <=> ui.count + 1 >= MaxRestarts
  BY CrashIsCounted DEF Fails
<1>2. ui.count \in Nat /\ MaxRestarts \in Nat
  BY CountAssumption
<1>3. CASE ui.count + 1 >= MaxRestarts
  BY <1>1, <1>2, <1>3 DEF Fails, Turn, Idle
<1>4. CASE ui.count + 1 < MaxRestarts
  <2>1. ui'.phase # "stopped"
    BY <1>1, <1>2, <1>4
  <2>2. Spare \in Recovery /\ thread[Spare].pc = "idle" /\ Spare # Main
    BY <1>4, SpareIsThere, NameAssumption
  <2>3. CASE t = Main
    <3>1. thread' = [thread EXCEPT ![Main] = Idle, ![Spare] = Sleeping]
      BY <2>1, <2>3 DEF Fails
    <3>2. QED BY <1>1, <1>2, <1>4, <2>2, <2>3, <3>1 DEF Threads
  <2>4. CASE t # Main
    <3>1. thread' = [thread EXCEPT ![t] = Idle, ![t] = Sleeping]
      BY <2>1, <2>4 DEF Fails
    <3>2. QED BY <1>1, <1>2, <1>4, <2>4, <3>1 DEF Turn, Sleeping, StartsAt
  <2>5. QED BY <2>3, <2>4
<1>5. QED BY <1>2, <1>3, <1>4

\* A waiter whose exit is below the cap leaves one too.
LEMMA OnExitTurns ==
    ASSUME ShellTypeOK, SpareInv, app # "gone", NEW p \in Pid, OnExit(p)
    PROVE  /\ ui' \in [phase : Phase, count : Nat] /\ ui'.count = ui.count + 1
           /\ ui.count + 1 >= MaxRestarts => thread' = thread
           /\ ui.count + 1 < MaxRestarts =>
                /\ Spare \in Recovery /\ thread[Spare].pc = "idle"
                /\ Turn(Spare, "quit", "recovery", NoEngine)
<1> USE DEF ShellTypeOK
<1>1. /\ ui' \in [phase : Phase, count : Nat] /\ ui'.count = ui.count + 1
      /\ ui'.phase = "stopped" <=> ui.count + 1 >= MaxRestarts
  BY CrashIsCounted DEF OnExit
<1>2. ui.count \in Nat /\ MaxRestarts \in Nat
  BY CountAssumption
<1>3. CASE ui.count + 1 >= MaxRestarts
  BY <1>1, <1>2, <1>3 DEF OnExit
<1>4. CASE ui.count + 1 < MaxRestarts
  <2>1. ui'.phase # "stopped"
    BY <1>1, <1>2, <1>4
  <2>2. Spare \in Recovery /\ thread[Spare].pc = "idle" /\ Spare \in Threads
    BY <1>4, SpareIsThere DEF Threads
  <2>3. thread' = [thread EXCEPT ![Spare] = Sleeping]
    BY <2>1 DEF OnExit
  <2>4. QED BY <1>1, <1>2, <1>4, <2>2, <2>3 DEF Turn, Sleeping, StartsAt
<1>5. QED BY <1>2, <1>3, <1>4

-----------------------------------------------------------------------------
(* Engines, and the hands they are in                                      *)

\* The engine that serves has the lock and has said so, and every process
\* the shell holds has said so, through a step of any thread.
LEMMA EngineInvKeeps ==
    ASSUME ShellTypeOK, EngineInv, HandInv, BoundInv, [ShellNext]_shellVars
    PROVE  EngineInv'
<1> USE NameAssumption DEF ShellTypeOK, procs, bounds
<1>1. CASE UNCHANGED shellVars
  BY <1>1 DEF shellVars, EngineInv, Owned
<1>2. ASSUME NEW t \in Threads, Works(t)
      PROVE  EngineInv'
  <2>1. CASE Spawn(t)
    <3>1. Fresh \in Pid /\ engine[Fresh] = "unborn"
      BY <2>1, FreshIsNext DEF BoundInv, Spawn
    <3>2. /\ engine'[Fresh] = "starting"
          /\ \A p \in Pid \ {Fresh} : engine'[p] = engine[p]
          /\ UNCHANGED <<said, lock, child, waiter, binding>>
      BY <2>1, <3>1 DEF Spawn
    <3>3. QED BY <3>1, <3>2 DEF EngineInv, Owned
  <2>2. CASE NoHandshake(t) \/ MarkRunning(t) \/ Fails(t) \/ UserFails(t)
    BY <2>2 DEF NoHandshake, MarkRunning, Fails, UserFails, EngineInv, Owned
  <2>3. CASE Handshake(t)
    <3>1. thread[t].pid \in Pid
      BY <2>3 DEF Handshake, HandInv
    <3>2. UNCHANGED <<engine, said, lock, binding>>
      BY <2>3 DEF Handshake
    <3>3. CASE said[thread[t].pid] = thread[t].pid
      <4>1. engine[thread[t].pid] # "unborn"
        BY <3>1, <3>3 DEF EngineInv
      <4>2. /\ child'[thread[t].pid] = "held" /\ waiter'[thread[t].pid] = "watching"
            /\ \A p \in Pid \ {thread[t].pid} : child'[p] = child[p] /\ waiter'[p] = waiter[p]
        BY <2>3, <3>1, <3>3 DEF Handshake
      <4>3. QED BY <3>1, <3>2, <3>3, <4>1, <4>2 DEF EngineInv, Owned
    <3>4. CASE said[thread[t].pid] # thread[t].pid
      BY <2>3, <3>2, <3>4 DEF Handshake, EngineInv, Owned
    <3>5. QED BY <3>3, <3>4
  <2>4. CASE AdoptOwned(t)
    <3>1. UNCHANGED <<engine, said, lock, child, waiter>>
      BY <2>4 DEF AdoptOwned
    <3>2. \A p \in Pid : Owned(p)' => Owned(p) \/ child[p] = "held"
      BY <2>4 DEF AdoptOwned, Adopts, Owned
    <3>3. QED BY <3>1, <3>2 DEF EngineInv
  <2>5. CASE Attach(t) \/ Quit(t) \/ Restore(t)
    <3>1. UNCHANGED <<engine, said, lock, child, waiter>>
      BY <2>5 DEF Attach, Quit, Restore
    <3>2. \A p \in Pid : Owned(p)' => Owned(p)
      BY <2>5 DEF Attach, Quit, Restore, Owned, Unbound
    <3>3. QED BY <3>1, <3>2 DEF EngineInv
  <2>6. CASE Kill(t)
    <3>1. thread[t].pid \in Pid /\ child[thread[t].pid] # "none"
      BY <2>6 DEF Kill, HandInv, Kills
    <3>2. /\ child'[thread[t].pid] = "empty" /\ engine'[thread[t].pid] = "dead"
          /\ \A p \in Pid \ {thread[t].pid} : child'[p] = child[p] /\ engine'[p] = engine[p]
          /\ UNCHANGED <<said, waiter, binding>>
          /\ lock' = Freed(thread[t].pid)
      <4>1. CASE child[thread[t].pid] = "held"
        BY <2>6, <3>1, <4>1 DEF Kill
      <4>2. CASE child[thread[t].pid] # "held"
        <5>1. engine[thread[t].pid] = "dead" /\ lock # thread[t].pid
          BY <3>1, <4>2 DEF EngineInv
        <5>2. QED BY <2>6, <3>1, <4>2, <5>1 DEF Kill, Freed
      <4>3. QED BY <4>1, <4>2
    <3>3. QED BY <3>1, <3>2 DEF EngineInv, Owned, Freed
  <2>7. QED BY <1>2, <2>1, <2>2, <2>3, <2>4, <2>5, <2>6 DEF Works
<1>3. ASSUME NEW p \in Pid, Watches(p) \/ Answers(p) \/ EngineDies(p) \/ EngineEnds(p)
      PROVE  EngineInv'
  <2>1. CASE Waits(p)
    BY <2>1 DEF Waits, EngineInv, Owned
  <2>2. CASE OnExit(p)
    BY <2>2 DEF OnExit, EngineInv, Owned
  <2>3. CASE EngineReady(p)
    BY <2>3 DEF EngineReady, EngineInv, Owned
  <2>4. CASE EngineRefused(p)
    BY <2>4 DEF EngineRefused, EngineInv, Owned
  <2>5. CASE EngineDies(p) \/ EngineEnds(p)
    BY <2>5 DEF EngineDies, EngineEnds, Freed, EngineInv, Owned
  <2>6. QED BY <1>3, <2>1, <2>2, <2>3, <2>4, <2>5 DEF Watches, Answers
<1>4. CASE CliStarts \/ CliStops
  BY <1>4 DEF CliStarts, CliStops, EngineInv, Owned
<1>5. CASE Poll \/ UserRestart \/ ExitRequested
  BY <1>5 DEF Poll, UserRestart, ExitRequested, EngineInv, Owned
<1>6. CASE Gone
  BY <1>6 DEF Gone, EngineInv, Owned, Unbound
<1>7. QED BY <1>1, <1>2, <1>3, <1>4, <1>5, <1>6 DEF ShellNext

\* A thread works on no engine after this step, and the others on the same as before.
Lets(t) == /\ thread'[t].pc \notin {"hand", "adopt", "kill"}
           /\ \A s \in Threads \ {t} : thread'[s] = thread[s]

\* An engine that is spawned, adopted or killed is in the hand of one thread,
\* whatever the others do meanwhile.
LEMMA HandInvKeeps ==
    ASSUME ShellTypeOK, EngineInv, HandInv, GoneInv, BoundInv, SpareInv,
           [ShellNext]_shellVars
    PROVE  HandInv'
<1> USE NameAssumption DEF ShellTypeOK, procs, bounds
<1>1. CASE UNCHANGED shellVars
  BY <1>1 DEF shellVars, HandInv, Handles, Kills, Owned
<1>2. ASSUME NEW t \in Threads, Works(t)
      PROVE  HandInv'
  <2>0. app # "gone"
    BY <1>2 DEF GoneInv, Idle, Works, Spawn, NoHandshake, Handshake, AdoptOwned, Attach,
                MarkRunning, Fails, UserFails, Quit, Kill, Restore
  <2>1. CASE Spawn(t)
    <3>1. Fresh \in Pid /\ engine[Fresh] = "unborn"
      BY <2>1, FreshIsNext DEF BoundInv, Spawn
    <3>2. /\ engine'[Fresh] = "starting"
          /\ \A p \in Pid \ {Fresh} : engine'[p] = engine[p]
          /\ UNCHANGED <<child, waiter, binding>>
      BY <2>1, <3>1 DEF Spawn
    <3>3. /\ child[Fresh] = "none" /\ waiter[Fresh] = "off" /\ ~Owned(Fresh)
          /\ \A s \in Threads : ~Handles(s, Fresh) /\ ~Kills(s, Fresh)
      BY <3>1 DEF EngineInv, HandInv
    <3>4. Turn(t, "hand", thread[t].mode, Fresh)
      BY <2>1, SpawnTurns
    <3>5. \A s \in Threads \ {t} : thread'[s] = thread[s]
      BY <3>4 DEF Turn
    <3>6. /\ thread'[t].pc = "hand" /\ thread'[t].pid = Fresh
      BY <3>4 DEF Turn
    <3>7. QED BY <3>1, <3>2, <3>3, <3>5, <3>6 DEF HandInv, Handles, Kills, Owned
  <2>2. ASSUME UNCHANGED <<engine, child, waiter>>, Lets(t),
               \A p \in Pid : Owned(p)' => Owned(p)
        PROVE  HandInv'
    BY <2>2 DEF Lets, HandInv, Handles, Kills
  <2>3. CASE NoHandshake(t) \/ MarkRunning(t) \/ UserFails(t)
    <3>1. CASE NoHandshake(t)
      BY <2>2, <3>1, ToTurns DEF NoHandshake, Lets, Turn, Owned
    <3>2. CASE MarkRunning(t) \/ UserFails(t)
      BY <2>2, <3>2 DEF MarkRunning, UserFails, Lets, Idle, Owned
    <3>3. QED BY <2>3, <3>1, <3>2
  <2>4. CASE Fails(t)
    <3>1. \A s \in Threads : thread'[s] = thread[s]
                               \/ thread'[s].pc \notin {"hand", "adopt", "kill"}
      BY <2>4 DEF Fails, Idle, Sleeping, StartsAt
    <3>2. UNCHANGED <<engine, child, waiter, binding>>
      BY <2>4 DEF Fails
    <3>3. QED BY <3>1, <3>2 DEF HandInv, Handles, Kills, Owned
  <2>5. CASE Handshake(t)
    <3>1. thread[t].pid \in Pid /\ Handles(t, thread[t].pid)
      BY <2>5 DEF Handshake, HandInv, Handles
    <3>2. UNCHANGED <<engine, said, binding>> /\ To(t, AfterHandshake(thread[t].pid))
      BY <2>5 DEF Handshake
    <3>3. Turn(t, AfterHandshake(thread[t].pid), thread[t].mode, thread[t].pid)
      BY <3>2, ToTurns
    <3>4. CASE said[thread[t].pid] = thread[t].pid
      <4>1. /\ child'[thread[t].pid] = "held"
            /\ \A p \in Pid \ {thread[t].pid} : child'[p] = child[p] /\ waiter'[p] = waiter[p]
        BY <2>5, <3>1, <3>4 DEF Handshake
      <4>2. thread'[t].pc = "adopt" /\ thread'[t].pid = thread[t].pid
        BY <3>3, <3>4 DEF AfterHandshake, Turn
      <4>3. \A s \in Threads \ {t} : thread'[s] = thread[s]
        BY <3>3 DEF Turn
      <4>4. QED BY <3>1, <3>2, <4>1, <4>2, <4>3 DEF HandInv, Handles, Kills, Owned
    <3>5. CASE said[thread[t].pid] # thread[t].pid
      BY <2>2, <2>5, <3>2, <3>3, <3>5 DEF Handshake, AfterHandshake, Turn, Lets, Owned
    <3>6. QED BY <3>4, <3>5
  <2>6. CASE AdoptOwned(t)
    <3>1. UNCHANGED <<engine, child, waiter>>
      BY <2>6 DEF AdoptOwned
    <3>2. Lets(t)
      BY <2>6, ToTurns DEF AdoptOwned, Lets, Turn
    <3>3. /\ thread[t].pid \in Pid /\ Handles(t, thread[t].pid)
          /\ \A p \in Pid : Owned(p)' => Owned(p) \/ p = thread[t].pid
      BY <2>6 DEF AdoptOwned, HandInv, Handles, Owned
    <3>4. QED BY <3>1, <3>2, <3>3 DEF Lets, HandInv, Handles, Kills
  <2>7. CASE Attach(t)
    <3>1. Lets(t)
      BY <2>7, ToTurns DEF Attach, Lets, Turn
    <3>2. QED BY <2>2, <2>7, <3>1 DEF Attach, Owned
  <2>8. CASE Quit(t)
    <3>1. UNCHANGED <<engine, child, waiter>> /\ \A p \in Pid : ~Owned(p)'
      BY <2>8 DEF Quit, Owned, Unbound
    <3>2. CASE binding.st = "owned"
      <4>1. binding.pid \in Pid /\ Owned(binding.pid)
        BY <3>2 DEF Owned, Binding
      <4>2. thread'[t].pc = "kill" /\ thread'[t].pid = binding.pid
        BY <2>8, <3>2, QuitTurns DEF Turn
      <4>3. \A s \in Threads \ {t} : thread'[s] = thread[s]
        BY <2>8, <3>2, QuitTurns DEF Turn
      <4>4. child[binding.pid] # "none" /\ \A s \in Threads : ~Handles(s, binding.pid)
        BY <4>1 DEF EngineInv, HandInv
      <4>5. QED BY <3>1, <4>1, <4>2, <4>3, <4>4 DEF HandInv, Handles, Kills
    <3>3. CASE binding.st # "owned"
      <4>1. Lets(t)
        <5>1. CASE binding = Unbound
          BY <2>8, <5>1, QuitTurns, AfterQuitTurns DEF Lets, Turn
        <5>2. CASE binding # Unbound
          BY <2>8, <3>3, <5>2, QuitTurns DEF Lets, Turn
        <5>3. QED BY <5>1, <5>2
      <4>2. QED BY <2>2, <3>1, <4>1
    <3>4. QED BY <3>2, <3>3
  <2>9. CASE Restore(t)
    <3>1. Lets(t)
      BY <2>9, AfterQuitTurns DEF Restore, Lets, Turn
    <3>2. QED BY <2>2, <2>9, <3>1 DEF Restore, Owned
  <2>10. CASE Kill(t)
    <3>1. thread[t].pid \in Pid /\ Kills(t, thread[t].pid)
      BY <2>10 DEF Kill, HandInv, Kills
    <3>2. Lets(t)
      BY <2>10, AfterQuitTurns DEF Kill, Lets, Turn
    <3>3. /\ child'[thread[t].pid] = "empty" /\ UNCHANGED <<waiter, binding>>
          /\ \A p \in Pid \ {thread[t].pid} : child'[p] = child[p]
          /\ \A p \in Pid : engine[p] # "unborn" => engine'[p] # "unborn"
      BY <2>10, <3>1 DEF Kill
    <3>4. \A s \in Threads : ~Handles(s, thread[t].pid)
      BY <3>1 DEF HandInv
    <3>5. QED BY <3>1, <3>2, <3>3, <3>4 DEF Lets, HandInv, Handles, Kills, Owned
  <2>11. QED BY <1>2, <2>1, <2>3, <2>4, <2>5, <2>6, <2>7, <2>8, <2>9, <2>10 DEF Works
<1>3. ASSUME NEW p \in Pid, Watches(p) \/ Answers(p) \/ EngineDies(p) \/ EngineEnds(p)
      PROVE  HandInv'
  <2>1. CASE Waits(p)
    <3>1. waiter[p] # "off" /\ UNCHANGED <<engine, binding, thread>>
      BY <2>1 DEF Waits
    <3>2. /\ child'[p] # "none"
          /\ \A q \in Pid \ {p} : child'[q] = child[q] /\ waiter'[q] = waiter[q]
      BY <2>1 DEF Waits
    <3>3. QED BY <3>1, <3>2 DEF HandInv, Handles, Kills, Owned
  <2>2. CASE OnExit(p)
    <3>1. /\ waiter[p] # "off" /\ UNCHANGED <<engine, binding, child>>
          /\ \A q \in Pid \ {p} : waiter'[q] = waiter[q]
      BY <2>2 DEF OnExit
    <3>2. \A s \in Threads : thread'[s] = thread[s]
                               \/ thread'[s].pc \notin {"hand", "adopt", "kill"}
      BY <2>2 DEF OnExit, Sleeping, StartsAt
    <3>3. QED BY <3>1, <3>2 DEF HandInv, Handles, Kills, Owned
  <2>3. CASE EngineReady(p) \/ EngineRefused(p) \/ EngineDies(p) \/ EngineEnds(p)
    <3>1. /\ UNCHANGED <<child, waiter, binding, thread>>
          /\ \A q \in Pid : engine[q] # "unborn" => engine'[q] # "unborn"
      BY <2>3 DEF EngineReady, EngineRefused, EngineDies, EngineEnds
    <3>2. QED BY <3>1 DEF HandInv, Handles, Kills, Owned
  <2>4. QED BY <1>3, <2>1, <2>2, <2>3 DEF Watches, Answers
<1>4. CASE CliStarts \/ CliStops \/ Poll
  BY <1>4 DEF CliStarts, CliStops, Poll, HandInv, Handles, Kills, Owned
<1>5. CASE UserRestart \/ ExitRequested
  <2>1. \A s \in Threads : thread'[s] = thread[s]
                               \/ thread'[s].pc \notin {"hand", "adopt", "kill"}
    BY <1>5 DEF UserRestart, ExitRequested, StartsAt
  <2>2. UNCHANGED <<engine, child, waiter, binding>>
    BY <1>5 DEF UserRestart, ExitRequested
  <2>3. QED BY <2>1, <2>2 DEF HandInv, Handles, Kills, Owned
<1>6. CASE Gone
  BY <1>6 DEF Gone, HandInv, Handles, Kills, Idle
<1>7. QED BY <1>1, <1>2, <1>3, <1>4, <1>5, <1>6 DEF ShellNext

-----------------------------------------------------------------------------
(* The engine of the command line, and the end of the desktop              *)

\* No engine names the command line, and no thread attaches to it, before it
\* has started one.
LEMMA CliInvKeeps ==
    ASSUME ShellTypeOK, CliInv, HandInv, GoneInv, SpareInv, [ShellNext]_shellVars
    PROVE  CliInv'
<1> USE NameAssumption DEF ShellTypeOK, procs, bounds
<1>1. CASE UNCHANGED shellVars
  BY <1>1 DEF shellVars, CliInv
<1>2. ASSUME NEW t \in Threads, Works(t)
      PROVE  CliInv'
  <2>1. UNCHANGED <<said, clis>> /\ (lock' = lock \/ lock' = NoEngine)
    BY <1>2 DEF Works, Spawn, NoHandshake, Handshake, AdoptOwned, Attach,
                MarkRunning, Fails, UserFails, Quit, Kill, Restore, Freed
  <2>2. \A p \in Pid : said'[p] = CliEngine => clis' >= 1
    BY <2>1 DEF CliInv
  <2>3. lock' = CliEngine => clis' >= 1
    BY <2>1 DEF CliInv
  <2>4. binding'.st = "attached" => clis' >= 1
    <3>1. binding'.st = "attached" =>
             binding.st = "attached" \/ thread[t].pc \in {"attach", "restore"}
      BY <1>2 DEF Works, Spawn, NoHandshake, Handshake, AdoptOwned, Attach,
                  MarkRunning, Fails, UserFails, Quit, Kill, Restore, Unbound
    <3>2. QED BY <2>1, <3>1 DEF CliInv
  <2>5. ASSUME NEW s \in Threads, thread'[s].pc \in {"attach", "restore"}
        PROVE  clis' >= 1
    <3> USE <2>5
    <3>1. CASE thread'[s] = thread[s]
      BY <2>1, <3>1 DEF CliInv
    <3>2. CASE thread'[s] # thread[s]
      <4>1. CASE Spawn(t)
        BY <3>2, <4>1, SpawnTurns DEF Turn
      <4>2. CASE NoHandshake(t)
        BY <3>2, <4>2, ToTurns DEF Turn, NoHandshake
      <4>3. CASE Handshake(t)
        <5>1. thread[t].pid \in Pid
          BY <4>3 DEF Handshake, HandInv
        <5>2. Turn(t, AfterHandshake(thread[t].pid), thread[t].mode, thread[t].pid)
          BY <4>3, ToTurns DEF Handshake
        <5>3. said[thread[t].pid] = CliEngine
          BY <3>2, <5>2 DEF Turn, AfterHandshake
        <5>4. QED BY <2>1, <5>1, <5>3 DEF CliInv
      <4>4. CASE AdoptOwned(t) \/ Attach(t)
        BY <3>2, <4>4, ToTurns DEF Turn, AdoptOwned, Attach
      <4>5. CASE MarkRunning(t) \/ UserFails(t)
        BY <3>2, <4>5 DEF MarkRunning, UserFails, Idle
      <4>6. CASE Fails(t)
        BY <3>2, <4>6 DEF Fails, Idle, Sleeping, StartsAt
      <4>7. CASE Quit(t)
        <5>1. CASE binding = Unbound
          BY <3>2, <4>7, <5>1, QuitTurns, AfterQuitTurns DEF Turn
        <5>2. CASE binding # Unbound
          <6>1. binding.st = "attached"
            BY <3>2, <4>7, <5>2, QuitTurns DEF Turn
          <6>2. QED BY <2>1, <6>1 DEF CliInv
        <5>3. QED BY <5>1, <5>2
      <4>8. CASE Kill(t) \/ Restore(t)
        BY <3>2, <4>8, AfterQuitTurns DEF Turn, Kill, Restore
      <4>9. QED BY <1>2, <4>1, <4>2, <4>3, <4>4, <4>5, <4>6, <4>7, <4>8 DEF Works
    <3>3. QED BY <3>1, <3>2
  <2>6. QED BY <2>2, <2>3, <2>4, <2>5 DEF CliInv
<1>3. ASSUME NEW p \in Pid, Watches(p) \/ Answers(p) \/ EngineDies(p) \/ EngineEnds(p)
      PROVE  CliInv'
  <2>1. CASE Waits(p)
    BY <2>1 DEF Waits, CliInv
  <2>2. CASE OnExit(p)
    <3>1. \A s \in Threads : thread'[s] = thread[s] \/ thread'[s].pc = "quit"
      BY <2>2 DEF OnExit, Sleeping, StartsAt
    <3>2. QED BY <2>2, <3>1 DEF OnExit, CliInv
  <2>3. CASE EngineReady(p) \/ EngineRefused(p)
    BY <2>3 DEF EngineReady, EngineRefused, CliInv
  <2>4. CASE EngineDies(p) \/ EngineEnds(p)
    BY <2>4 DEF EngineDies, EngineEnds, Freed, CliInv
  <2>5. QED BY <1>3, <2>1, <2>2, <2>3, <2>4 DEF Watches, Answers
<1>4. CASE CliStarts \/ CliStops \/ Poll
  BY <1>4 DEF CliStarts, CliStops, Poll, CliInv
<1>5. CASE UserRestart \/ ExitRequested
  <2>1. \A s \in Threads : thread'[s] = thread[s] \/ thread'[s].pc = "quit"
    BY <1>5 DEF UserRestart, ExitRequested, StartsAt
  <2>2. QED BY <1>5, <2>1 DEF UserRestart, ExitRequested, CliInv
<1>6. CASE Gone
  BY <1>6 DEF Gone, CliInv, Idle, Unbound
<1>7. QED BY <1>1, <1>2, <1>3, <1>4, <1>5, <1>6 DEF ShellNext

\* Of a desktop that is gone no thread, waiter or binding is left.
LEMMA GoneInvKeeps ==
    ASSUME ShellTypeOK, GoneInv, [ShellNext]_shellVars
    PROVE  GoneInv'
<1> USE DEF procs, bounds
<1>1. CASE UNCHANGED shellVars
  BY <1>1 DEF shellVars, GoneInv
<1>2. ASSUME NEW t \in Threads, Works(t)
      PROVE  GoneInv'
  <2>1. app' = app
    BY <1>2 DEF Works, Spawn, NoHandshake, Handshake, AdoptOwned, Attach,
                MarkRunning, Fails, UserFails, Quit, Kill, Restore
  <2>2. app # "gone"
    BY <1>2 DEF GoneInv, Idle, Works, Spawn, NoHandshake, Handshake, AdoptOwned, Attach,
                MarkRunning, Fails, UserFails, Quit, Kill, Restore
  <2>3. QED BY <2>1, <2>2 DEF GoneInv
<1>3. ASSUME NEW p \in Pid, Watches(p) \/ Answers(p) \/ EngineDies(p) \/ EngineEnds(p)
      PROVE  GoneInv'
  <2>1. CASE Watches(p)
    BY <2>1 DEF Watches, Waits, OnExit, GoneInv
  <2>2. CASE Answers(p) \/ EngineDies(p) \/ EngineEnds(p)
    BY <2>2 DEF Answers, EngineReady, EngineRefused, EngineDies, EngineEnds, GoneInv
  <2>3. QED BY <1>3, <2>1, <2>2
<1>4. CASE CliStarts \/ CliStops \/ Poll
  BY <1>4 DEF CliStarts, CliStops, Poll, GoneInv
<1>5. CASE UserRestart \/ ExitRequested
  BY <1>5 DEF UserRestart, ExitRequested, GoneInv
<1>6. CASE Gone
  BY <1>6 DEF Gone, GoneInv
<1>7. QED BY <1>1, <1>2, <1>3, <1>4, <1>5, <1>6 DEF ShellNext


-----------------------------------------------------------------------------
(* Counting starts and threads                                             *)

\* What one element does to a count.
LEMMA CountOfOneMore ==
    ASSUME NEW S, NEW T, NEW x, IsFiniteSet(S)
    PROVE  /\ IsFiniteSet(S) /\ Cardinality(S) \in Nat
           /\ T \subseteq S => IsFiniteSet(T) /\ Cardinality(T) \in Nat
                                 /\ Cardinality(T) <= Cardinality(S)
           /\ T \subseteq S \cup {x} => IsFiniteSet(T) /\ Cardinality(T) \in Nat
                                           /\ Cardinality(T) <= Cardinality(S) + 1
           /\ x \in S /\ T \subseteq S \ {x} =>
                IsFiniteSet(T) /\ Cardinality(T) \in Nat
                  /\ Cardinality(T) <= Cardinality(S) - 1
<1>1. Cardinality(S) \in Nat
  BY FS_CardinalityType
<1>2. CASE T \subseteq S
  BY <1>1, <1>2, FS_Subset, FS_CardinalityType
<1>3. ASSUME T \subseteq S \cup {x}
      PROVE  IsFiniteSet(T) /\ Cardinality(T) \in Nat /\ Cardinality(T) <= Cardinality(S) + 1
  <2>1. /\ IsFiniteSet(S \cup {x})
        /\ Cardinality(S \cup {x}) = Cardinality(S) \/ Cardinality(S \cup {x}) = Cardinality(S) + 1
    BY <1>1, FS_AddElement
  <2>2. QED BY <1>1, <1>3, <2>1, FS_Subset, FS_CardinalityType
<1>4. ASSUME x \in S, T \subseteq S \ {x}
      PROVE  IsFiniteSet(T) /\ Cardinality(T) \in Nat /\ Cardinality(T) <= Cardinality(S) - 1
  <2>1. IsFiniteSet(S \ {x}) /\ Cardinality(S \ {x}) = Cardinality(S) - 1
    BY <1>4, FS_RemoveElement
  <2>2. QED BY <1>4, <2>1, FS_Subset, FS_CardinalityType
<1>5. QED
  <2>1. T \subseteq S => IsFiniteSet(T) /\ Cardinality(T) \in Nat
                                 /\ Cardinality(T) <= Cardinality(S)
    BY <1>1, FS_Subset, FS_CardinalityType
  <2>2. QED BY <1>1, <1>3, <1>4, <2>1

\* The counts are those of finite sets.
LEMMA CountsAreNumbers ==
    ASSUME ShellTypeOK
    PROVE  /\ IsFiniteSet(Pending) /\ Cardinality(Pending) \in Nat
           /\ IsFiniteSet(Recovering) /\ Cardinality(Recovering) \in Nat
           /\ Left \in Nat /\ Cap \in Nat /\ Cardinality(Recovery) \in Nat
           /\ MaxRestarts \in Nat \ {0} /\ ui.count \in Nat /\ clicks \in Nat
<1>1. IsFiniteSet(Recovery) /\ IsFiniteSet(Threads)
  BY RecoveryAssumption, FS_AddElement DEF Threads
<1>2. /\ MaxRestarts \in Nat \ {0} /\ clicks \in 0..MaxClicks
      /\ ui.count \in Nat /\ MaxClicks \in Nat
  BY CountAssumption DEF ShellTypeOK
<1>3. Left \in Nat /\ Cap \in Nat
  BY <1>2 DEF Left, Cap
<1>4. Pending \subseteq Threads /\ Recovering \subseteq Recovery
  BY DEF Pending, Recovering
<1>5. IsFiniteSet(Pending) /\ IsFiniteSet(Recovering)
  BY <1>1, <1>4, FS_Subset
<1>6. QED BY <1>1, <1>2, <1>3, <1>5, FS_CardinalityType

\* Of a thread that moves on, what it was and is decides the counts.
LEMMA TurnCounts ==
    ASSUME ShellTypeOK, NEW t \in Threads, NEW pc, NEW mode, NEW pid, Turn(t, pc, mode, pid)
    PROVE  /\ Pending' \subseteq Pending \cup {t}
           /\ \/ pc \notin {"quit", "kill", "restore", "spawn"}
              \/ mode = "exit"
              => Pending' \subseteq Pending \ {t}
           /\ thread[t].pc # "idle" \/ t = Main => Recovering' \subseteq Recovering
           /\ Recovering' \subseteq Recovering \cup {t}
BY NameAssumption DEF Turn, Pending, Recovering, Threads

\* A quit that has bound an engine again or killed one is as much of a start
\* as it was.
LEMMA AfterQuitCounts ==
    ASSUME ShellTypeOK, NEW t \in Threads, AfterQuit(t),
           thread[t].pc \in {"quit", "kill", "restore"}
    PROVE  Pending' \subseteq Pending /\ Recovering' \subseteq Recovering
<1>1. CASE thread[t].mode = "exit"
  BY <1>1, AfterQuitTurns, TurnCounts
<1>2. CASE thread[t].mode # "exit"
  <2>1. Turn(t, "spawn", thread[t].mode, NoEngine)
    BY <1>2, AfterQuitTurns
  <2>2. t \in Pending
    BY <1>2 DEF Pending
  <2>3. QED BY <2>1, <2>2, TurnCounts
<1>3. QED BY <1>1, <1>2

\* A step other than a spawn, a failure, a click or the end starts nothing.
Quiet ==
    /\ Pending' \subseteq Pending /\ Recovering' \subseteq Recovering
    /\ Spawned' = Spawned /\ UNCHANGED <<ui.count, clicks>>
    /\ app' # "gone" => app # "gone"

\* A failure: one more start, one less left.
Counted ==
    /\ Spawned' = Spawned /\ UNCHANGED clicks
    /\ app' # "gone" => app # "gone"
    /\ ui'.count = ui.count + 1
    /\ \/ ui.count + 1 >= MaxRestarts /\ Pending' \subseteq Pending /\ Recovering' \subseteq Recovering
       \/ /\ ui.count + 1 < MaxRestarts
          /\ \E x : Pending' \subseteq Pending \cup {x} /\ Recovering' \subseteq Recovering \cup {x}

\* Each step is one of these.
LEMMA StepCounts ==
    ASSUME ShellTypeOK, EngineInv, HandInv, GoneInv, BoundInv, SpareInv,
           [ShellNext]_shellVars, ~UserRestart, ~Gone,
           \A t \in Threads : ~Spawn(t)
    PROVE  Quiet \/ Counted
<1> USE DEF procs, bounds
<1>1. CASE UNCHANGED shellVars
  BY <1>1 DEF shellVars, Quiet, Pending, Recovering, Spawned
<1>2. ASSUME NEW t \in Threads, Works(t)
      PROVE  Quiet \/ Counted
  <2>1. app' = app /\ clicks' = clicks
    BY <1>2 DEF Works, Spawn, NoHandshake, Handshake, AdoptOwned, Attach,
                MarkRunning, Fails, UserFails, Quit, Kill, Restore
  <2>2. app # "gone"
    BY <1>2 DEF GoneInv, Idle, Works, Spawn, NoHandshake, Handshake, AdoptOwned, Attach,
                MarkRunning, Fails, UserFails, Quit, Kill, Restore
  <2>3. ~Kill(t) => engine' = engine
    BY <1>2 DEF Works, Spawn, NoHandshake, Handshake, AdoptOwned, Attach,
                MarkRunning, Fails, UserFails, Quit, Restore
  <2>4. Kill(t) => \A p \in Pid : engine[p] = "unborn" <=> engine'[p] = "unborn"
    <3>1. ASSUME Kill(t), thread[t].pid \in Pid
          PROVE  \A p \in Pid : engine[p] = "unborn" <=> engine'[p] = "unborn"
      <4>1. child[thread[t].pid] = "held" => engine[thread[t].pid] # "unborn"
        BY <3>1, NameAssumption DEF EngineInv
      <4>2. QED BY <3>1, <4>1 DEF Kill, ShellTypeOK
    <3>2. Kill(t) => thread[t].pid \in Pid
      BY DEF Kill, HandInv
    <3>3. QED BY <3>1, <3>2
  <2>5. Spawned' = Spawned
    BY <2>3, <2>4 DEF Spawned
  <2>6. ~Fails(t) => ui'.count = ui.count
    BY <1>2 DEF Works, Spawn, NoHandshake, Handshake, AdoptOwned, Attach,
                MarkRunning, UserFails, Quit, Kill, Restore, ShellTypeOK
  <2>7. CASE NoHandshake(t)
    BY <2>1, <2>5, <2>6, <2>7, ToTurns, TurnCounts
       DEF NoHandshake, Quiet, Fails
  <2>8. CASE Handshake(t)
    BY <2>1, <2>5, <2>6, <2>8, ToTurns, TurnCounts
       DEF Handshake, AfterHandshake, Quiet, Fails
  <2>9. CASE AdoptOwned(t) \/ Attach(t)
    BY <2>1, <2>5, <2>6, <2>9, ToTurns, TurnCounts
       DEF AdoptOwned, Attach, Quiet, Fails
  <2>10. CASE MarkRunning(t) \/ UserFails(t)
    <3>1. thread[t].pc # "idle" /\ Turn(t, "idle", "recovery", NoEngine)
      BY <2>10 DEF MarkRunning, UserFails, Turn, Idle, ShellTypeOK
    <3>2. ~Fails(t)
      BY <2>10 DEF MarkRunning, UserFails, Fails
    <3>3. QED BY <2>1, <2>5, <2>6, <3>1, <3>2, TurnCounts DEF Quiet
  <2>11. CASE Fails(t)
    <3>1. ui'.count = ui.count + 1 /\ ui.count \in Nat /\ MaxRestarts \in Nat
      BY <2>2, <2>11, FailsTurns, CountsAreNumbers
    <3>2. thread[t].pc # "idle"
      BY <2>11 DEF Fails
    <3>3. CASE ui.count + 1 >= MaxRestarts
      BY <2>1, <2>2, <2>5, <2>11, <3>1, <3>2, <3>3, FailsTurns, TurnCounts DEF Counted
    <3>4. CASE ui.count + 1 < MaxRestarts /\ t = Main
      <4>1. /\ Spare \in Recovery
            /\ thread'[Main] = Idle
            /\ \A s \in Threads \ {Main, Spare} : thread'[s] = thread[s]
        BY <2>2, <2>11, <3>4, FailsTurns
      <4>2. Pending' \subseteq Pending \cup {Spare} /\ Recovering' \subseteq Recovering \cup {Spare}
        BY <4>1, NameAssumption DEF Pending, Recovering, Threads, Idle
      <4>3. QED BY <2>1, <2>5, <3>1, <3>4, <4>2 DEF Counted
    <3>5. CASE ui.count + 1 < MaxRestarts /\ t # Main
      <4>1. Turn(t, "quit", "recovery", NoEngine)
        BY <2>2, <2>11, <3>5, FailsTurns
      <4>2. Pending' \subseteq Pending \cup {t} /\ Recovering' \subseteq Recovering \cup {t}
        BY <4>1, TurnCounts
      <4>3. QED BY <2>1, <2>5, <3>1, <3>5, <4>2 DEF Counted
    <3>6. QED BY <3>1, <3>3, <3>4, <3>5
  <2>12. CASE Quit(t)
    <3>1. thread[t].pc = "quit" /\ ~Fails(t)
      BY <2>12 DEF Quit, Fails
    <3>2. Pending' \subseteq Pending /\ Recovering' \subseteq Recovering
      <4>1. CASE binding = Unbound
        BY <2>12, <3>1, <4>1, QuitTurns, AfterQuitCounts
      <4>2. CASE binding # Unbound
        <5>1. PICK pc \in {"kill", "restore"} : Turn(t, pc, thread[t].mode, binding.pid)
          BY <2>12, <4>2, QuitTurns
        <5>2. thread[t].mode # "exit" => t \in Pending
          BY <3>1 DEF Pending
        <5>3. QED BY <3>1, <5>1, <5>2, TurnCounts
      <4>3. QED BY <4>1, <4>2
    <3>3. QED BY <2>1, <2>5, <2>6, <3>1, <3>2 DEF Quiet
  <2>13. CASE Kill(t) \/ Restore(t)
    <3>1. thread[t].pc \in {"kill", "restore"} /\ AfterQuit(t) /\ ~Fails(t)
      BY <2>13 DEF Kill, Restore, Fails
    <3>2. QED BY <2>1, <2>5, <2>6, <3>1, AfterQuitCounts DEF Quiet
  <2>14. QED BY <1>2, <2>7, <2>8, <2>9, <2>10, <2>11, <2>12, <2>13 DEF Works
<1>3. ASSUME NEW p \in Pid, Watches(p) \/ Answers(p) \/ EngineDies(p) \/ EngineEnds(p)
      PROVE  Quiet \/ Counted
  <2>1. CASE OnExit(p)
    <3>1. app # "gone" /\ Spawned' = Spawned /\ UNCHANGED <<clicks, app>>
      BY <2>1 DEF OnExit, GoneInv, Spawned
    <3>2. ui'.count = ui.count + 1 /\ ui.count \in Nat /\ MaxRestarts \in Nat
      BY <2>1, <3>1, OnExitTurns, CountsAreNumbers
    <3>3. CASE ui.count + 1 >= MaxRestarts
      <4>1. thread' = thread
        BY <2>1, <3>1, <3>3, OnExitTurns
      <4>2. QED BY <3>1, <3>2, <3>3, <4>1 DEF Counted, Pending, Recovering
    <3>4. CASE ui.count + 1 < MaxRestarts
      <4>1. Spare \in Threads /\ Turn(Spare, "quit", "recovery", NoEngine)
        BY <2>1, <3>1, <3>4, OnExitTurns DEF Threads
      <4>2. Pending' \subseteq Pending \cup {Spare} /\ Recovering' \subseteq Recovering \cup {Spare}
        BY <4>1, TurnCounts
      <4>3. QED BY <3>1, <3>2, <3>4, <4>2 DEF Counted
    <3>5. QED BY <3>2, <3>3, <3>4
  <2>2. CASE Waits(p) \/ Answers(p) \/ EngineDies(p) \/ EngineEnds(p)
    <3>1. /\ UNCHANGED <<thread, ui, clicks, app>>
          /\ \A q \in Pid : engine[q] = "unborn" <=> engine'[q] = "unborn"
      BY <2>2 DEF Waits, Answers, EngineReady, EngineRefused, EngineDies, EngineEnds,
                  ShellTypeOK
    <3>2. Spawned' = Spawned
      BY <3>1 DEF Spawned
    <3>3. Pending' = Pending /\ Recovering' = Recovering
      BY <3>1 DEF Pending, Recovering
    <3>4. QED BY <3>1, <3>2, <3>3 DEF Quiet
  <2>3. QED BY <1>3, <2>1, <2>2 DEF Watches
<1>4. CASE CliStarts \/ CliStops \/ Poll
  <2>1. UNCHANGED <<engine, thread, ui, clicks, app>>
    BY <1>4 DEF CliStarts, CliStops, Poll
  <2>2. QED BY <2>1 DEF Quiet, Spawned, Pending, Recovering
<1>5. CASE ExitRequested
  <2>1. Turn(Main, "quit", "exit", NoEngine)
    BY <1>5 DEF ExitRequested, Turn, StartsAt, ShellTypeOK, Threads
  <2>2. Pending' \subseteq Pending /\ Recovering' \subseteq Recovering
    BY <2>1, TurnCounts DEF Threads
  <2>3. QED BY <1>5, <2>2 DEF ExitRequested, Quiet, Spawned
<1>6. QED BY <1>1, <1>2, <1>3, <1>4, <1>5 DEF ShellNext

\* The numbers after a step.
LEMMA CountsStayNumbers ==
    ASSUME ShellTypeOK'
    PROVE  /\ Left' \in Nat /\ Cap' \in Nat /\ ui'.count \in Nat /\ clicks' \in Nat
           /\ Left' = IF ui'.count < MaxRestarts THEN MaxRestarts - 1 - ui'.count ELSE 0
           /\ Cap' = MaxRestarts * (1 + clicks')
<1>1. /\ MaxRestarts \in Nat \ {0} /\ clicks' \in 0..MaxClicks
      /\ ui'.count \in Nat /\ MaxClicks \in Nat
  BY CountAssumption DEF ShellTypeOK
<1>2. /\ Left' = IF ui'.count < MaxRestarts THEN MaxRestarts - 1 - ui'.count ELSE 0
      /\ Cap' = MaxRestarts * (1 + clicks')
  BY DEF Left, Cap
<1>3. Left' \in Nat
  <2>1. Left' = IF ui'.count < MaxRestarts THEN MaxRestarts - 1 - ui'.count ELSE 0
    BY <1>2
  <2>2. QED BY <1>1, <2>1
<1>4. clicks' \in Nat
  BY <1>1
<1>5. Cap' \in Nat
  <2>1. \A a, b \in Nat : a * (1 + b) \in Nat
    OBVIOUS
  <2>2. MaxRestarts * (1 + clicks') \in Nat
    BY <1>1, <1>4, <2>1
  <2>3. QED BY <1>2, <2>2
<1>6. QED BY <1>1, <1>2, <1>3, <1>4, <1>5

\* At the exit nothing is spawned.
LEMMA ExitSpawnsNothing ==
    ASSUME ShellTypeOK, GoneInv, BoundInv, SpareInv, [ShellNext]_shellVars
    PROVE  \A t \in Threads : thread'[t].pc = "spawn" => thread'[t].mode # "exit"
<1> USE DEF procs, bounds
<1>1. SUFFICES ASSUME NEW s \in Threads, thread'[s].pc = "spawn", thread'[s] # thread[s]
               PROVE  thread'[s].mode # "exit"
  BY DEF BoundInv
<1>2. ASSUME NEW t \in Threads, Works(t)
      PROVE  thread'[s].mode # "exit"
  <2>1. CASE Spawn(t)
    BY <1>1, <2>1, SpawnTurns DEF Turn
  <2>2. CASE NoHandshake(t) \/ Handshake(t) \/ AdoptOwned(t) \/ Attach(t)
    BY <1>1, <2>2, ToTurns DEF NoHandshake, Handshake, AfterHandshake, AdoptOwned, Attach, Turn
  <2>3. CASE MarkRunning(t) \/ UserFails(t) \/ Fails(t)
    BY <1>1, <2>3 DEF MarkRunning, UserFails, Fails, Idle, Sleeping, StartsAt, ShellTypeOK
  <2>4. CASE Quit(t)
    <3>1. binding = Unbound \/ thread'[s].pc # "spawn"
      BY <1>1, <2>4, QuitTurns DEF Turn
    <3>2. QED BY <1>1, <2>4, <3>1, QuitTurns, AfterQuitTurns DEF Turn
  <2>5. CASE Kill(t) \/ Restore(t)
    BY <1>1, <2>5, AfterQuitTurns DEF Kill, Restore, Turn
  <2>6. QED BY <1>2, <2>1, <2>2, <2>3, <2>4, <2>5 DEF Works
<1>3. CASE UserRestart \/ ExitRequested \/ Gone
  BY <1>1, <1>3 DEF UserRestart, ExitRequested, Gone, StartsAt, Idle, ShellTypeOK
<1>4. CASE CliStarts \/ CliStops \/ Poll \/ UNCHANGED shellVars
  BY <1>1, <1>4 DEF CliStarts, CliStops, Poll, shellVars
<1>5. ASSUME NEW p \in Pid, Watches(p) \/ Answers(p) \/ EngineDies(p) \/ EngineEnds(p)
      PROVE  thread'[s].mode # "exit"
  BY <1>1, <1>5 DEF Watches, Waits, OnExit, Sleeping, StartsAt, Answers, EngineReady,
                    EngineRefused, EngineDies, EngineEnds, ShellTypeOK
<1>6. QED BY <1>2, <1>3, <1>4, <1>5 DEF ShellNext

\* Starts done, under way and left are within the cap, through every step.
LEMMA BoundInvKeeps ==
    ASSUME ShellTypeOK, EngineInv, HandInv, GoneInv, BoundInv, SpareInv,
           [ShellNext]_shellVars, ShellTypeOK'
    PROVE  BoundInv'
<1> USE DEF procs, bounds
<1>1. PICK n \in 0..MaxPid : Spawned = 1..n /\ n <= Cap
                             /\ (app # "gone" => n + Cardinality(Pending) + Left <= Cap)
  BY DEF BoundInv
<1>2. /\ n \in Nat /\ MaxRestarts \in Nat \ {0} /\ Cap \in Nat /\ Left \in Nat
      /\ IsFiniteSet(Pending) /\ Cardinality(Pending) \in Nat
      /\ ui.count \in Nat /\ clicks \in Nat
  BY CountsAreNumbers
<1>3. /\ Left' \in Nat /\ Cap' \in Nat /\ ui'.count \in Nat /\ clicks' \in Nat
      /\ Left' = IF ui'.count < MaxRestarts THEN MaxRestarts - 1 - ui'.count ELSE 0
      /\ Cap' = MaxRestarts * (1 + clicks')
  BY CountsStayNumbers
<1>4. \A t \in Threads : thread'[t].pc = "spawn" => thread'[t].mode # "exit"
  BY ExitSpawnsNothing
<1>5. CASE Gone
  <2>1. Spawned' = Spawned /\ Cap' = Cap /\ app' = "gone"
    BY <1>5 DEF Gone, Spawned, Cap
  <2>2. QED BY <1>1, <1>4, <2>1 DEF BoundInv
<1>6. CASE UserRestart
  <2>1. Spawned' = Spawned /\ app' = app /\ clicks' = clicks + 1 /\ ui'.count = 0
    BY <1>6 DEF UserRestart, Spawned
  <2>2. app # "gone"
    BY <1>6 DEF UserRestart
  <2>3. Cap' = Cap + MaxRestarts
    BY <1>2, <1>3, <2>1 DEF Cap
  <2>4. Pending' \subseteq Pending \cup {Main}
    BY <1>6 DEF UserRestart, Pending
  <2>5. Cardinality(Pending') \in Nat /\ Cardinality(Pending') <= Cardinality(Pending) + 1
    BY <1>2, <2>4, CountOfOneMore
  <2>6. Left' = MaxRestarts - 1
    BY <1>2, <1>3, <2>1
  <2>7. n <= Cap' /\ n + Cardinality(Pending') + Left' <= Cap'
    <3>1. n + Cardinality(Pending) + Left <= Cap
      BY <1>1, <2>2
    <3>2. n + Cardinality(Pending') + Left' <= Cap'
      BY <1>2, <2>3, <2>5, <2>6, <3>1
    <3>3. QED BY <1>1, <1>2, <2>3, <3>2
  <2>8. QED BY <1>1, <1>4, <2>1, <2>7 DEF BoundInv
<1>7. CASE \E t \in Threads : Spawn(t)
  <2>1. PICK t \in Threads : Spawn(t)
    BY <1>7
  <2>2. n + 1 \in Pid /\ Fresh = n + 1 /\ engine[Fresh] = "unborn"
    BY <1>1, <2>1, FreshIsNext DEF Spawn
  <2>3. app # "gone"
    BY <2>1 DEF Spawn, GoneInv, Idle
  <2>4. Spawned' = 1..(n + 1)
    <3>1. Spawned' = Spawned \cup {n + 1}
      BY <2>1, <2>2 DEF Spawn, Spawned, ShellTypeOK
    <3>2. QED BY <1>1, <1>2, <3>1
  <2>5. UNCHANGED <<ui, clicks, app>>
    BY <2>1 DEF Spawn
  <2>6. t \in Pending
    BY <2>1 DEF Spawn, BoundInv, Pending
  <2>7. Pending' \subseteq Pending \ {t}
    BY <2>1, SpawnTurns, TurnCounts
  <2>8. Cardinality(Pending') \in Nat /\ Cardinality(Pending') <= Cardinality(Pending) - 1
    BY <1>2, <2>6, <2>7, CountOfOneMore
  <2>9. Left' = Left /\ Cap' = Cap
    BY <2>5 DEF Left, Cap
  <2>10. n + 1 <= Cap /\ (n + 1) + Cardinality(Pending') + Left <= Cap
    BY <1>1, <1>2, <2>3, <2>8
  <2>11. n + 1 \in 0..MaxPid
    BY <2>2, CountAssumption DEF Pid
  <2>12. QED BY <1>4, <2>4, <2>9, <2>10, <2>11 DEF BoundInv
<1>8. CASE Quiet \/ Counted
  <2>1. Spawned' = Spawned /\ clicks' = clicks /\ (app' # "gone" => app # "gone")
    BY <1>8 DEF Quiet, Counted
  <2>2. Cap' = Cap
    BY <2>1 DEF Cap
  <2>3. CASE Quiet
    <3>1. Left' = Left
      BY <1>3, <2>3 DEF Quiet, Left
    <3>2. Cardinality(Pending') \in Nat /\ Cardinality(Pending') <= Cardinality(Pending)
      BY <1>2, <2>3, CountOfOneMore DEF Quiet
    <3>3. app # "gone" => n + Cardinality(Pending') + Left' <= Cap
      BY <1>1, <1>2, <3>1, <3>2
    <3>4. QED BY <1>1, <1>4, <2>1, <2>2, <3>3 DEF BoundInv
  <2>4. CASE Counted
    <3>1. CASE ui.count + 1 >= MaxRestarts /\ Pending' \subseteq Pending
      <4>1. Cardinality(Pending') \in Nat /\ Cardinality(Pending') <= Cardinality(Pending)
        BY <1>2, <3>1, CountOfOneMore
      <4>2. ui'.count = ui.count + 1
        BY <2>4 DEF Counted
      <4>3. Left' = 0
        BY <1>2, <1>3, <3>1, <4>2
      <4>4. app # "gone" => n + Cardinality(Pending') + Left' <= Cap
        BY <1>1, <1>2, <4>1, <4>3
      <4>5. QED BY <1>1, <1>4, <2>1, <2>2, <4>4 DEF BoundInv
    <3>2. CASE ui.count + 1 < MaxRestarts /\ \E x : Pending' \subseteq Pending \cup {x}
      <4>1. Cardinality(Pending') \in Nat /\ Cardinality(Pending') <= Cardinality(Pending) + 1
        BY <1>2, <3>2, CountOfOneMore
      <4>2. ui'.count = ui.count + 1
        BY <2>4 DEF Counted
      <4>3. Left' = Left - 1
        BY <1>2, <1>3, <3>2, <4>2 DEF Left
      <4>4. app # "gone" => n + Cardinality(Pending') + Left' <= Cap
        BY <1>1, <1>2, <4>1, <4>3
      <4>5. QED BY <1>1, <1>4, <2>1, <2>2, <4>4 DEF BoundInv
    <3>3. QED BY <2>4, <3>1, <3>2 DEF Counted
  <2>5. QED BY <1>8, <2>3, <2>4
<1>9. QED BY <1>5, <1>6, <1>7, <1>8, StepCounts

\* A recovery thread is left for every failure that will be answered.
LEMMA SpareInvKeeps ==
    ASSUME ShellTypeOK, EngineInv, HandInv, GoneInv, BoundInv, SpareInv,
           [ShellNext]_shellVars, ShellTypeOK'
    PROVE  SpareInv'
<1> USE DEF procs, bounds
<1> DEFINE Rest == (MaxRestarts - 1) * (MaxClicks - clicks)
<1>1. app # "gone" => Cardinality(Recovering) + Left + Rest <= Cardinality(Recovery)
  BY DEF SpareInv
<1>2. /\ MaxRestarts \in Nat \ {0} /\ Left \in Nat /\ Cardinality(Recovery) \in Nat
      /\ IsFiniteSet(Recovering) /\ Cardinality(Recovering) \in Nat
      /\ ui.count \in Nat /\ clicks \in Nat
  BY CountsAreNumbers
<1>3. /\ Left' \in Nat /\ ui'.count \in Nat /\ clicks' \in Nat
      /\ Left' = IF ui'.count < MaxRestarts THEN MaxRestarts - 1 - ui'.count ELSE 0
  BY CountsStayNumbers
<1>4. MaxClicks - clicks \in Nat /\ MaxClicks \in Nat
  BY CountAssumption DEF ShellTypeOK
<1>5. Rest \in Nat
  BY <1>2, <1>4
<1>6. ASSUME UNCHANGED clicks, app' # "gone" => app # "gone",
             Cardinality(Recovering') \in Nat,
             Cardinality(Recovering') + Left' <= Cardinality(Recovering) + Left
      PROVE  SpareInv'
  <2>1. Rest' = Rest
    BY <1>6
  <2> HIDE DEF Rest
  <2>2. app' # "gone" => Cardinality(Recovering') + Left' + Rest' <= Cardinality(Recovery)
    BY <1>1, <1>2, <1>3, <1>5, <1>6, <2>1
  <2>3. QED BY <2>2 DEF SpareInv, Rest
<1>7. CASE Gone
  BY <1>7 DEF Gone, SpareInv
<1>8. CASE UserRestart
  <2>1. app # "gone" /\ clicks' = clicks + 1 /\ ui'.count = 0 /\ clicks < MaxClicks
    BY <1>8 DEF UserRestart
  <2>2. Recovering' \subseteq Recovering
    BY <1>8, NameAssumption DEF UserRestart, Recovering
  <2>3. Cardinality(Recovering') \in Nat /\ Cardinality(Recovering') <= Cardinality(Recovering)
    BY <1>2, <2>2, CountOfOneMore
  <2>4. Left' = MaxRestarts - 1
    BY <1>2, <1>3, <2>1
  <2>5. Rest' = Rest - (MaxRestarts - 1)
    BY <1>2, <1>4, <2>1
  <2> HIDE DEF Rest
  <2>6. Cardinality(Recovering') + Left' + Rest' <= Cardinality(Recovery)
    BY <1>1, <1>2, <1>5, <2>1, <2>3, <2>4, <2>5
  <2>7. QED BY <2>6 DEF SpareInv, Rest
<1>9. CASE \E t \in Threads : Spawn(t)
  <2>1. PICK t \in Threads : Spawn(t)
    BY <1>9
  <2>2. UNCHANGED <<ui, clicks, app>> /\ thread[t].pc # "idle"
    BY <2>1 DEF Spawn
  <2>3. Recovering' \subseteq Recovering
    BY <2>1, <2>2, SpawnTurns, TurnCounts
  <2>4. Cardinality(Recovering') \in Nat /\ Cardinality(Recovering') <= Cardinality(Recovering)
    BY <1>2, <2>3, CountOfOneMore
  <2>5. Left' = Left
    BY <2>2 DEF Left
  <2>6. QED BY <1>2, <1>6, <2>2, <2>4, <2>5
<1>10. CASE Quiet \/ Counted
  <2>1. UNCHANGED clicks /\ (app' # "gone" => app # "gone")
    BY <1>10 DEF Quiet, Counted
  <2>2. CASE Quiet
    <3>1. Left' = Left
      BY <1>3, <2>2 DEF Quiet, Left
    <3>2. Cardinality(Recovering') \in Nat /\ Cardinality(Recovering') <= Cardinality(Recovering)
      BY <1>2, <2>2, CountOfOneMore DEF Quiet
    <3>3. QED BY <1>2, <1>6, <2>1, <3>1, <3>2
  <2>3. CASE Counted
    <3>1. ui'.count = ui.count + 1
      BY <2>3 DEF Counted
    <3>2. CASE ui.count + 1 >= MaxRestarts /\ Recovering' \subseteq Recovering
      <4>1. Cardinality(Recovering') \in Nat /\ Cardinality(Recovering') <= Cardinality(Recovering)
        BY <1>2, <3>2, CountOfOneMore
      <4>2. Left' = 0
        BY <1>2, <1>3, <3>1, <3>2
      <4>3. QED BY <1>2, <1>6, <2>1, <4>1, <4>2
    <3>3. CASE ui.count + 1 < MaxRestarts /\ \E x : Recovering' \subseteq Recovering \cup {x}
      <4>1. Cardinality(Recovering') \in Nat /\ Cardinality(Recovering') <= Cardinality(Recovering) + 1
        BY <1>2, <3>3, CountOfOneMore
      <4>2. Left' = Left - 1
        BY <1>2, <1>3, <3>1, <3>3 DEF Left
      <4>3. QED BY <1>2, <1>6, <2>1, <4>1, <4>2
    <3>4. QED BY <2>3, <3>2, <3>3 DEF Counted
  <2>4. QED BY <1>10, <2>2, <2>3
<1>11. QED BY <1>7, <1>8, <1>9, <1>10, StepCounts

-----------------------------------------------------------------------------
(* At most one death or one start by the command line, and no click        *)

\* A calm state comes from a calm one, and by few of the steps.
LEMMA CalmBefore ==
    ASSUME ShellInv, [ShellNext]_shellVars, Calm'
    PROVE  /\ Calm /\ YoungInv /\ FaultInv /\ HeldInv /\ StaleInv /\ KeptInv
           /\ app = "up" /\ ~UserRestart /\ ~ExitRequested /\ ~Gone
           /\ \A p \in Pid : ~EngineEnds(p) /\ (EngineDies(p) => deaths = 0)
           /\ \A t \in Threads : thread[t].pc \in {"attach", "restore"} => deaths = 0
           /\ binding.st = "attached" => deaths = 0
<1> USE DEF procs, bounds
<1>1. /\ deaths \in Nat /\ clicks \in Nat /\ clis \in Nat
      /\ app' = "up" /\ clicks' = 0 /\ deaths' + clis' <= 1
  BY CountAssumption DEF ShellInv, ShellTypeOK, Calm
<1>2. ~UserRestart /\ ~ExitRequested /\ ~Gone
  BY <1>1 DEF UserRestart, ExitRequested, Gone
<1>3. /\ app' = app /\ clicks' = clicks
      /\ deaths' = deaths \/ deaths' = deaths + 1
      /\ clis' = clis \/ clis' = clis + 1
  BY <1>2 DEF ShellNext, Works, Spawn, NoHandshake, Handshake, AdoptOwned, Attach,
              MarkRunning, Fails, UserFails, Quit, Kill, Restore, Watches, Waits, OnExit,
              Answers, EngineReady, EngineRefused, EngineDies, EngineEnds,
              CliStarts, CliStops, Poll, shellVars
<1>4. Calm
  BY <1>1, <1>3 DEF Calm
<1>5. \A p \in Pid : ~EngineEnds(p) /\ (EngineDies(p) => deaths = 0)
  BY <1>1, <1>3 DEF EngineEnds, EngineDies
<1>6. clis >= 1 => deaths = 0
  BY <1>1, <1>4 DEF Calm
<1>7. /\ \A t \in Threads : thread[t].pc \in {"attach", "restore"} => deaths = 0
      /\ binding.st = "attached" => deaths = 0
  BY <1>6 DEF ShellInv, CliInv
<1>8. QED BY <1>1, <1>2, <1>3, <1>4, <1>5, <1>7 DEF ShellInv, CalmInv

\* Before the first failure is counted there is one engine and one thread.
LEMMA YoungMeans ==
    ASSUME ShellInv, YoungInv, ui.count = 0
    PROVE  /\ \A p \in Pid : p # 1 => /\ engine[p] = "unborn" /\ said[p] = NoEngine
                                      /\ child[p] = "none" /\ waiter[p] = "off"
           /\ \A t \in Threads : thread[t].pc # "idle" => t = Main
           /\ \A t \in Threads : ~Quit(t) /\ ~Kill(t) /\ ~Restore(t)
<1>1. \A p \in Pid : p # 1 => engine[p] = "unborn"
  BY DEF YoungInv, Spawned
<1>2. \A t \in Threads : thread[t].pc # "idle" => t = Main
  BY DEF YoungInv, Threads
<1>3. QED BY <1>1, <1>2, NameAssumption
          DEF ShellInv, EngineInv, YoungInv, Quit, Kill, Restore

\* Only a failure changes the count.
LEMMA CountStays ==
    ASSUME ShellInv, [ShellNext]_shellVars, Calm'
    PROVE  \/ ui'.count = ui.count
           \/ /\ ui'.count = ui.count + 1
              /\ (\E t \in Threads : Fails(t)) \/ (\E p \in Pid : OnExit(p))
<1> USE DEF procs, bounds
<1>1. ~UserRestart /\ ~ExitRequested /\ ~Gone
  BY CalmBefore
<1>2. ASSUME ~(\E t \in Threads : Fails(t)), ~(\E p \in Pid : OnExit(p))
      PROVE  ui'.count = ui.count
  <2>1. (\E t \in Threads : MarkRunning(t)) => ui'.count = ui.count
    BY DEF MarkRunning, ShellInv, ShellTypeOK
  <2>2. ~(\E t \in Threads : MarkRunning(t)) => ui' = ui
    BY <1>1, <1>2 DEF ShellNext, Works, Spawn, NoHandshake, Handshake, AdoptOwned, Attach,
              UserFails, Quit, Kill, Restore, Watches, Waits,
              Answers, EngineReady, EngineRefused, EngineDies, EngineEnds,
              CliStarts, CliStops, Poll, shellVars
  <2>3. QED BY <2>1, <2>2
<1>3. ASSUME (\E t \in Threads : Fails(t)) \/ (\E p \in Pid : OnExit(p))
      PROVE  ui'.count = ui.count + 1
  <2>1. RecordCrash
    BY <1>3 DEF Fails, OnExit
  <2>2. QED BY <2>1, CrashIsCounted DEF ShellInv
<1>4. QED BY <1>2, <1>3

\* Until a failure is counted, setup is all there is.
LEMMA YoungInvKeeps ==
    ASSUME ShellInv, [ShellNext]_shellVars, Calm'
    PROVE  YoungInv'
<1> USE NameAssumption DEF procs, bounds
<1>1. SUFFICES ASSUME ui'.count = 0
               PROVE  YoungInv'
  BY DEF YoungInv
<1>2. YoungInv /\ ~UserRestart /\ ~ExitRequested /\ ~Gone /\ \A p \in Pid : ~EngineEnds(p)
  BY CalmBefore
<1>3. ui.count = 0 /\ (\A t \in Threads : ~Fails(t)) /\ (\A p \in Pid : ~OnExit(p))
  <2>1. ui.count \in Nat
    BY DEF ShellInv, ShellTypeOK
  <2>2. ASSUME (\E t \in Threads : Fails(t)) \/ (\E p \in Pid : OnExit(p))
        PROVE  FALSE
    <3>1. RecordCrash
      BY <2>2 DEF Fails, OnExit
    <3>2. QED BY <1>1, <2>1, <3>1, CrashIsCounted DEF ShellInv
  <2>3. QED BY <1>1, <2>2, CountStays
<1>4. /\ \A p \in Pid : p # 1 => /\ engine[p] = "unborn" /\ said[p] = NoEngine
                                 /\ child[p] = "none" /\ waiter[p] = "off"
      /\ \A t \in Threads : thread[t].pc # "idle" => t = Main
      /\ \A t \in Threads : ~Quit(t) /\ ~Kill(t) /\ ~Restore(t)
  BY <1>2, <1>3, YoungMeans
<1>5. Main \in Threads /\ Recovery \subseteq Threads
  BY DEF Threads
<1>6. ASSUME NEW pc, NEW mode, NEW pid, Turn(Main, pc, mode, pid),
             pc \in {"hand", "idle", "mark", "adopt", "attach", "failed"},
             Spawned' \subseteq {1},
             pc \in {"hand", "adopt", "attach"} => binding' = Unbound,
             pc = "failed" => \A p \in Pid : /\ engine'[p] # "starting" /\ child'[p] # "held"
                                             /\ said'[p] = p => child'[p] = "empty",
             \A p \in Pid : waiter'[p] # "done"
      PROVE  YoungInv'
  <2>1. \A r \in Recovery : thread'[r].pc = "idle"
    BY <1>2, <1>3, <1>5, <1>6 DEF Turn, YoungInv
  <2>2. thread'[Main].pc = pc
    BY <1>6 DEF Turn
  <2>3. QED BY <1>6, <2>1, <2>2 DEF YoungInv
<1>7. ASSUME NEW t \in Threads, Works(t)
      PROVE  YoungInv'
  <2>1. t = Main
    BY <1>4, <1>7 DEF Works, Spawn, NoHandshake, Handshake, AdoptOwned, Attach,
                MarkRunning, Fails, UserFails, Quit, Kill, Restore
  <2>2. /\ Spawned \subseteq {1} /\ \A p \in Pid : waiter[p] # "done"
        /\ thread[Main].pc \in {"spawn", "hand", "adopt", "attach"} => binding = Unbound
    BY <1>2, <1>3 DEF YoungInv
  <2>3. CASE Spawn(t)
    <3>1. Spawned = {} /\ binding = Unbound
      BY <1>2, <1>3, <2>1, <2>3 DEF Spawn, YoungInv
    <3>2. PICK n \in 0..MaxPid : Spawned = 1..n
      BY DEF ShellInv, BoundInv
    <3>3. n = 0
      <4>1. n \in Nat /\ (n # 0 => 1 \in 1..n)
        BY CountAssumption
      <4>2. QED BY <3>1, <3>2, <4>1
    <3>4. Fresh = 1 /\ 1 \in Pid
      BY <2>3, <3>2, <3>3, FreshIsNext DEF Spawn, ShellInv
    <3>5. Spawned' \subseteq {1}
      BY <1>4, <2>3, <3>4 DEF Spawn, Spawned, ShellInv, ShellTypeOK
    <3>6. Turn(Main, "hand", thread[Main].mode, Fresh)
      BY <2>1, <2>3, SpawnTurns DEF ShellInv
    <3>7. UNCHANGED <<binding, waiter>>
      BY <2>3 DEF Spawn
    <3>8. QED BY <1>6, <2>2, <3>1, <3>5, <3>6, <3>7
  <2>4. CASE NoHandshake(t)
    <3>1. UNCHANGED <<engine, said, child, waiter, binding>> /\ Spawned' = Spawned
      BY <2>4 DEF NoHandshake, Spawned
    <3>2. Turn(Main, "failed", thread[Main].mode, thread[Main].pid)
      BY <2>1, <2>4, ToTurns DEF NoHandshake, ShellInv
    <3>3. /\ thread[Main].pid \in Pid /\ engine[thread[Main].pid] = "dead"
          /\ said[thread[Main].pid] = NoEngine
      BY <1>5, <2>1, <2>4 DEF NoHandshake, ShellInv, HandInv
    <3>4. thread[Main].pid = 1
      BY <1>4, <3>3
    <3>5. child[1] = "none" /\ said[1] # 1 /\ 1 \in Pid
      BY <3>3, <3>4 DEF ShellInv, EngineInv
    <3>6. \A p \in Pid : /\ engine[p] # "starting" /\ child[p] # "held"
                         /\ said[p] # p
      BY <1>4, <3>3, <3>4, <3>5
    <3>7. QED BY <1>6, <2>2, <3>1, <3>2, <3>6
  <2>5. CASE Handshake(t)
    <3>1. UNCHANGED <<engine, said, binding>> /\ Spawned' = Spawned
      BY <2>5 DEF Handshake, Spawned
    <3>2. Turn(Main, AfterHandshake(thread[Main].pid), thread[Main].mode, thread[Main].pid)
      BY <2>1, <2>5, ToTurns DEF Handshake, ShellInv
    <3>3. /\ thread[Main].pid \in Pid /\ Handles(Main, thread[Main].pid)
          /\ engine[thread[Main].pid] # "unborn" /\ child[thread[Main].pid] = "none"
          /\ said[thread[Main].pid] # NoEngine
      BY <1>5, <2>1, <2>5 DEF Handshake, ShellInv, HandInv, Handles
    <3>4. thread[Main].pid = 1
      BY <1>4, <3>3
    <3>5. \A p \in Pid : waiter'[p] # "done"
      BY <2>2, <2>5 DEF Handshake, ShellInv, ShellTypeOK
    <3>6. binding' = Unbound
      BY <2>1, <2>2, <2>5, <3>1 DEF Handshake
    <3>7. ASSUME AfterHandshake(thread[Main].pid) = "failed", NEW p \in Pid
          PROVE  /\ engine'[p] # "starting" /\ child'[p] # "held"
                 /\ said'[p] = p => child'[p] = "empty"
      <4>1. said[1] # 1
        BY <3>4, <3>7 DEF AfterHandshake
      <4>2. child' = child
        BY <2>1, <2>5, <3>4, <4>1 DEF Handshake
      <4>3. engine[1] # "starting"
        BY <3>3, <3>4 DEF ShellInv, EngineInv
      <4>4. QED BY <1>4, <3>1, <3>3, <3>4, <4>1, <4>2, <4>3
    <3>8. AfterHandshake(thread[Main].pid) \in {"adopt", "attach", "failed"}
      BY DEF AfterHandshake
    <3>9. QED BY <1>6, <2>2, <3>1, <3>2, <3>5, <3>6, <3>7, <3>8
  <2>6. CASE AdoptOwned(t)
    <3>1. UNCHANGED <<engine, said, child, waiter>> /\ Spawned' = Spawned
      BY <2>6 DEF AdoptOwned, Spawned
    <3>2. /\ thread[Main].pid \in Pid /\ Handles(Main, thread[Main].pid)
          /\ engine[thread[Main].pid] # "unborn" /\ child[thread[Main].pid] # "none"
      BY <1>5, <2>1, <2>6 DEF AdoptOwned, ShellInv, HandInv, Handles
    <3>3. thread[Main].pid = 1
      BY <1>4, <3>2
    <3>4. binding = Unbound
      BY <2>1, <2>2, <2>6 DEF AdoptOwned
    <3>5. CASE child[1] = "held"
      <4>1. Turn(Main, "mark", thread[Main].mode, thread[Main].pid)
        BY <2>1, <2>6, <3>3, <3>4, <3>5, ToTurns DEF AdoptOwned, Adopts, ShellInv
      <4>2. QED BY <1>6, <2>2, <3>1, <4>1
    <3>6. CASE child[1] # "held"
      <4>1. Turn(Main, "failed", thread[Main].mode, thread[Main].pid)
        BY <2>1, <2>6, <3>3, <3>6, ToTurns DEF AdoptOwned, Adopts, ShellInv
      <4>2. child[1] = "empty" /\ engine[1] = "dead"
        BY <3>2, <3>3, <3>6 DEF ShellInv, ShellTypeOK, EngineInv
      <4>3. \A p \in Pid : /\ engine[p] # "starting" /\ child[p] # "held"
                           /\ said[p] = p => child[p] = "empty"
        BY <1>4, <4>2
      <4>4. QED BY <1>6, <2>2, <3>1, <4>1, <4>3
    <3>7. QED BY <3>5, <3>6
  <2>7. CASE Attach(t)
    <3>1. UNCHANGED waiter /\ Spawned' = Spawned
      BY <2>7 DEF Attach, Spawned
    <3>2. Turn(Main, "mark", thread[Main].mode, thread[Main].pid)
      BY <2>1, <2>2, <2>7, ToTurns DEF Attach, ShellInv
    <3>3. QED BY <1>6, <2>2, <3>1, <3>2
  <2>8. CASE MarkRunning(t) \/ UserFails(t)
    <3>1. Turn(Main, "idle", "recovery", NoEngine)
      BY <2>1, <2>8 DEF MarkRunning, UserFails, Turn, Idle, ShellInv, ShellTypeOK
    <3>2. UNCHANGED waiter /\ Spawned' = Spawned
      BY <2>8 DEF MarkRunning, UserFails, Spawned
    <3>3. QED BY <1>6, <2>2, <3>1, <3>2
  <2>9. QED BY <1>3, <1>4, <1>7, <2>3, <2>4, <2>5, <2>6, <2>7, <2>8 DEF Works
<1>8. ASSUME UNCHANGED <<thread, binding>>,
             \A p \in Pid : /\ engine'[p] # "unborn" => engine[p] # "unborn"
                            /\ engine'[p] = "starting" => engine[p] = "starting"
                            /\ waiter'[p] # "done"
                            /\ child'[p] = child[p] \/ child'[p] = "empty"
                            /\ said'[p] = said[p] \/ engine[p] = "starting"
      PROVE  YoungInv'
  <2>1. Spawned' \subseteq Spawned
    BY <1>8 DEF Spawned
  <2>2. QED BY <1>2, <1>3, <1>8, <2>1 DEF YoungInv
<1>9. ASSUME NEW p \in Pid, Watches(p) \/ Answers(p) \/ EngineDies(p) \/ EngineEnds(p)
      PROVE  YoungInv'
  <2>1. \A q \in Pid : waiter[q] # "done"
    BY <1>2, <1>3 DEF YoungInv
  <2>2. CASE Waits(p)
    BY <1>8, <2>1, <2>2 DEF Waits, ShellInv, ShellTypeOK
  <2>3. CASE EngineReady(p) \/ EngineRefused(p)
    BY <1>8, <2>1, <2>3 DEF EngineReady, EngineRefused, ShellInv, ShellTypeOK
  <2>4. CASE EngineDies(p)
    BY <1>8, <2>1, <2>4 DEF EngineDies, ShellInv, ShellTypeOK
  <2>5. QED BY <1>2, <1>3, <1>9, <2>2, <2>3, <2>4 DEF Watches, Answers
<1>10. CASE CliStarts \/ CliStops \/ Poll \/ UNCHANGED shellVars
  <2>1. UNCHANGED <<engine, said, child, waiter, thread, binding>>
    BY <1>10 DEF CliStarts, CliStops, Poll, shellVars
  <2>2. \A p \in Pid : waiter[p] # "done"
    BY <1>2, <1>3 DEF YoungInv
  <2>3. QED BY <1>8, <2>1, <2>2
<1>11. QED BY <1>2, <1>7, <1>9, <1>10 DEF ShellNext

\* Without a death nothing fails: what is dead gave way to the command line.
LEMMA FaultInvKeeps ==
    ASSUME ShellInv, [ShellNext]_shellVars, Calm'
    PROVE  FaultInv'
<1> USE NameAssumption DEF procs, bounds
<1>1. /\ YoungInv /\ FaultInv /\ ~UserRestart /\ ~ExitRequested /\ ~Gone
      /\ \A p \in Pid : ~EngineEnds(p)
  BY CalmBefore
<1>2. SUFFICES ASSUME deaths' = 0
               PROVE  FaultInv'
  BY DEF FaultInv
<1>3. deaths = 0 /\ \A p \in Pid : ~EngineDies(p)
  <2>1. deaths \in Nat
    BY CountAssumption DEF ShellInv, ShellTypeOK
  <2>2. \A p \in Pid : ~EngineDies(p)
    BY <1>2, <2>1 DEF EngineDies
  <2>3. deaths' = deaths
    BY <1>1, <2>2 DEF ShellNext, Works, Spawn, NoHandshake, Handshake, AdoptOwned, Attach,
              MarkRunning, Fails, UserFails, Quit, Kill, Restore, Watches, Waits, OnExit,
              Answers, EngineReady, EngineRefused, CliStarts, CliStops, Poll, shellVars
  <2>4. QED BY <1>2, <2>2, <2>3
<1>4. /\ ui.count = 0 /\ thread[Main].pc # "failed"
      /\ \A p \in Pid : waiter[p] # "exit" /\ (engine[p] = "dead" => said[p] = CliEngine)
  BY <1>1, <1>3 DEF FaultInv
<1>5. /\ \A p \in Pid : p # 1 => /\ engine[p] = "unborn" /\ said[p] = NoEngine
                                 /\ child[p] = "none" /\ waiter[p] = "off"
      /\ \A t \in Threads : thread[t].pc # "idle" => t = Main
      /\ \A t \in Threads : ~Quit(t) /\ ~Kill(t) /\ ~Restore(t)
  BY <1>1, <1>4, YoungMeans
<1>6. Main \in Threads
  BY DEF Threads
<1>7. (\A t \in Threads : ~Fails(t)) /\ (\A p \in Pid : ~OnExit(p))
  BY <1>4, <1>5 DEF Fails, OnExit
<1>8. ui'.count = 0
  BY <1>4, <1>7, CountStays
<1>9. ASSUME NEW t \in Threads, Works(t)
      PROVE  FaultInv'
  <2>1. t = Main
    BY <1>5, <1>9 DEF Works, Spawn, NoHandshake, Handshake, AdoptOwned, Attach,
                MarkRunning, Fails, UserFails, Quit, Kill, Restore
  <2>2. thread[Main].pc \in {"spawn", "hand", "adopt", "attach"} => binding = Unbound
    BY <1>1, <1>4 DEF YoungInv
  <2>3. CASE Spawn(t)
    <3>1. thread'[Main].pc = "hand"
      BY <2>1, <2>3, SpawnTurns DEF Turn, ShellInv
    <3>2. UNCHANGED <<said, waiter>>
          /\ \A p \in Pid : engine'[p] = "dead" => engine[p] = "dead"
      BY <2>3 DEF Spawn, ShellInv, ShellTypeOK
    <3>3. QED BY <1>4, <1>8, <3>1, <3>2 DEF FaultInv
  <2>4. CASE NoHandshake(t)
    <3>1. /\ thread[Main].pid \in Pid /\ engine[thread[Main].pid] = "dead"
          /\ said[thread[Main].pid] = NoEngine
      BY <1>6, <2>1, <2>4 DEF NoHandshake, ShellInv, HandInv
    <3>2. QED BY <1>4, <3>1
  <2>5. CASE Handshake(t)
    <3>1. UNCHANGED <<engine, said>>
      BY <2>5 DEF Handshake
    <3>2. thread'[Main].pc = AfterHandshake(thread[Main].pid)
      BY <2>1, <2>5, ToTurns DEF Handshake, ShellInv, Turn
    <3>3. /\ thread[Main].pid \in Pid /\ Handles(Main, thread[Main].pid)
          /\ engine[thread[Main].pid] # "unborn" /\ said[thread[Main].pid] # NoEngine
      BY <1>6, <2>1, <2>5 DEF Handshake, ShellInv, HandInv, Handles
    <3>4. thread[Main].pid = 1 /\ 1 \in Pid
      BY <1>5, <3>3
    <3>5. said[1] \in {1, CliEngine}
      <4>1. said[1] \in Pid \cup {CliEngine}
        BY <3>3, <3>4 DEF ShellInv, ShellTypeOK
      <4>2. said[1] \in Pid => engine[said[1]] # "unborn"
        BY <3>4 DEF ShellInv, EngineInv
      <4>3. QED BY <1>5, <4>1, <4>2
    <3>6. thread'[Main].pc # "failed"
      BY <3>2, <3>4, <3>5 DEF AfterHandshake
    <3>7. \A p \in Pid : waiter'[p] # "exit"
      BY <1>4, <2>5 DEF Handshake, ShellInv, ShellTypeOK
    <3>8. QED BY <1>4, <1>8, <3>1, <3>6, <3>7 DEF FaultInv
  <2>6. CASE AdoptOwned(t)
    <3>1. UNCHANGED <<engine, said, waiter>>
      BY <2>6 DEF AdoptOwned
    <3>2. thread[Main].pid \in Pid /\ child[thread[Main].pid] # "none"
      BY <1>6, <2>1, <2>6 DEF AdoptOwned, ShellInv, HandInv, Handles
    <3>3. child[thread[Main].pid] # "empty"
      BY <1>4, <3>2 DEF ShellInv, EngineInv
    <3>4. child[thread[Main].pid] = "held"
      BY <3>2, <3>3 DEF ShellInv, ShellTypeOK
    <3>5. thread'[Main].pc = "mark"
      BY <2>1, <2>2, <2>6, <3>4, ToTurns DEF AdoptOwned, Adopts, Turn, ShellInv
    <3>6. QED BY <1>4, <1>8, <3>1, <3>5 DEF FaultInv
  <2>7. CASE Attach(t)
    <3>1. UNCHANGED <<engine, said, waiter>>
      BY <2>7 DEF Attach
    <3>2. thread'[Main].pc = "mark"
      BY <2>1, <2>2, <2>7, ToTurns DEF Attach, Turn, ShellInv
    <3>3. QED BY <1>4, <1>8, <3>1, <3>2 DEF FaultInv
  <2>8. CASE MarkRunning(t) \/ UserFails(t)
    <3>1. UNCHANGED <<engine, said, waiter>>
      BY <2>8 DEF MarkRunning, UserFails
    <3>2. thread'[Main].pc = "idle"
      BY <2>1, <2>8, <1>6 DEF MarkRunning, UserFails, Idle, ShellInv, ShellTypeOK
    <3>3. QED BY <1>4, <1>8, <3>1, <3>2 DEF FaultInv
  <2>9. QED BY <1>5, <1>7, <1>9, <2>3, <2>4, <2>5, <2>6, <2>7, <2>8 DEF Works
<1>10. ASSUME NEW p \in Pid, Watches(p) \/ Answers(p) \/ EngineDies(p) \/ EngineEnds(p)
       PROVE  FaultInv'
  <2>1. CASE Waits(p)
    <3>1. engine[p] = "dead" /\ said[p] = p
      BY <2>1 DEF Waits, ShellInv, EngineInv
    <3>2. QED BY <1>4, <3>1
  <2>2. CASE EngineReady(p)
    <3>1. \A q \in Pid : engine'[q] = "dead" => engine[q] = "dead" /\ said'[q] = said[q]
      BY <2>2 DEF EngineReady, ShellInv, ShellTypeOK
    <3>2. UNCHANGED <<thread, waiter>>
      BY <2>2 DEF EngineReady
    <3>3. QED BY <1>4, <1>8, <3>1, <3>2 DEF FaultInv
  <2>3. CASE EngineRefused(p)
    <3>1. lock = CliEngine
      <4>1. lock \in Pid => engine[lock] = "serving"
        BY DEF ShellInv, EngineInv
      <4>2. lock \notin Pid
        BY <1>5, <2>3, <4>1 DEF EngineRefused
      <4>3. QED BY <2>3, <4>2 DEF EngineRefused, ShellInv, ShellTypeOK
    <3>2. \A q \in Pid : engine'[q] = "dead" => said'[q] = CliEngine
      BY <1>4, <2>3, <3>1 DEF EngineRefused, ShellInv, ShellTypeOK
    <3>3. UNCHANGED <<thread, waiter>>
      BY <2>3 DEF EngineRefused
    <3>4. QED BY <1>4, <1>8, <3>2, <3>3 DEF FaultInv
  <2>4. QED BY <1>1, <1>3, <1>7, <1>10, <2>1, <2>2, <2>3 DEF Watches, Answers
<1>11. CASE CliStarts \/ CliStops \/ Poll \/ UNCHANGED shellVars
  <2>1. UNCHANGED <<engine, said, waiter, thread>>
    BY <1>11 DEF CliStarts, CliStops, Poll, shellVars
  <2>2. QED BY <1>4, <1>8, <2>1 DEF FaultInv
<1>12. QED BY <1>1, <1>9, <1>10, <1>11 DEF ShellNext

\* Once a failure is counted, what died has been taken off its holder.
LEMMA HeldInvKeeps ==
    ASSUME ShellInv, [ShellNext]_shellVars, Calm'
    PROVE  HeldInv'
<1> USE NameAssumption DEF procs, bounds
<1>1. /\ YoungInv /\ FaultInv /\ HeldInv /\ ~UserRestart /\ ~ExitRequested /\ ~Gone
      /\ \A p \in Pid : ~EngineEnds(p) /\ (EngineDies(p) => deaths = 0)
  BY CalmBefore
<1>2. SUFFICES ASSUME NEW p \in Pid, engine'[p] = "dead", said'[p] = p, ui'.count # 0
               PROVE  child'[p] = "empty"
  BY DEF HeldInv
<1>3. CASE ui'.count # ui.count
  <2>1. (\E t \in Threads : Fails(t)) \/ (\E q \in Pid : OnExit(q))
    BY <1>3, CountStays
  <2>2. UNCHANGED <<engine, said, child>>
    BY <2>1 DEF Fails, OnExit
  <2>3. CASE ui.count # 0
    BY <1>1, <1>2, <2>2, <2>3 DEF HeldInv
  <2>4. CASE ui.count = 0
    <3>1. p = 1
      BY <1>1, <1>2, <2>2, <2>4, YoungMeans
    <3>2. ASSUME NEW t \in Threads, Fails(t)
          PROVE  child[p] = "empty"
      <4>1. thread[Main].pc = "failed"
        BY <1>1, <2>4, <3>2, YoungMeans DEF Fails
      <4>2. QED BY <1>1, <1>2, <2>2, <2>4, <4>1 DEF YoungInv
    <3>3. ASSUME NEW q \in Pid, OnExit(q)
          PROVE  child[p] = "empty"
      <4>1. waiter[q] = "exit"
        BY <3>3 DEF OnExit
      <4>2. q = 1
        BY <1>1, <2>4, <4>1, YoungMeans
      <4>3. QED BY <3>1, <4>1, <4>2 DEF ShellInv, EngineInv
    <3>4. QED BY <2>1, <2>2, <3>2, <3>3
  <2>5. QED BY <2>3, <2>4
<1>4. CASE ui'.count = ui.count
  <2>1. ui.count # 0 /\ deaths # 0
    BY <1>1, <1>2, <1>4 DEF FaultInv
  <2>2. \A q \in Pid : ~EngineDies(q)
    BY <1>1, <2>1
  <2>3. ASSUME engine[p] = "dead", said[p] = p
        PROVE  child[p] = "empty"
    BY <1>1, <2>1, <2>3 DEF HeldInv
  <2>4. ASSUME NEW t \in Threads, Works(t)
        PROVE  child'[p] = "empty"
    <3>1. CASE Spawn(t)
      BY <1>2, <2>3, <3>1 DEF Spawn, ShellInv, ShellTypeOK
    <3>2. CASE NoHandshake(t) \/ AdoptOwned(t) \/ Attach(t) \/ MarkRunning(t)
               \/ Fails(t) \/ UserFails(t) \/ Quit(t) \/ Restore(t)
      BY <1>2, <2>3, <3>2 DEF NoHandshake, AdoptOwned, Attach, MarkRunning, Fails, UserFails,
                              Quit, Restore
    <3>3. CASE Handshake(t)
      <4>1. engine[p] = "dead" /\ said[p] = p /\ child[p] = "empty"
        BY <1>2, <2>3, <3>3 DEF Handshake
      <4>2. thread[t].pid \in Pid /\ child[thread[t].pid] = "none"
        BY <3>3 DEF Handshake, ShellInv, HandInv, Handles
      <4>3. thread[t].pid # p
        BY <4>1, <4>2
      <4>4. QED BY <3>3, <4>1, <4>3 DEF Handshake, ShellInv, ShellTypeOK
    <3>4. CASE Kill(t)
      BY <1>2, <2>3, <3>4 DEF Kill, ShellInv, ShellTypeOK
    <3>5. QED BY <2>4, <3>1, <3>2, <3>3, <3>4 DEF Works
  <2>5. ASSUME NEW q \in Pid, Watches(q) \/ Answers(q) \/ EngineDies(q) \/ EngineEnds(q)
        PROVE  child'[p] = "empty"
    <3>1. CASE Watches(q)
      BY <1>2, <2>3, <3>1 DEF Watches, Waits, OnExit, ShellInv, ShellTypeOK
    <3>2. CASE EngineReady(q)
      BY <1>2, <2>3, <3>2 DEF EngineReady, ShellInv, ShellTypeOK
    <3>3. CASE EngineRefused(q)
      <4>1. lock # q
        BY <3>3 DEF EngineRefused, ShellInv, EngineInv
      <4>2. QED BY <1>2, <2>3, <3>3, <4>1 DEF EngineRefused, ShellInv, ShellTypeOK
    <3>4. QED BY <1>1, <2>2, <2>5, <3>1, <3>2, <3>3 DEF Answers
  <2>6. CASE CliStarts \/ CliStops \/ Poll \/ UNCHANGED shellVars
    BY <1>2, <2>3, <2>6 DEF CliStarts, CliStops, Poll, shellVars
  <2>7. QED BY <1>1, <2>4, <2>5, <2>6 DEF ShellNext
<1>5. QED BY <1>3, <1>4

\* What the shell holds has been a ready engine: it serves, or it is dead.
LEMMA HeldServesOrDied ==
    ASSUME ShellInv, NEW p \in Pid, child[p] # "none", engine[p] # "serving"
    PROVE  engine[p] = "dead" /\ said[p] = p
BY NameAssumption DEF ShellInv, ShellTypeOK, EngineInv

\* While an engine that is bound does not serve, no start is under way.
LEMMA StaleInvKeeps ==
    ASSUME ShellInv, [ShellNext]_shellVars, Calm'
    PROVE  StaleInv'
<1> USE NameAssumption DEF procs, bounds
<1>1. /\ YoungInv /\ FaultInv /\ HeldInv /\ StaleInv
      /\ ~UserRestart /\ ~ExitRequested /\ ~Gone
      /\ \A p \in Pid : ~EngineEnds(p) /\ (EngineDies(p) => deaths = 0)
      /\ app = "up"
  BY CalmBefore
<1>2. SUFFICES ASSUME NEW p \in Pid, Owned(p)', engine'[p] # "serving"
               PROVE  /\ Spawned' = {p}
                      /\ \A t \in Threads : thread'[t].pc \in {"idle", "mark", "quit"}
  BY DEF StaleInv
<1>3. ASSUME Owned(p), engine[p] # "serving"
      PROVE  Spawned = {p} /\ \A t \in Threads : thread[t].pc \in {"idle", "mark", "quit"}
  BY <1>1, <1>3 DEF StaleInv
<1>4. ASSUME Spawned' = Spawned, UNCHANGED thread, Owned(p), engine[p] # "serving"
      PROVE  /\ Spawned' = {p}
             /\ \A t \in Threads : thread'[t].pc \in {"idle", "mark", "quit"}
  BY <1>3, <1>4
<1>5. ASSUME NEW t \in Threads, Works(t)
      PROVE  /\ Spawned' = {p}
             /\ \A s \in Threads : thread'[s].pc \in {"idle", "mark", "quit"}
  <2>1. CASE AdoptOwned(t)
    <3>1. UNCHANGED <<engine, child, said>> /\ Spawned' = Spawned
      BY <2>1 DEF AdoptOwned, Spawned
    <3>2. CASE Adopts(thread[t].pid)
      <4>1. p = thread[t].pid /\ child[p] = "held"
        BY <1>2, <2>1, <3>2 DEF AdoptOwned, Adopts, Owned
      <4>2. engine[p] = "dead" /\ said[p] = p
        BY <1>2, <3>1, <4>1, HeldServesOrDied
      <4>3. ui.count = 0
        BY <1>1, <4>1, <4>2 DEF HeldInv
      <4>4. p = 1 /\ t = Main /\ \A s \in Threads : thread[s].pc # "idle" => s = Main
        BY <1>1, <2>1, <4>2, <4>3, YoungMeans DEF AdoptOwned
      <4>5. Turn(t, "mark", thread[t].mode, thread[t].pid)
        BY <2>1, <3>2, ToTurns DEF AdoptOwned, ShellInv
      <4>6. \A s \in Threads : thread'[s].pc \in {"idle", "mark", "quit"}
        BY <4>4, <4>5 DEF Turn
      <4>7. Spawned = {p}
        BY <1>1, <4>2, <4>3, <4>4 DEF YoungInv, Spawned
      <4>8. QED BY <3>1, <4>6, <4>7
    <3>3. CASE ~Adopts(thread[t].pid)
      <4>1. Owned(p) /\ engine[p] # "serving"
        BY <1>2, <2>1, <3>1, <3>3 DEF AdoptOwned, Owned
      <4>2. QED BY <1>3, <2>1, <4>1 DEF AdoptOwned
    <3>4. QED BY <3>2, <3>3
  <2>2. CASE Attach(t) \/ Quit(t) \/ Restore(t)
    <3>1. CASE Attach(t)
      <4>1. Owned(p) /\ engine[p] # "serving"
        BY <1>2, <3>1 DEF Attach, Owned
      <4>2. QED BY <1>3, <3>1, <4>1 DEF Attach
    <3>2. CASE Quit(t) \/ Restore(t)
      BY <1>2, <3>2 DEF Quit, Restore, Owned, Unbound
    <3>3. QED BY <2>2, <3>1, <3>2
  <2>3. CASE Kill(t)
    <3>1. thread[t].pid \in Pid /\ ~Owned(thread[t].pid) /\ binding' = binding
      BY <2>3 DEF Kill, ShellInv, HandInv, Kills
    <3>2. Owned(p) /\ p # thread[t].pid
      BY <1>2, <3>1 DEF Owned
    <3>3. engine[p] # "serving"
      BY <1>2, <2>3, <3>1, <3>2 DEF Kill, ShellInv, ShellTypeOK
    <3>4. QED BY <1>3, <2>3, <3>2, <3>3 DEF Kill
  <2>4. CASE Spawn(t)
    <3>1. Owned(p)
      BY <1>2, <2>4 DEF Spawn, Owned
    <3>2. child[p] # "none"
      BY <3>1 DEF ShellInv, EngineInv
    <3>3. engine[p] # "unborn"
      BY <3>2 DEF ShellInv, EngineInv
    <3>4. Fresh # p
      BY <2>4, <3>3, FreshIsNext DEF Spawn, ShellInv, BoundInv
    <3>5. engine[p] # "serving"
      BY <1>2, <2>4, <3>4 DEF Spawn, ShellInv, ShellTypeOK
    <3>6. QED BY <1>3, <2>4, <3>1, <3>5 DEF Spawn
  <2>5. CASE NoHandshake(t) \/ Handshake(t) \/ Fails(t) \/ UserFails(t)
    <3>1. Owned(p) /\ engine[p] # "serving"
      BY <1>2, <2>5 DEF NoHandshake, Handshake, Fails, UserFails, Owned
    <3>2. QED BY <1>3, <2>5, <3>1 DEF NoHandshake, Handshake, Fails, UserFails
  <2>6. CASE MarkRunning(t)
    <3>1. Owned(p) /\ engine[p] # "serving" /\ Spawned' = Spawned
      BY <1>2, <2>6 DEF MarkRunning, Owned, Spawned
    <3>2. \A s \in Threads : thread'[s] = thread[s] \/ thread'[s].pc = "idle"
      BY <2>6 DEF MarkRunning, Idle, ShellInv, ShellTypeOK
    <3>3. QED BY <1>3, <3>1, <3>2
  <2>7. QED BY <1>5, <2>1, <2>2, <2>3, <2>4, <2>5, <2>6 DEF Works
<1>6. ASSUME NEW q \in Pid, Watches(q) \/ Answers(q) \/ EngineDies(q) \/ EngineEnds(q)
      PROVE  /\ Spawned' = {p}
             /\ \A t \in Threads : thread'[t].pc \in {"idle", "mark", "quit"}
  <2>1. Owned(p)
    BY <1>2, <1>6 DEF Watches, Waits, OnExit, Answers, EngineReady, EngineRefused,
                      EngineDies, EngineEnds, Owned
  <2>2. child[p] # "none"
    BY <2>1 DEF ShellInv, EngineInv
  <2>3. CASE Waits(q)
    BY <1>2, <1>4, <2>1, <2>3 DEF Waits, Spawned
  <2>4. CASE OnExit(q)
    <3>1. engine[p] # "serving" /\ Spawned' = Spawned
      BY <1>2, <2>4 DEF OnExit, Spawned
    <3>2. \A t \in Threads : thread'[t] = thread[t] \/ thread'[t].pc = "quit"
      BY <2>4 DEF OnExit, Sleeping, StartsAt, ShellInv, ShellTypeOK
    <3>3. QED BY <1>3, <2>1, <3>1, <3>2
  <2>5. CASE EngineReady(q) \/ EngineRefused(q)
    <3>1. engine[p] # "serving"
      BY <1>2, <2>5 DEF EngineReady, EngineRefused, ShellInv, ShellTypeOK
    <3>2. Spawned' = Spawned /\ UNCHANGED thread
      BY <2>5 DEF EngineReady, EngineRefused, Spawned, ShellInv, ShellTypeOK
    <3>3. QED BY <1>4, <2>1, <3>1, <3>2
  <2>6. CASE EngineDies(q)
    <3>1. Spawned' = Spawned /\ UNCHANGED thread
      BY <2>6 DEF EngineDies, Spawned, ShellInv, ShellTypeOK
    <3>2. CASE engine[p] # "serving"
      BY <1>4, <2>1, <3>1, <3>2
    <3>3. CASE engine[p] = "serving"
      <4>1. ui.count = 0 /\ thread[Main].pc # "failed"
        BY <1>1, <2>6 DEF FaultInv
      <4>2. Spawned = {p}
        BY <1>1, <3>3, <4>1, YoungMeans DEF YoungInv, Spawned
      <4>3. binding # Unbound
        BY <2>1 DEF Owned, Unbound
      <4>4. thread[Main].pc \in {"idle", "mark"}
        BY <1>1, <4>1, <4>3, ThreadFields DEF YoungInv, ShellInv, Threads
      <4>5. \A t \in Threads : thread[t].pc \in {"idle", "mark", "quit"}
        BY <1>1, <4>1, <4>4, YoungMeans
      <4>6. QED BY <3>1, <4>2, <4>5
    <3>4. QED BY <3>2, <3>3
  <2>7. QED BY <1>1, <1>6, <2>3, <2>4, <2>5, <2>6 DEF Watches, Answers
<1>7. CASE CliStarts \/ CliStops \/ Poll \/ UNCHANGED shellVars
  BY <1>2, <1>4, <1>7 DEF CliStarts, CliStops, Poll, shellVars, Owned, Spawned
<1>8. QED BY <1>1, <1>5, <1>6, <1>7 DEF ShellNext

\* An engine that starts or serves is in a hand, or bound.
LEMMA KeptInvKeeps ==
    ASSUME ShellInv, [ShellNext]_shellVars, Calm'
    PROVE  KeptInv'
<1> USE NameAssumption DEF procs, bounds
<1>1. /\ YoungInv /\ FaultInv /\ HeldInv /\ StaleInv /\ KeptInv
      /\ ~UserRestart /\ ~ExitRequested /\ ~Gone
      /\ \A p \in Pid : ~EngineEnds(p)
      /\ \A t \in Threads : thread[t].pc \in {"attach", "restore"} => deaths = 0
      /\ binding.st = "attached" => deaths = 0
  BY CalmBefore
<1>2. ASSUME UNCHANGED <<binding, thread>>,
             \A p \in Pid : /\ engine'[p] = "starting" => engine[p] = "starting"
                            /\ engine'[p] = "serving" => engine[p] = "serving"
      PROVE  KeptInv'
  BY <1>1, <1>2 DEF KeptInv, Handles, Kills, Owned
<1>3. ASSUME NEW t \in Threads,
             \A s \in Threads \ {t} : thread'[s] = thread[s],
             \A p \in Pid : engine'[p] = engine[p] \/ engine'[p] = "dead",
             \A p \in Pid : Owned(p) => Owned(p)' \/ Kills(t, p)',
             thread[t].pc = "hand" => engine'[thread[t].pid] # "starting",
             \A p \in Pid : Handles(t, p) \/ Kills(t, p) =>
                engine'[p] # "serving" \/ Handles(t, p)' \/ Owned(p)'
      PROVE  KeptInv'
  <2>1. ASSUME NEW p \in Pid, engine'[p] = "starting"
        PROVE  \E s \in Threads : thread'[s].pc = "hand" /\ thread'[s].pid = p
    <3>1. engine[p] = "starting"
      BY <1>3, <2>1
    <3>2. PICK s \in Threads : thread[s].pc = "hand" /\ thread[s].pid = p
      BY <1>1, <3>1 DEF KeptInv
    <3>3. s # t
      BY <1>3, <2>1, <3>2
    <3>4. QED BY <1>3, <3>2, <3>3
  <2>2. ASSUME NEW p \in Pid, engine'[p] = "serving"
        PROVE  Owned(p)' \/ \E s \in Threads : (Handles(s, p) \/ Kills(s, p))'
    <3>1. engine[p] = "serving"
      BY <1>3, <2>2
    <3>2. CASE Owned(p)
      BY <1>3, <3>2
    <3>3. ASSUME NEW s \in Threads, Handles(s, p) \/ Kills(s, p)
          PROVE  Owned(p)' \/ \E r \in Threads : (Handles(r, p) \/ Kills(r, p))'
      <4>1. CASE s = t
        BY <1>3, <2>2, <3>3, <4>1
      <4>2. CASE s # t
        BY <1>3, <3>3, <4>2 DEF Handles, Kills
      <4>3. QED BY <4>1, <4>2
    <3>4. QED BY <1>1, <3>1, <3>2, <3>3 DEF KeptInv
  <2>3. QED BY <2>1, <2>2 DEF KeptInv
<1>4. ASSUME NEW t \in Threads, Works(t)
      PROVE  KeptInv'
  <2>1. CASE Spawn(t)
    <3>1. Fresh \in Pid /\ engine[Fresh] = "unborn"
      BY <2>1, FreshIsNext DEF Spawn, ShellInv, BoundInv
    <3>2. /\ \A p \in Pid \ {Fresh} : engine'[p] = engine[p]
          /\ engine'[Fresh] = "starting" /\ thread[t].pc = "spawn" /\ UNCHANGED binding
      BY <2>1, <3>1 DEF Spawn, ShellInv, ShellTypeOK
    <3>3. /\ thread'[t].pc = "hand" /\ thread'[t].pid = Fresh
          /\ \A s \in Threads \ {t} : thread'[s] = thread[s]
      BY <2>1, SpawnTurns DEF Turn, ShellInv
    <3>4. QED BY <1>1, <3>1, <3>2, <3>3 DEF KeptInv, Handles, Kills, Owned
  <2>2. CASE NoHandshake(t)
    <3>1. /\ \A s \in Threads \ {t} : thread'[s] = thread[s]
          /\ UNCHANGED <<engine, binding>> /\ engine[thread[t].pid] = "dead"
          /\ thread[t].pc = "hand"
      BY <2>2, ToTurns DEF NoHandshake, Turn, ShellInv
    <3>2. \A p \in Pid : Handles(t, p) \/ Kills(t, p) => p = thread[t].pid
      BY DEF Handles, Kills
    <3>3. \A p \in Pid : Owned(p) => Owned(p)'
      BY <3>1 DEF Owned
    <3>4. QED BY <1>3, <3>1, <3>2, <3>3
  <2>3. CASE Handshake(t)
    <3>1. /\ thread'[t].pc = AfterHandshake(thread[t].pid) /\ thread'[t].pid = thread[t].pid
          /\ \A s \in Threads \ {t} : thread'[s] = thread[s]
          /\ UNCHANGED <<engine, binding>> /\ said[thread[t].pid] # NoEngine
          /\ thread[t].pc = "hand" /\ thread[t].pid \in Pid
      BY <2>3, ToTurns DEF Handshake, Turn, ShellInv, HandInv
    <3>2. \A p \in Pid : Handles(t, p) \/ Kills(t, p) => p = thread[t].pid
      BY DEF Handles, Kills
    <3>3. \A p \in Pid : Owned(p) => Owned(p)'
      BY <3>1 DEF Owned
    <3>4. engine[thread[t].pid] # "starting"
      BY <3>1 DEF ShellInv, EngineInv
    <3>5. engine[thread[t].pid] = "serving" => thread'[t].pc = "adopt"
      BY <3>1 DEF ShellInv, EngineInv, AfterHandshake
    <3>6. \A p \in Pid : Handles(t, p) \/ Kills(t, p) =>
             engine'[p] # "serving" \/ Handles(t, p)'
      BY <3>1, <3>2, <3>5 DEF Handles
    <3>7. QED BY <1>3, <3>1, <3>3, <3>4, <3>6
  <2>4. CASE AdoptOwned(t)
    <3>1. /\ \A s \in Threads \ {t} : thread'[s] = thread[s]
          /\ UNCHANGED <<engine, child>>
          /\ thread[t].pc = "adopt" /\ thread[t].pid \in Pid
      BY <2>4, ToTurns DEF AdoptOwned, Turn, ShellInv, HandInv
    <3>2. \A p \in Pid : Handles(t, p) \/ Kills(t, p) => p = thread[t].pid
      BY DEF Handles, Kills
    <3>3. \A p \in Pid : Owned(p) => Owned(p)'
      BY <2>4 DEF AdoptOwned, Adopts, Owned, Unbound
    <3>4. ASSUME engine[thread[t].pid] = "serving"
          PROVE  binding' = [st |-> "owned", pid |-> thread[t].pid]
      <4>1. child[thread[t].pid] = "held"
        <5>1. child[thread[t].pid] # "none"
          BY <3>1 DEF ShellInv, HandInv, Handles
        <5>2. child[thread[t].pid] # "empty"
          BY <3>1, <3>4 DEF ShellInv, EngineInv
        <5>3. QED BY <3>1, <5>1, <5>2 DEF ShellInv, ShellTypeOK
      <4>2. binding = Unbound
        <5>1. CASE binding.st = "attached"
          <6>1. ui.count = 0
            BY <1>1, <5>1 DEF FaultInv
          <6>2. t = Main
            BY <1>1, <3>1, <6>1, YoungMeans
          <6>3. QED BY <1>1, <3>1, <6>1, <6>2 DEF YoungInv
        <5>2. CASE binding.st = "owned"
          <6>1. PICK q \in Pid : Owned(q)
            BY <5>2 DEF ShellInv, ShellTypeOK, Binding, Owned
          <6>2. q # thread[t].pid
            BY <3>1, <6>1 DEF ShellInv, HandInv, Handles
          <6>3. engine[q] # "serving"
            BY <3>1, <3>4, <6>2 DEF ShellInv, EngineInv
          <6>4. QED BY <1>1, <3>1, <6>1, <6>3 DEF StaleInv
        <5>3. binding.st \notin {"owned", "attached"} => binding = Unbound
          BY DEF ShellInv, ShellTypeOK, Binding, Unbound
        <5>4. QED BY <5>1, <5>2, <5>3
      <4>3. Adopts(thread[t].pid)
        BY <4>1, <4>2 DEF Adopts
      <4>4. QED BY <2>4, <4>3 DEF AdoptOwned
    <3>5. \A p \in Pid : Handles(t, p) \/ Kills(t, p) =>
             engine'[p] # "serving" \/ Owned(p)'
      BY <3>1, <3>2, <3>4 DEF Owned
    <3>6. thread[t].pc # "hand"
      BY <3>1
    <3>7. QED BY <1>3, <3>1, <3>3, <3>5, <3>6
  <2>5. CASE Attach(t)
    <3>1. /\ \A s \in Threads \ {t} : thread'[s] = thread[s]
          /\ UNCHANGED engine /\ thread[t].pc = "attach"
      BY <2>5, ToTurns DEF Attach, Turn, ShellInv
    <3>2. \A p \in Pid : Owned(p) => Owned(p)'
      BY <2>5 DEF Attach, Owned, Unbound
    <3>3. QED BY <1>3, <3>1, <3>2 DEF Handles, Kills
  <2>6. CASE MarkRunning(t) \/ UserFails(t)
    <3>1. /\ \A s \in Threads \ {t} : thread'[s] = thread[s]
          /\ UNCHANGED <<engine, binding>> /\ thread[t].pc \in {"mark", "failed"}
      BY <2>6 DEF MarkRunning, UserFails, ShellInv, ShellTypeOK
    <3>2. QED BY <1>3, <3>1 DEF Handles, Kills, Owned
  <2>7. CASE Fails(t)
    <3>1. /\ thread[t].pc = "failed" /\ UNCHANGED <<engine, binding>> /\ app # "gone"
      BY <2>7, CalmBefore DEF Fails
    <3>2. \A s \in Threads : thread[s].pc \in {"hand", "adopt", "kill"} => thread'[s] = thread[s]
      <4>1. CASE ui.count + 1 >= MaxRestarts
        BY <2>7, <3>1, <4>1, FailsTurns DEF ShellInv, Turn
      <4>2. CASE ui.count + 1 < MaxRestarts
        BY <2>7, <3>1, <4>2, FailsTurns DEF ShellInv, Turn
      <4>3. QED BY <4>1, <4>2, CountsAreNumbers DEF ShellInv
    <3>3. QED BY <1>1, <3>1, <3>2 DEF KeptInv, Handles, Kills, Owned
  <2>8. CASE Quit(t)
    <3>1. UNCHANGED engine /\ thread[t].pc = "quit"
      BY <2>8 DEF Quit
    <3>2. \A s \in Threads \ {t} : thread'[s] = thread[s]
      BY <2>8 DEF Quit, AfterQuit, ShellInv, ShellTypeOK
    <3>3. \A p \in Pid : Owned(p) => Kills(t, p)'
      BY <2>8, QuitTurns DEF ShellInv, Turn, Owned, Kills
    <3>4. QED BY <1>3, <3>1, <3>2, <3>3 DEF Handles, Kills
  <2>9. CASE Kill(t)
    <3>1. /\ thread[t].pid \in Pid /\ Kills(t, thread[t].pid) /\ thread[t].pc = "kill"
          /\ UNCHANGED binding
      BY <2>9 DEF Kill, ShellInv, HandInv, Kills
    <3>2. \A s \in Threads \ {t} : thread'[s] = thread[s]
      BY <2>9, AfterQuitTurns DEF Kill, ShellInv, Turn
    <3>3. engine'[thread[t].pid] = "dead"
      <4>1. CASE child[thread[t].pid] = "held"
        BY <2>9, <3>1, <4>1 DEF Kill, ShellInv, ShellTypeOK
      <4>2. CASE child[thread[t].pid] # "held"
        BY <2>9, <3>1, <4>2 DEF Kill, ShellInv, ShellTypeOK, EngineInv, HandInv
      <4>3. QED BY <4>1, <4>2
    <3>4. \A p \in Pid : engine'[p] = engine[p] \/ engine'[p] = "dead"
      BY <2>9, <3>1 DEF Kill, ShellInv, ShellTypeOK
    <3>5. QED BY <1>3, <3>1, <3>2, <3>3, <3>4 DEF Handles, Kills, Owned
  <2>10. CASE Restore(t)
    <3>1. ui.count = 0
      BY <1>1, <2>10 DEF Restore, FaultInv
    <3>2. QED BY <1>1, <2>10, <3>1, YoungMeans
  <2>11. QED BY <1>4, <2>1, <2>2, <2>3, <2>4, <2>5, <2>6, <2>7, <2>8, <2>9, <2>10 DEF Works
<1>5. ASSUME NEW p \in Pid, Watches(p) \/ Answers(p) \/ EngineDies(p) \/ EngineEnds(p)
      PROVE  KeptInv'
  <2>1. CASE Waits(p)
    BY <1>2, <2>1 DEF Waits
  <2>2. CASE OnExit(p)
    <3>1. app # "gone" /\ UNCHANGED <<engine, binding>>
      BY <2>2, CalmBefore DEF OnExit
    <3>2. \A s \in Threads : thread[s].pc \in {"hand", "adopt", "kill"} => thread'[s] = thread[s]
      <4>1. CASE ui.count + 1 >= MaxRestarts
        BY <2>2, <3>1, <4>1, OnExitTurns DEF ShellInv
      <4>2. CASE ui.count + 1 < MaxRestarts
        BY <2>2, <3>1, <4>2, OnExitTurns DEF ShellInv, Turn
      <4>3. QED BY <4>1, <4>2, CountsAreNumbers DEF ShellInv
    <3>3. QED BY <1>1, <3>1, <3>2 DEF KeptInv, Handles, Kills, Owned
  <2>3. CASE EngineReady(p)
    <3>1. engine[p] = "starting" /\ UNCHANGED <<binding, thread>>
          /\ \A q \in Pid \ {p} : engine'[q] = engine[q]
      BY <2>3 DEF EngineReady, ShellInv, ShellTypeOK
    <3>2. engine'[p] = "serving"
      BY <2>3 DEF EngineReady, ShellInv, ShellTypeOK
    <3>3. QED BY <1>1, <3>1, <3>2 DEF KeptInv, Handles, Kills, Owned
  <2>4. CASE EngineRefused(p) \/ EngineDies(p)
    BY <1>2, <2>4 DEF EngineRefused, EngineDies, ShellInv, ShellTypeOK
  <2>5. QED BY <1>1, <1>5, <2>1, <2>2, <2>3, <2>4 DEF Watches, Answers
<1>6. CASE CliStarts \/ CliStops \/ Poll \/ UNCHANGED shellVars
  BY <1>2, <1>6 DEF CliStarts, CliStops, Poll, shellVars
<1>7. QED BY <1>1, <1>4, <1>5, <1>6 DEF ShellNext

-----------------------------------------------------------------------------
(* The invariant, and what it says                                         *)

\* It holds of a desktop that starts.
LEMMA ShellInvAtFirst == ASSUME ShellInit PROVE ShellInv
<1> USE NameAssumption, CountAssumption DEF ShellInit
<1>1. ShellTypeOK
  <2>1. Idle \in ThreadState /\ StartsAt("spawn", "setup") \in ThreadState
    BY DEF ThreadState, StartsAt, Idle
  <2>2. thread \in [Threads -> ThreadState]
    BY <2>1
  <2>3. binding \in Binding /\ ui \in [phase : Phase, count : Nat]
    BY DEF Binding, Unbound, Phase
  <2>4. deaths \in 0..MaxDeaths /\ clicks \in 0..MaxClicks /\ clis \in 0..MaxCli
    OBVIOUS
  <2>5. QED BY <2>2, <2>3, <2>4 DEF ShellTypeOK
<1>2. EngineInv /\ HandInv /\ CliInv /\ GoneInv
  BY DEF EngineInv, HandInv, CliInv, GoneInv, Owned, Handles, Kills, Unbound, StartsAt, Idle
<1>3. Main \in Threads /\ Recovery \subseteq Threads
  BY DEF Threads
<1>4. Spawned = {} /\ Recovering = {} /\ Pending = {Main}
  BY <1>3 DEF Spawned, Recovering, Pending, StartsAt, Idle
<1>5. Left = MaxRestarts - 1 /\ clicks = 0
  BY DEF Left
<1>6. BoundInv
  <2>1. Cardinality(Pending) = 1
    BY <1>4, FS_Singleton
  <2>2. Cap = MaxRestarts
    BY DEF Cap
  <2>3. 0 + Cardinality(Pending) + Left <= Cap /\ 0 <= Cap
    BY <1>5, <2>1, <2>2
  <2>4. Spawned = 1..0 /\ 0 \in 0..MaxPid
    BY <1>4
  <2>5. \A t \in Threads : thread[t].pc = "spawn" => thread[t].mode # "exit"
    BY DEF StartsAt, Idle
  <2>6. QED BY <2>3, <2>4, <2>5 DEF BoundInv
<1>7. SpareInv
  <2>1. Cardinality(Recovering) = 0
    BY <1>4, FS_EmptySet
  <2>2. (MaxRestarts - 1) + (MaxRestarts - 1) * MaxClicks = (MaxRestarts - 1) * (1 + MaxClicks)
    BY DEF ShellInit
  <2>3. 0 + Left + (MaxRestarts - 1) * (MaxClicks - clicks) <= Cardinality(Recovery)
    <3>1. MaxClicks - clicks = MaxClicks
      BY <1>5
    <3>2. Cardinality(Recovery) \in Nat /\ Cardinality(Recovery) >= (MaxRestarts - 1) * (1 + MaxClicks)
      BY RecoveryAssumption, FS_CardinalityType
    <3>3. 0 + Left = MaxRestarts - 1
      BY <1>5
    <3>4. QED BY <1>5, <2>2, <3>1, <3>2, <3>3
  <2>4. QED BY <2>1, <2>3 DEF SpareInv
<1>8. CalmInv
  <2>1. YoungInv
    BY <1>3, <1>4 DEF YoungInv, StartsAt, Idle
  <2>2. FaultInv /\ HeldInv /\ StaleInv /\ KeptInv
    BY <1>3 DEF FaultInv, HeldInv, StaleInv, KeptInv, Owned, Unbound, StartsAt
  <2>3. QED BY <2>1, <2>2 DEF CalmInv
<1>9. QED BY <1>1, <1>2, <1>6, <1>7, <1>8 DEF ShellInv

\* Every step keeps it.
LEMMA ShellInvKeeps ==
    ASSUME ShellInv, [ShellNext]_shellVars
    PROVE  ShellInv'
<1>1. ShellTypeOK'
  BY ShellTypeKeeps DEF ShellInv
<1>2. EngineInv' /\ HandInv' /\ CliInv' /\ GoneInv'
  BY EngineInvKeeps, HandInvKeeps, CliInvKeeps, GoneInvKeeps DEF ShellInv
<1>3. BoundInv' /\ SpareInv'
  BY <1>1, BoundInvKeeps, SpareInvKeeps DEF ShellInv
<1>4. CalmInv'
  BY YoungInvKeeps, FaultInvKeeps, HeldInvKeeps, StaleInvKeeps, KeptInvKeeps DEF CalmInv
<1>5. QED BY <1>1, <1>2, <1>3, <1>4 DEF ShellInv

\* The shell's inductive invariant: every engine in one hand, starts and
\* recovery threads counted against the cap, and, in a calm run, no engine
\* let go of while it serves.
LEMMA ShellInvAlways == ShellSpec => []ShellInv
<1>1. ShellInit => ShellInv
  BY ShellInvAtFirst
<1>2. ShellInv /\ [ShellNext]_shellVars => ShellInv'
  BY ShellInvKeeps
<1>3. QED BY <1>1, <1>2, PTL DEF ShellSpec

\* However failed starts, exits of engines and restarts by the user overlap,
\* for any cap, number of engines and number of clicks: no more engines are
\* spawned than the cap allows for the first start and for each click, and a
\* desktop at rest after a single disturbance is bound to the engine that
\* serves (EngineIsTracked, lib.rs and sidecar supervision).
THEOREM EngineIsTrackedAlways == ShellSpec => []EngineIsTracked
<1>1. ShellInv => EngineIsTracked
  <2>1. ASSUME ShellInv PROVE RestartsBounded
    <3>1. PICK n \in 0..MaxPid : Spawned = 1..n /\ n <= Cap
      BY <2>1 DEF ShellInv, BoundInv
    <3>2. Cap \in Nat /\ n \in Nat
      BY <2>1, CountsAreNumbers, CountAssumption DEF ShellInv
    <3>3. Spawned \subseteq 1..Cap
      BY <3>1, <3>2
    <3>4. QED BY <3>3 DEF RestartsBounded, Cap
  <2>2. ASSUME ShellInv PROVE NoOrphan
    <3>1. SUFFICES ASSUME Resting, app = "up", clicks = 0, deaths + clis <= 1,
                          NEW p \in Pid, engine[p] = "serving"
                   PROVE  binding = [st |-> "owned", pid |-> p]
      BY DEF NoOrphan
    <3>2. KeptInv
      BY <2>2, <3>1 DEF ShellInv, CalmInv, Calm
    <3>3. QED BY <3>1, <3>2 DEF KeptInv, Resting, Handles, Kills, Owned
  <2>3. QED BY <2>1, <2>2 DEF EngineIsTracked, ShellInv
<1>2. QED BY <1>1, ShellInvAlways, PTL
=============================================================================
