---------------------------- MODULE EffectiveTime ----------------------------
(***************************************************************************)
(* The effective time of a research: what the hours of its brief are       *)
(* compared with (clock.py, loop.py, round_store.py, main.py).             *)
(*                                                                         *)
(* One TimeBudget is shared by three kinds of threads without a lock.  The *)
(* compute thread opens a slice for the research of its tick, flushes it   *)
(* to the ledger on the way, and closes it when the tick ends.  The        *)
(* heartbeat thread flushes whatever slice is open.  A command that starts *)
(* a research opens a slice of nobody (its key is ""), and one that stops  *)
(* a research closes the slice it finds.  The row has two sums: total, in  *)
(* its JSON, compared and set with the rest of the research, and ledger, a *)
(* column that is only added to.  A tick starts from the larger one.       *)
(*                                                                         *)
(* Time is counted in units, SLICE_SECONDS is Quantum of them.             *)
(***************************************************************************)
EXTENDS Integers

CONSTANTS
    Researches, Commands,
    Found,          \* the researches that commands of this engine have just started
    Quantum,        \* SLICE_SECONDS
    Limit,          \* max_effective_hours
    MaxTime, MaxCuts, MaxLate,
    None

ASSUME TimeAssumption ==
    /\ Found \subseteq Researches
    /\ Quantum \in Nat \ {0} /\ Limit \in Nat
    /\ MaxTime \in Nat /\ MaxCuts \in Nat /\ MaxLate \in Nat
    /\ None \notin Researches

VARIABLES
    st,        \* status: running, idle (any other), gone
    total,     \* Research.effective_seconds, in state_json
    ledger,    \* column effective_seconds_ledger
    slice,     \* TimeBudget._slices[r], with the threads that hold a reference
    shared,    \* the age of TimeBudget._slices[""], or Closed
    tick,      \* ResearchLoop.run_once on the compute thread
    beat,      \* the heartbeat thread
    cmd,       \* the command each id stands for
    \* What the properties are about; no guard of the code reads it.
    time,      \* units since the start, the bound of a run
    late,      \* units the heartbeat was behind its period, or dead
    ran,       \* units in which a tick of the research was at work
    cut,       \* ticks of the research that a crash or an error ended
    stopped,   \* the researches a command stopped
    overlaps,  \* the researches whose slice two threads were at together
    cuts

rows == <<st, total, ledger>>
budget == <<slice, shared>>
ghosts == <<time, late, ran, cut, stopped, overlaps, cuts>>
vars == <<rows, budget, tick, beat, cmd, ghosts>>

Closed == -1
NoSlice == [age |-> Closed, saved |-> 0, held |-> {}]
NewSlice == [age |-> 0, saved |-> 0, held |-> {}]
IsOpen(r) == slice[r].age # Closed

\* A flush: the research and the seconds it adds.
NoFlush == [pc |-> "none", on |-> None, secs |-> 0]
NoTick == [pc |-> "idle", on |-> None, base |-> 0, fresh |-> FALSE,
           openBefore |-> FALSE, stage |-> 0, elapsed |-> 0, rest |-> 0,
           round |-> FALSE, next |-> "running", began |-> 0, flush |-> NoFlush]
NoBeat == [pc |-> "wait", todo |-> {}, age |-> 0, flush |-> NoFlush]
NoCmd == [pc |-> "unsent", on |-> None, op |-> "write", base |-> 0,
          fresh |-> FALSE, elapsed |-> 0]
Done == [NoCmd EXCEPT !.pc = "done"]

\* Between begin and the end of run_once.
Ticking == {"begun", "flush", "flushed", "rest", "commit"}

Larger(a, b) == IF a >= b THEN a ELSE b
Charged(r) == Larger(total[r], ledger[r])

Init ==
    /\ st = [r \in Researches |-> IF r \in Found THEN "running" ELSE "idle"]
    /\ total = [r \in Researches |-> 0]
    /\ ledger = [r \in Researches |-> 0]
    /\ slice = [r \in Researches |-> NoSlice]
    /\ shared = IF Found = {} THEN Closed ELSE 0
    /\ tick = NoTick
    /\ beat = NoBeat
    /\ cmd = [c \in Commands |-> NoCmd]
    /\ time = 0 /\ late = 0 /\ cuts = 0
    /\ ran = [r \in Researches |-> 0]
    /\ cut = [r \in Researches |-> 0]
    /\ stopped = {} /\ overlaps = {}

-----------------------------------------------------------------------------
(* Rows and slices *)

\* A write moves updated_at: what others loaded before will be refused.
CmdsStale(r) == [c \in Commands |-> IF cmd[c].on = r THEN [cmd[c] EXCEPT !.fresh = FALSE]
                                    ELSE cmd[c]]
TickStale(r) == IF tick.on = r THEN [tick EXCEPT !.fresh = FALSE] ELSE tick

Add(r, secs) ==
    ledger' = IF st[r] = "gone" THEN ledger ELSE [ledger EXCEPT ![r] = @ + secs]

Pop(r) == [slice EXCEPT ![r] = NoSlice]

\* The complete quanta of an open slice that last_persisted says are not saved.
Whole(units) == units - (units % Quantum)
Quanta(r) == IF IsOpen(r) THEN Whole(slice[r].age - slice[r].saved) ELSE 0

-----------------------------------------------------------------------------
(* TimeBudget.checkpoint, by the thread w: nothing locks it, so it reads   *)
(* the slice, adds to the ledger and advances last_persisted in steps of   *)
(* its own (the += is one, the interpreter does not switch inside).  f is  *)
(* where it is.                                                            *)

\* The flush f of another thread is at the slice of r.
Overlap(r, f) == overlaps' = IF f.on = r THEN overlaps \cup {r} ELSE overlaps

\* A reference to the slice outlives its removal from the dictionary.
Read(w, r, other) ==
    /\ Quanta(r) > 0
    /\ Overlap(r, other)
    /\ slice' = [slice EXCEPT ![r].held = @ \cup {w}]
Flushing(r) == [pc |-> "add", on |-> r, secs |-> Quanta(r)]

AddQuanta(f) == Add(f.on, f.secs)
Added(f) == [f EXCEPT !.pc = "advance"]

\* Slip: last_persisted is not advanced.
AdvanceNothing(w, f) == slice' = [slice EXCEPT ![f.on].held = @ \ {w}]
Advance(w, f) ==
    slice' = IF w \in slice[f.on].held
             THEN [slice EXCEPT ![f.on].saved = @ + f.secs, ![f.on].held = @ \ {w}]
             ELSE slice

-----------------------------------------------------------------------------
(* The tick: ResearchLoop.run_once, for one research at a time because     *)
(* there is one compute thread and one lease                               *)

Here(pcs) == tick.pc \in pcs
Move(pc) == tick' = [tick EXCEPT !.pc = pc]

\* Slip: the ledger is not looked at.
LoadTotal(r) ==
    /\ Here({"idle"}) /\ st[r] = "running"
    /\ tick' = [NoTick EXCEPT !.pc = "loaded", !.on = r, !.base = total[r], !.fresh = TRUE,
                              !.openBefore = (shared # Closed), !.began = ran[r]]
    /\ UNCHANGED <<rows, budget, beat, cmd, ghosts>>
\* The row is read and its total made the larger of the two sums.
TickLoad(r) ==
    /\ Here({"idle"}) /\ st[r] = "running"
    /\ tick' = [NoTick EXCEPT !.pc = "loaded", !.on = r, !.base = Charged(r), !.fresh = TRUE,
                              !.openBefore = (shared # Closed), !.began = ran[r]]
    /\ UNCHANGED <<rows, budget, beat, cmd, ghosts>>

\* The secrets are missing: the tick waits for the next one, or pauses the research.
TickLeaves ==
    /\ Here({"loaded"})
    /\ \/ UNCHANGED <<st, total, cmd>>
       \/ /\ tick.fresh
          /\ st' = [st EXCEPT ![tick.on] = "idle"]
          /\ total' = [total EXCEPT ![tick.on] = tick.base]
          /\ cmd' = CmdsStale(tick.on)
    /\ tick' = NoTick
    /\ UNCHANGED <<ledger, budget, beat, ghosts>>

TickBegin ==
    /\ Here({"loaded"})
    /\ slice' = IF IsOpen(tick.on) THEN slice ELSE [slice EXCEPT ![tick.on] = NewSlice]
    /\ Move("begun")
    /\ UNCHANGED <<rows, shared, beat, cmd, ghosts>>

\* persist_action, refused (TickFails) when somebody wrote the row meanwhile:
\* it starts the gathering, and repeats while a round is built and judged.
TickPersists ==
    /\ tick.fresh
    /\ \/ Here({"begun"}) /\ tick' = [tick EXCEPT !.pc = "flush", !.stage = 1]
       \/ Here({"flushed"}) /\ tick.stage \in {1, 2} /\ tick' = tick
    /\ cmd' = CmdsStale(tick.on)
    /\ UNCHANGED <<rows, budget, beat, ghosts>>

\* The action already is in the row.
TickGathers ==
    /\ Here({"begun"})
    /\ tick' = [tick EXCEPT !.pc = "flush", !.stage = 1]
    /\ UNCHANGED <<rows, budget, beat, cmd, ghosts>>

\* The draft of a round is built, and its review begins.
TickBuilds ==
    /\ Here({"flushed"}) /\ tick.stage = 1
    /\ tick' = [tick EXCEPT !.pc = "flush", !.stage = 2]
    /\ UNCHANGED <<rows, budget, beat, cmd, ghosts>>

\* How the tick ends: a round whose review passed (now, or before a crash), a
\* review that failed, or a stop before any.  A round goes on only with hours left.
Verdicts ==
    {v \in [round : BOOLEAN, next : {"running", "idle"}] :
        /\ v.round => tick.stage # 1
        /\ v.round /\ tick.base >= Limit => v.next = "idle"
        /\ ~v.round /\ tick.stage # 2 => v.next = "idle"}
TickDecides ==
    /\ Here({"begun"}) \/ (Here({"flushed"}) /\ tick.stage \in {1, 2})
    /\ \E v \in Verdicts :
          tick' = [tick EXCEPT !.pc = "flush", !.stage = 3, !.round = v.round, !.next = v.next]
    /\ UNCHANGED <<rows, budget, beat, cmd, ghosts>>

\* One of the three checkpoints of a tick.
TickReads ==
    /\ Here({"flush"}) /\ tick.flush.pc = "none"
    /\ \/ /\ Read("tick", tick.on, beat.flush)
          /\ tick' = [tick EXCEPT !.flush = Flushing(tick.on)]
       \/ /\ Quanta(tick.on) <= 0
          /\ Move("flushed")
          /\ UNCHANGED <<slice, overlaps>>
    /\ UNCHANGED <<rows, shared, beat, cmd, time, late, ran, cut, stopped, cuts>>
TickAdds ==
    /\ Here({"flush"}) /\ tick.flush.pc = "add"
    /\ AddQuanta(tick.flush)
    /\ tick' = [tick EXCEPT !.flush = Added(@)]
    /\ UNCHANGED <<st, total, budget, beat, cmd, ghosts>>
TickAdvances ==
    /\ Here({"flush"}) /\ tick.flush.pc = "advance"
    /\ Advance("tick", tick.flush)
    /\ tick' = [tick EXCEPT !.pc = "flushed", !.flush = NoFlush]
    /\ UNCHANGED <<rows, shared, beat, cmd, ghosts>>

\* TimeBudget.finish with the store: the slice of the research, or nobody's.
TickCloses ==
    /\ Here({"flushed"}) /\ tick.stage = 3
    /\ LET own == IsOpen(tick.on)
           lent == ~own /\ shared # Closed
           age == IF own THEN slice[tick.on].age ELSE IF lent THEN shared ELSE 0
           saved == IF own THEN slice[tick.on].saved ELSE 0
       IN  /\ tick' = [tick EXCEPT !.pc = "rest", !.elapsed = age,
                                   !.rest = Larger(0, age - saved)]
           /\ slice' = Pop(tick.on)
           /\ shared' = IF lent THEN Closed ELSE shared
    /\ Overlap(tick.on, beat.flush)
    /\ UNCHANGED <<rows, beat, cmd, time, late, ran, cut, stopped, cuts>>
\* Slip: the fragment after the last whole quantum is left out of the ledger.
RestForgotten ==
    /\ Here({"rest"})
    /\ Move("commit")
    /\ UNCHANGED <<rows, budget, beat, cmd, ghosts>>
TickRests ==
    /\ Here({"rest"})
    /\ Add(tick.on, tick.rest)
    /\ Move("commit")
    /\ UNCHANGED <<st, total, budget, beat, cmd, ghosts>>

\* commit_round_decision; a busy database pauses the research as it was loaded,
\* and a row somebody wrote meanwhile is left to him.
TickCommits ==
    /\ Here({"commit"}) /\ st[tick.on] # "gone"
    /\ IF tick.fresh
       THEN /\ \/ /\ st' = [st EXCEPT ![tick.on] = tick.next]
                  /\ total' = [total EXCEPT ![tick.on] = tick.base + tick.elapsed]
               \/ /\ st' = [st EXCEPT ![tick.on] = "idle"]
                  /\ total' = [total EXCEPT ![tick.on] = tick.base]
            /\ cmd' = CmdsStale(tick.on)
       ELSE UNCHANGED <<st, total, cmd>>
    /\ tick' = NoTick
    /\ UNCHANGED <<ledger, budget, beat, ghosts>>

\* Slip: the slice of a tick that raised stays open.
SliceKept(r) == slice
\* The finally of _run_once_bound.
Dropped(r) == Pop(r)

\* An exception: the slice is dropped, and the failure is written if nobody
\* writes the row at that moment; a failure too many pauses the research.
TickFails ==
    /\ Here({"loaded"} \cup Ticking) /\ st[tick.on] # "gone"
    /\ cuts < MaxCuts /\ cuts' = cuts + 1
    /\ slice' = Dropped(tick.on)
    /\ \/ UNCHANGED <<st, cmd>>
       \/ /\ \/ UNCHANGED st
             \/ st' = [st EXCEPT ![tick.on] = "idle"]
          /\ cmd' = CmdsStale(tick.on)
    /\ cut' = [cut EXCEPT ![tick.on] = @ + IF Here(Ticking) THEN 1 ELSE 0]
    /\ Overlap(tick.on, beat.flush)
    /\ tick' = NoTick
    /\ UNCHANGED <<total, ledger, shared, beat, time, late, ran, stopped>>

\* The research was deleted: the tick drops its slice, and the one of nobody
\* when that was opened during the tick.
TickRemoved ==
    /\ ~Here({"idle"}) /\ st[tick.on] = "gone"
    /\ slice' = Dropped(tick.on)
    /\ shared' = IF tick.openBefore THEN shared ELSE Closed
    /\ tick' = NoTick
    /\ UNCHANGED <<rows, beat, cmd, ghosts>>

Tick ==
    \/ \E r \in Researches : TickLoad(r)
    \/ TickLeaves \/ TickBegin \/ TickPersists \/ TickGathers \/ TickBuilds \/ TickDecides
    \/ TickReads \/ TickAdds \/ TickAdvances
    \/ TickCloses \/ TickRests \/ TickCommits \/ TickFails \/ TickRemoved

-----------------------------------------------------------------------------
(* The heartbeat: start_budget_heartbeats                                  *)

BeatWakes ==
    /\ beat.pc = "wait" /\ beat.age >= Quantum
    /\ beat' = [beat EXCEPT !.pc = "round", !.todo = {r \in Researches : IsOpen(r)}]
    /\ UNCHANGED <<rows, budget, tick, cmd, ghosts>>
BeatReads ==
    /\ beat.pc = "round" /\ beat.flush.pc = "none"
    /\ \E r \in beat.todo :
          \/ /\ Read("beat", r, tick.flush)
             /\ beat' = [beat EXCEPT !.todo = @ \ {r}, !.flush = Flushing(r)]
          \/ /\ Quanta(r) <= 0
             /\ beat' = [beat EXCEPT !.todo = @ \ {r}]
             /\ UNCHANGED <<slice, overlaps>>
    /\ UNCHANGED <<rows, shared, tick, cmd, time, late, ran, cut, stopped, cuts>>
BeatAdds ==
    /\ beat.flush.pc = "add"
    /\ AddQuanta(beat.flush)
    /\ beat' = [beat EXCEPT !.flush = Added(@)]
    /\ UNCHANGED <<st, total, budget, tick, cmd, ghosts>>
BeatAdvances ==
    /\ beat.flush.pc = "advance"
    /\ Advance("beat", beat.flush)
    /\ beat' = [beat EXCEPT !.flush = NoFlush]
    /\ UNCHANGED <<rows, shared, tick, cmd, ghosts>>
BeatWaits ==
    /\ beat.pc = "round" /\ beat.flush.pc = "none" /\ beat.todo = {}
    /\ beat' = NoBeat
    /\ UNCHANGED <<rows, budget, tick, cmd, ghosts>>

\* Nothing catches what a flush raises: a busy database, or a slice opened or
\* closed while the slices are listed, ends the thread, and nobody restarts it.
BeatDies ==
    /\ cuts < MaxCuts /\ cuts' = cuts + 1
    /\ \/ beat.flush.pc = "add"
       \/ beat.pc = "wait" /\ beat.age >= Quantum
             /\ (shared # Closed \/ \E r \in Researches : IsOpen(r))
    /\ beat' = [NoBeat EXCEPT !.pc = "dead"]
    /\ slice' = [r \in Researches |-> [slice[r] EXCEPT !.held = @ \ {"beat"}]]
    /\ UNCHANGED <<rows, shared, tick, cmd, time, late, ran, cut, stopped, overlaps>>

Beat == BeatWakes \/ BeatReads \/ BeatAdds \/ BeatAdvances \/ BeatWaits \/ BeatDies

-----------------------------------------------------------------------------
(* Commands: ResearchCommandService._save                                  *)

Ops == {"start", "stop", "write"}
CmdLoad(c, r, op) ==
    /\ cmd[c].pc = "unsent" /\ st[r] # "gone"
    /\ op = "start" => st[r] = "idle"
    /\ op = "stop" => st[r] = "running"
    /\ cmd' = [cmd EXCEPT ![c] = [NoCmd EXCEPT !.pc = "loaded", !.on = r, !.op = op,
                                               !.base = total[r], !.fresh = TRUE]]
    /\ UNCHANGED <<rows, budget, tick, beat, ghosts>>

\* The budget is told before the row is written: a start opens the slice of
\* nobody, a stop closes the one it finds and charges its age.
CmdClock(c) ==
    /\ cmd[c].pc = "loaded"
    /\ LET r == cmd[c].on
           own == cmd[c].op = "stop" /\ IsOpen(r)
           lent == cmd[c].op = "stop" /\ ~own /\ shared # Closed
       IN  /\ cmd' = [cmd EXCEPT ![c].pc = "clocked",
                                 ![c].elapsed = IF own THEN slice[r].age
                                                ELSE IF lent THEN shared ELSE 0]
           /\ slice' = IF own THEN Pop(r) ELSE slice
           /\ shared' = IF lent THEN Closed
                        ELSE IF cmd[c].op = "start" /\ shared = Closed THEN 0
                        ELSE shared
           /\ stopped' = IF cmd[c].op = "stop" THEN stopped \cup {r} ELSE stopped
    /\ UNCHANGED <<rows, tick, beat, time, late, ran, cut, overlaps, cuts>>

\* Slip: a stop writes over what a tick charged after the row was loaded.
Overwrite(c) == TRUE
\* The compare of the compare-and-set.
Fits(c) == cmd[c].fresh /\ st[cmd[c].on] # "gone"

Status(op, old) == CASE op = "start" -> "running" [] op = "stop" -> "idle" [] OTHER -> old
CmdSave(c) ==
    /\ cmd[c].pc = "clocked"
    /\ LET r == cmd[c].on
       IN  IF Fits(c)
           THEN /\ st' = [st EXCEPT ![r] = Status(cmd[c].op, @)]
                /\ total' = [total EXCEPT ![r] = cmd[c].base + cmd[c].elapsed]
                /\ cmd' = [CmdsStale(r) EXCEPT ![c] = Done]
                /\ tick' = TickStale(r)
           ELSE /\ cmd' = [cmd EXCEPT ![c] = Done]
                /\ UNCHANGED <<st, total, tick>>
    /\ UNCHANGED <<ledger, budget, beat, ghosts>>

Delete(c, r) ==
    /\ cmd[c].pc = "unsent" /\ st[r] # "gone"
    /\ st' = [st EXCEPT ![r] = "gone"]
    /\ cmd' = [CmdsStale(r) EXCEPT ![c] = Done]
    /\ tick' = TickStale(r)
    /\ UNCHANGED <<total, ledger, budget, beat, ghosts>>

Command(c) ==
    \/ \E r \in Researches, op \in Ops : CmdLoad(c, r, op)
    \/ CmdClock(c) \/ CmdSave(c)
    \/ \E r \in Researches : Delete(c, r)

-----------------------------------------------------------------------------
(* The clock, and the end of the process                                   *)

\* A unit passes; MaxLate bounds how far a living heartbeat falls behind its
\* period, one that died is late for ever.
Prompt == beat.pc = "wait" /\ beat.age < Quantum
AtWork(r) == tick.on = r /\ Here(Ticking \ {"rest", "commit"})
Pass ==
    /\ time < MaxTime /\ (Prompt \/ beat.pc = "dead" \/ late < MaxLate)
    /\ time' = time + 1
    /\ late' = IF Prompt THEN late ELSE late + 1
    /\ slice' = [r \in Researches |-> IF IsOpen(r) THEN [slice[r] EXCEPT !.age = @ + 1]
                                      ELSE slice[r]]
    /\ shared' = IF shared = Closed THEN Closed ELSE shared + 1
    /\ beat' = IF Prompt THEN [beat EXCEPT !.age = @ + 1] ELSE beat
    /\ ran' = [r \in Researches |-> IF AtWork(r) THEN ran[r] + 1 ELSE ran[r]]
    /\ UNCHANGED <<rows, tick, cmd, cut, stopped, overlaps, cuts>>

\* Rows survive the process; the slices, and whatever its threads were at, do not.
Crash ==
    /\ cuts < MaxCuts
    /\ cuts' = cuts + 1
    /\ cut' = [r \in Researches |->
                 IF tick.on = r /\ Here(Ticking) THEN cut[r] + 1 ELSE cut[r]]
    /\ slice' = [r \in Researches |-> NoSlice]
    /\ shared' = Closed
    /\ tick' = NoTick
    /\ beat' = NoBeat
    /\ cmd' = [c \in Commands |-> IF cmd[c].pc = "unsent" THEN NoCmd ELSE Done]
    /\ UNCHANGED <<rows, time, late, ran, stopped, overlaps>>

Next == Tick \/ Beat \/ (\E c \in Commands : Command(c)) \/ Pass \/ Crash

Spec == Init /\ [][Next]_vars

-----------------------------------------------------------------------------
Threads == {"tick", "beat"}
Slices == [age : Nat \cup {Closed}, saved : Nat, held : SUBSET Threads]
Flushes == [pc : {"none", "add", "advance"}, on : Researches \cup {None}, secs : Nat]
Ticks == [pc : {"idle", "loaded"} \cup Ticking, on : Researches \cup {None}, base : Nat,
          fresh : BOOLEAN, openBefore : BOOLEAN, stage : {0, 1, 2, 3}, elapsed : Nat, rest : Nat,
          round : BOOLEAN, next : {"running", "idle"}, began : Nat, flush : Flushes]
Beats == [pc : {"wait", "round", "dead"}, todo : SUBSET Researches, age : Nat, flush : Flushes]
Cmds == [pc : {"unsent", "loaded", "clocked", "done"}, on : Researches \cup {None}, op : Ops,
         base : Nat, fresh : BOOLEAN, elapsed : Nat]

TypeOK ==
    /\ st \in [Researches -> {"running", "idle", "gone"}]
    /\ total \in [Researches -> Nat] /\ ledger \in [Researches -> Nat]
    /\ slice \in [Researches -> Slices] /\ shared \in Nat \cup {Closed}
    /\ tick \in Ticks /\ beat \in Beats /\ cmd \in [Commands -> Cmds]
    /\ time \in Nat /\ late \in Nat /\ cuts \in Nat
    /\ ran \in [Researches -> Nat] /\ cut \in [Researches -> Nat]
    /\ stopped \subseteq Researches /\ overlaps \subseteq Researches

\* A research no command has stopped, and its row is there.  A stop closes the
\* slice of nobody or that of a tick and tells the ledger nothing: see the README.
Undisturbed(r) == r \notin stopped /\ st[r] # "gone"

(* The ledger, which survives, is never behind the total, so that a tick    *)
(* that lost its slice or its write is made good by the next one            *)
(* (loop.py:834).                                                           *)
LedgerLeads == \A r \in Researches : Undisturbed(r) => total[r] <= ledger[r]

(* A research is charged for the time of its own ticks, not while it waits  *)
(* in the queue or for what the slices of others ran, as long as no two     *)
(* threads flush one slice at the same moment (clock.py:17,51).             *)
ChargedForItsTicks == \A r \in Researches :
    Undisturbed(r) /\ r \notin overlaps => Charged(r) <= ran[r]

(* Neither sum is above what was run, whoever flushes, fails, is refused or *)
(* dies in between.                                                         *)
TimeIsNotOvercharged == TypeOK /\ LedgerLeads /\ ChargedForItsTicks

\* What one interruption of a tick may lose: nearly two periods, because the
\* heartbeat saves whole quanta of a slice that began between two of its beats.
Loss == 2 * Quantum - 1 + late
Interruptions(r) == cut[r] + IF tick.on = r /\ Here(Ticking) THEN 1 ELSE 0

(* Time is lost only when a crash or an error ends a tick, and then little  *)
(* of it, however the commands of the user make ticks lose their write      *)
(* (clock.py:106).                                                          *)
LossIsBounded == \A r \in Researches : Undisturbed(r) =>
    ran[r] <= Charged(r) + Interruptions(r) * Loss

(* The hours the user gave end a research: the tick that begins when they   *)
(* have been run commits no round that goes on, though the time was run by  *)
(* ticks whose writes were refused, or by an engine that died               *)
(* (loop.py:1334).                                                          *)
SpentEnds ==
    tick.stage = 3 /\ tick.round /\ Undisturbed(tick.on)
       /\ tick.began >= Limit + cut[tick.on] * Loss
    => tick.next = "idle"

(* What was run is charged, and what is charged ends the research.          *)
TimeIsNotLost == LossIsBounded /\ SpentEnds

(* Time that was charged is never given back: a command that loaded the row *)
(* before a tick committed, a tick that loaded it before a command, and a   *)
(* restart keep both sums (main.py:361, loop.py:976).                       *)
NeverGivenBack ==
    [][\A r \in Researches : total'[r] >= total[r] /\ ledger'[r] >= ledger[r]]_vars

-----------------------------------------------------------------------------
(* Stated and not kept: see the README.                                    *)

(* An open slice never charges another research (clock.py:17).              *)
OwnTimeOnly == \A r \in Researches :
    st[r] # "gone" /\ r \notin overlaps => Charged(r) <= ran[r]

(* A crash loses at most one period (clock.py:106).                         *)
LosesOnePeriod == \A r \in Researches : Undisturbed(r) =>
    ran[r] <= Charged(r) + Interruptions(r) * (Quantum + late)

(* Two flushes of one slice charge it once.                                 *)
ChargedOnce == \A r \in Researches : Undisturbed(r) => Charged(r) <= ran[r]
=============================================================================
