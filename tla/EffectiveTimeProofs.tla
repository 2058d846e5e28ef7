------------------------ MODULE EffectiveTimeProofs ------------------------
(***************************************************************************)
(* Neither sum of a research falls, neither is above what was run, and     *)
(* what was run is charged but for a bounded loss, for all sets of         *)
(* researches and commands and every quantum, limit and bound.             *)
(***************************************************************************)
EXTENDS EffectiveTime, TLAPS

-----------------------------------------------------------------------------
(* What carries the properties                                             *)

Working == {"begun", "flush", "flushed"}

\* Where the threads can be.
TickShape ==
    /\ tick.pc = "idle" <=> tick.on = None
    /\ tick.flush.pc = "none" <=> tick.flush.on = None
    /\ tick.flush.pc # "none" => tick.pc = "flush" /\ tick.flush.on = tick.on
BeatShape ==
    /\ beat.flush.pc = "none" <=> beat.flush.on = None
    /\ beat.flush.pc # "none" => beat.pc = "round"
CmdShape ==
    /\ \A c \in Commands : cmd[c].pc \in {"loaded", "clocked"} => cmd[c].on \in Researches
    /\ \A c \in Commands : cmd[c].pc \in {"unsent", "done"} => ~cmd[c].fresh

\* A slice is open only while its tick works, and held only by a flush of it.
SliceFits(r) ==
    /\ IsOpen(r) => tick.on = r /\ tick.pc \in Working
    /\ ~IsOpen(r) => slice[r] = NoSlice
    /\ "tick" \in slice[r].held => tick.flush.on = r
    /\ "beat" \in slice[r].held => beat.flush.on = r
    /\ Undisturbed(r) /\ tick.on = r /\ tick.pc \in Working => IsOpen(r)
SliceShape == \A r \in Researches : SliceFits(r)

Shape == TickShape /\ BeatShape /\ CmdShape /\ SliceShape

\* Who may still write a row read it after its last write.
FreshInv ==
    /\ tick.fresh => tick.pc # "idle" /\ st[tick.on] # "gone" /\ tick.base >= total[tick.on]
    /\ \A c \in Commands : cmd[c].fresh =>
          cmd[c].on \in Researches /\ cmd[c].base = total[cmd[c].on]

\* What a flush has added to the ledger and will add to last_persisted.
Owed(w, f, r) ==
    IF f.pc = "advance" /\ f.on = r /\ w \in slice[r].held THEN f.secs ELSE 0
Owing(r) == Owed("tick", tick.flush, r) + Owed("beat", beat.flush, r)

\* The ledger is ahead of what the tick will write.
Leads(r) ==
    /\ total[r] <= ledger[r]
    /\ tick.on = r => tick.base <= ledger[r]
    /\ IsOpen(r) => tick.base + slice[r].saved + Owing(r) <= ledger[r]
    /\ tick.on = r /\ tick.pc = "rest" =>
          tick.base + tick.elapsed <= ledger[r] + tick.rest
    /\ tick.on = r /\ tick.pc = "commit" => tick.base + tick.elapsed <= ledger[r]
LeadInv == \A r \in Researches : Undisturbed(r) => Leads(r)
StopInv ==
    \A c \in Commands : cmd[c].pc \in {"loaded", "clocked"} /\ cmd[c].on \notin stopped =>
        /\ cmd[c].elapsed = 0
        /\ cmd[c].pc = "clocked" => cmd[c].op # "stop"

\* Alone r: no two threads were at the slice of r together.
Alone(r) == Undisturbed(r) /\ r \notin overlaps
\* A flush of r holds its slice, and takes no more than the slice has.
Holds(w, f, r) ==
    f.on = r => IsOpen(r) /\ w \in slice[r].held /\ slice[r].saved + f.secs <= slice[r].age
ChargedOnceFor(r) ==
    /\ IsOpen(r) => /\ slice[r].saved <= slice[r].age
                    /\ ledger[r] + slice[r].age <= ran[r] + slice[r].saved + Owing(r)
    /\ ~IsOpen(r) => ledger[r] <= ran[r]
    /\ tick.on = r /\ tick.pc = "rest" => ledger[r] + tick.rest <= ran[r]
    /\ Holds("tick", tick.flush, r) /\ Holds("beat", beat.flush, r)
    /\ tick.flush.on = r => beat.flush.on # r
ChargeInv == \A r \in Researches : Alone(r) => ChargedOnceFor(r)

Inv == TypeOK /\ Shape /\ FreshInv /\ LeadInv /\ StopInv /\ ChargeInv

-----------------------------------------------------------------------------
(* Operators and records                                                   *)

(* A flush takes no more than what is not saved (clock.py:51).              *)
LEMMA QuantaFit ==
  ASSUME TypeOK, NEW r \in Researches, Quanta(r) > 0
  PROVE  IsOpen(r) /\ Quanta(r) \in Nat /\ slice[r].saved + Quanta(r) <= slice[r].age
<1>1. slice[r] \in Slices
  BY DEF TypeOK
<1>2. \A u \in Int : Whole(u) \in Int /\ Whole(u) <= u
  BY TimeAssumption DEF Whole
<1>3. IsOpen(r)
  BY DEF Quanta
<1>4. slice[r].age \in Nat /\ slice[r].saved \in Nat
  BY <1>1, <1>3 DEF Slices, IsOpen
<1>5. Quanta(r) \in Int /\ Quanta(r) <= slice[r].age - slice[r].saved
  BY <1>2, <1>3, <1>4 DEF Quanta
<1>6. QED BY <1>3, <1>4, <1>5

(* The records a thread starts from, and a command ends with.               *)
LEMMA Records ==
  /\ NoFlush \in Flushes /\ NoSlice \in Slices /\ NewSlice \in Slices
  /\ NoTick \in Ticks /\ NoBeat \in Beats /\ NoCmd \in Cmds /\ Done \in Cmds
<1>1. NoFlush \in Flushes /\ NoSlice \in Slices /\ NewSlice \in Slices
  BY DEF NoFlush, Flushes, NoSlice, NewSlice, Slices, Closed
<1>2. NoTick \in Ticks /\ NoBeat \in Beats
  BY <1>1 DEF NoTick, Ticks, NoBeat, Beats
<1>3. NoCmd \in Cmds
  BY DEF NoCmd, Cmds, Ops
<1>4. Done \in Cmds
  BY <1>3 DEF Done, Cmds
<1>5. QED BY <1>1, <1>2, <1>3, <1>4

(* Another write makes what a command read stale, and changes nothing else. *)
LEMMA CmdsStaleIs ==
  ASSUME TypeOK, NEW r
  PROVE  /\ CmdsStale(r) \in [Commands -> Cmds]
         /\ \A c \in Commands :
              /\ CmdsStale(r)[c].pc = cmd[c].pc /\ CmdsStale(r)[c].on = cmd[c].on
              /\ CmdsStale(r)[c].op = cmd[c].op /\ CmdsStale(r)[c].base = cmd[c].base
              /\ CmdsStale(r)[c].elapsed = cmd[c].elapsed
              /\ CmdsStale(r)[c].fresh <=> cmd[c].fresh /\ cmd[c].on # r
<1>1. ASSUME NEW x \in Cmds PROVE [x EXCEPT !.fresh = FALSE] \in Cmds
  BY DEF Cmds
<1>2. \A c \in Commands : cmd[c] \in Cmds /\ [cmd[c] EXCEPT !.fresh = FALSE] \in Cmds
  BY <1>1 DEF TypeOK
<1>3. CmdsStale(r) \in [Commands -> Cmds]
  BY <1>2 DEF CmdsStale
<1>4. ASSUME NEW c \in Commands
      PROVE  /\ CmdsStale(r)[c].pc = cmd[c].pc /\ CmdsStale(r)[c].on = cmd[c].on
             /\ CmdsStale(r)[c].op = cmd[c].op /\ CmdsStale(r)[c].base = cmd[c].base
             /\ CmdsStale(r)[c].elapsed = cmd[c].elapsed
             /\ CmdsStale(r)[c].fresh <=> cmd[c].fresh /\ cmd[c].on # r
  <2>1. cmd[c] \in Cmds
    BY DEF TypeOK
  <2>2. QED BY <2>1 DEF CmdsStale, Cmds
<1>5. QED BY <1>3, <1>4

(* The same for the tick.                                                   *)
LEMMA TickStaleIs ==
  ASSUME TypeOK, NEW r
  PROVE  /\ TickStale(r) \in Ticks
         /\ TickStale(r).pc = tick.pc /\ TickStale(r).on = tick.on
         /\ TickStale(r).base = tick.base /\ TickStale(r).elapsed = tick.elapsed
         /\ TickStale(r).rest = tick.rest /\ TickStale(r).flush = tick.flush
         /\ TickStale(r).fresh <=> tick.fresh /\ tick.on # r
  BY DEF TickStale, TypeOK, Ticks

(* A tick that has begun to load works for a research of the table.         *)
LEMMA TickHasResearch ==
  ASSUME TypeOK, TickShape, tick.pc # "idle"
  PROVE  tick.on \in Researches /\ slice[tick.on] \in Slices
  BY DEF TypeOK, TickShape, Ticks

(* The numbers an argument about one research is about.                     *)
LEMMA Numbers ==
  ASSUME TypeOK, NEW r \in Researches
  PROVE  /\ total[r] \in Nat /\ ledger[r] \in Nat /\ ran[r] \in Nat /\ Owing(r) \in Nat
         /\ slice[r].saved \in Nat /\ slice[r].age \in Int
         /\ IsOpen(r) => slice[r].age \in Nat
         /\ tick.base \in Nat /\ tick.elapsed \in Nat /\ tick.rest \in Nat
         /\ tick.flush.secs \in Nat /\ beat.flush.secs \in Nat
<1>1. tick.flush \in Flushes /\ beat.flush \in Flushes /\ slice[r] \in Slices
  BY DEF TypeOK, Ticks, Beats
<1>2. Owing(r) \in Nat /\ tick.flush.secs \in Nat /\ beat.flush.secs \in Nat
  BY <1>1 DEF Owing, Owed, Flushes
<1>3. /\ slice[r].saved \in Nat /\ slice[r].age \in Int
      /\ IsOpen(r) => slice[r].age \in Nat
  BY <1>1 DEF Slices, IsOpen, Closed
<1>4. QED BY <1>2, <1>3 DEF TypeOK, Ticks

(* Slices of a tick that does not work are closed.                          *)
LEMMA ClosedOutside ==
  ASSUME Inv, tick.pc \notin Working
  PROVE  \A r \in Researches : ~IsOpen(r) /\ slice[r] = NoSlice
  BY DEF Inv, Shape, SliceShape, SliceFits

(* What a closed slice, and one that opens, look like.                      *)
LEMMA Slots ==
  /\ NoSlice.age = Closed /\ NoSlice.saved = 0 /\ NoSlice.held = {}
  /\ NewSlice.age = 0 /\ NewSlice.saved = 0 /\ NewSlice.held = {}
  BY DEF NoSlice, NewSlice

\* The slice x when the flush of n seconds by w is complete.
Flushed(x, n, w) == [x EXCEPT !.saved = @ + n, !.held = @ \ {w}]

(* It is older by nothing, saved by n, and no longer held by w.             *)
LEMMA FlushedIs ==
  ASSUME NEW x \in Slices, NEW n \in Nat, NEW w
  PROVE  /\ Flushed(x, n, w) \in Slices
         /\ Flushed(x, n, w).age = x.age /\ Flushed(x, n, w).saved = x.saved + n
         /\ Flushed(x, n, w).held = x.held \ {w}
<1>1. x.saved + n \in Nat /\ x.held \ {w} \subseteq Threads
  BY DEF Slices
<1>2. QED BY <1>1 DEF Flushed, Slices

(* What an open slice has not told the ledger is time that was run.         *)
LEMMA SlicesCover ==
  ASSUME TypeOK, NEW r \in Researches, ChargedOnceFor(r)
  PROVE  ledger[r] <= ran[r]
<1>1. ledger[r] \in Nat /\ ran[r] \in Nat
  BY DEF TypeOK
<1>2. CASE ~IsOpen(r)
  BY <1>2 DEF ChargedOnceFor
<1>3. CASE IsOpen(r)
  <2>1. slice[r] \in Slices
    BY DEF TypeOK
  <2>2. slice[r].saved \in Nat /\ slice[r].age \in Nat
    BY <1>3, <2>1 DEF Slices, IsOpen
  <2>3. Owing(r) <= slice[r].age - slice[r].saved /\ Owing(r) \in Nat
    <3>1. tick.flush \in Flushes /\ beat.flush \in Flushes
      BY DEF TypeOK, Ticks, Beats
    <3>2. QED BY <1>3, <2>2, <3>1 DEF ChargedOnceFor, Holds, Owing, Owed, Flushes
  <2>4. QED BY <1>1, <1>3, <2>2, <2>3 DEF ChargedOnceFor
<1>4. QED BY <1>2, <1>3

-----------------------------------------------------------------------------
(* Kinds of steps                                                          *)

(* A tick that moves on between two flushes.                                *)
LEMMA QuietTick ==
  ASSUME Inv, tick' \in Ticks, cmd' \in [Commands -> Cmds],
         tick'.on = tick.on, tick'.base = tick.base, tick'.fresh = tick.fresh,
         tick'.flush = tick.flush, tick.flush.pc = "none",
         tick.pc \in Working, tick'.pc \in Working,
         \A c \in Commands :
            /\ cmd'[c].pc = cmd[c].pc /\ cmd'[c].on = cmd[c].on /\ cmd'[c].op = cmd[c].op
            /\ cmd'[c].base = cmd[c].base /\ cmd'[c].elapsed = cmd[c].elapsed
            /\ cmd'[c].fresh => cmd[c].fresh,
         UNCHANGED <<rows, budget, beat, ghosts>>
  PROVE  Inv'
<1> USE DEF Inv, rows, budget, ghosts
<1>1. TypeOK'
  BY DEF TypeOK
<1>2. Shape'
  <2>1. TickShape'
    BY DEF Shape, TickShape, Working, TypeOK, Ticks, Flushes
  <2>2. BeatShape' /\ CmdShape'
    BY DEF Shape, BeatShape, CmdShape, TypeOK, Cmds
  <2>3. SliceShape'
    BY DEF Shape, SliceShape, SliceFits, IsOpen, Undisturbed
  <2>4. QED BY <2>1, <2>2, <2>3 DEF Shape
<1>3. FreshInv'
  BY DEF FreshInv, Working
<1>4. LeadInv'
  BY DEF LeadInv, Leads, Undisturbed, IsOpen, Owing, Owed, Working
<1>5. StopInv'
  BY DEF StopInv
<1>6. ChargeInv'
  BY DEF ChargeInv, ChargedOnceFor, Alone, Undisturbed, IsOpen, Holds, Owing, Owed, Working
<1>7. QED BY <1>1, <1>2, <1>3, <1>4, <1>5, <1>6

(* The heartbeat between two flushes.                                       *)
LEMMA QuietBeat ==
  ASSUME Inv, beat' \in Beats, beat.flush.pc = "none", beat'.flush.pc = "none",
         beat'.flush.on = None,
         UNCHANGED <<rows, budget, tick, cmd, ghosts>>
  PROVE  Inv'
<1> USE DEF Inv, rows, budget, ghosts
<1>1. TypeOK'
  BY DEF TypeOK
<1>2. Shape'
  BY DEF Shape, TickShape, BeatShape, CmdShape, SliceShape, SliceFits, IsOpen, Undisturbed
<1>3. FreshInv' /\ StopInv'
  BY DEF FreshInv, StopInv
<1>4. LeadInv'
  BY DEF LeadInv, Leads, Undisturbed, IsOpen, Owing, Owed
<1>5. ChargeInv'
  BY TimeAssumption DEF ChargeInv, ChargedOnceFor, Alone, Undisturbed, IsOpen, Holds, Owing, Owed
<1>6. QED BY <1>1, <1>2, <1>3, <1>4, <1>5

(* A step of a command that leaves the rows alone.                          *)
LEMMA QuietCommand ==
  ASSUME Inv, cmd' \in [Commands -> Cmds], shared' \in Nat \cup {Closed},
         CmdShape', FreshInv', StopInv',
         stopped \subseteq stopped', stopped' \subseteq Researches,
         UNCHANGED <<rows, slice, tick, beat, time, late, ran, cut, overlaps, cuts>>
  PROVE  Inv'
<1> USE DEF Inv, rows
<1>1. TypeOK'
  BY DEF TypeOK
<1>2. Shape'
  BY DEF Shape, TickShape, BeatShape, SliceShape, SliceFits, IsOpen, Undisturbed
<1>3. LeadInv'
  BY DEF LeadInv, Leads, Undisturbed, IsOpen, Owing, Owed
<1>4. ChargeInv'
  BY DEF ChargeInv, ChargedOnceFor, Alone, Undisturbed, IsOpen, Holds, Owing, Owed
<1>5. QED BY <1>1, <1>2, <1>3, <1>4

(* The end of a tick, however it ends: no slice is left open, and what was  *)
(* written of the row is covered by the ledger.                             *)
LEMMA TickEnds ==
  ASSUME Inv, TypeOK', BeatShape', CmdShape', StopInv',
         tick' = NoTick, \A r \in Researches : slice'[r] = NoSlice,
         \A c \in Commands : cmd'[c].fresh =>
            cmd'[c].on \in Researches /\ cmd'[c].base = total'[cmd'[c].on],
         \A r \in Researches : Undisturbed(r)' => Undisturbed(r) /\ total'[r] <= ledger[r],
         \A r \in Researches : Alone(r)' => Alone(r) /\ beat'.flush.on # r,
         ledger' = ledger, ran' = ran
  PROVE  Inv'
<1> USE DEF Inv
<1>1. /\ tick'.pc = "idle" /\ tick'.on = None /\ ~tick'.fresh
      /\ tick'.flush.pc = "none" /\ tick'.flush.on = None
  BY DEF NoTick, NoFlush
<1>2. \A r \in Researches : ~IsOpen(r)' /\ r # None
  BY Slots, TimeAssumption DEF IsOpen
<1>3. Shape'
  <2>1. TickShape'
    BY <1>1 DEF TickShape
  <2>2. SliceShape'
    BY <1>1, <1>2, Slots DEF SliceShape, SliceFits
  <2>3. QED BY <2>1, <2>2 DEF Shape
<1>4. FreshInv'
  BY <1>1 DEF FreshInv
<1>5. LeadInv'
  BY <1>1, <1>2 DEF LeadInv, Leads
<1>6. ASSUME NEW r \in Researches, Alone(r)' PROVE ChargedOnceFor(r)'
  <2>1. ChargedOnceFor(r)
    BY <1>6 DEF ChargeInv
  <2>2. ledger[r] <= ran[r]
    BY <2>1, SlicesCover
  <2>3. QED BY <1>1, <1>2, <1>6, <2>2 DEF ChargedOnceFor, Holds
<1>7. QED BY <1>3, <1>4, <1>5, <1>6 DEF ChargeInv

(* A write of another leaves the shape of the commands and what a stop may  *)
(* still charge.                                                            *)
LEMMA StaleCommands ==
  ASSUME Inv, NEW r, cmd' = cmd \/ cmd' = CmdsStale(r), stopped' = stopped
  PROVE  cmd' \in [Commands -> Cmds] /\ CmdShape' /\ StopInv'
<1> USE DEF Inv
<1>1. /\ cmd' \in [Commands -> Cmds]
      /\ \A c \in Commands :
           /\ cmd'[c].pc = cmd[c].pc /\ cmd'[c].on = cmd[c].on /\ cmd'[c].op = cmd[c].op
           /\ cmd'[c].elapsed = cmd[c].elapsed
           /\ cmd'[c].fresh => cmd[c].fresh
  BY CmdsStaleIs DEF TypeOK
<1>2. CmdShape'
  BY <1>1 DEF Shape, CmdShape
<1>3. StopInv'
  BY <1>1 DEF StopInv
<1>4. QED BY <1>1, <1>2, <1>3

(* One step of a flush, of the tick or of the heartbeat: the age of a slice *)
(* stays, and what the flush has saved and still owes grows by no more than *)
(* the ledger, by as much if it was alone.                                  *)
LEMMA FlushMoves ==
  ASSUME Inv, TypeOK', TickShape', BeatShape',
         tick'.on = tick.on, tick'.base = tick.base, tick'.fresh = tick.fresh,
         tick' = tick \/ (tick.pc \in Working /\ tick'.pc \in Working),
         UNCHANGED <<st, total, cmd, ran, stopped>>, overlaps \subseteq overlaps',
         \A r \in Researches :
            /\ slice'[r].age = slice[r].age /\ ledger'[r] >= ledger[r]
            /\ ~IsOpen(r) => slice'[r] = slice[r]
            /\ "tick" \in slice'[r].held => tick'.flush.on = r
            /\ "beat" \in slice'[r].held => beat'.flush.on = r
            /\ Undisturbed(r) =>
                 slice'[r].saved + Owing(r)' - ledger'[r] <= slice[r].saved + Owing(r) - ledger[r],
         \A r \in Researches : Alone(r)' =>
            /\ slice'[r].saved + Owing(r)' - ledger'[r] = slice[r].saved + Owing(r) - ledger[r]
            /\ IF IsOpen(r) THEN slice'[r].saved <= slice[r].age ELSE ledger'[r] = ledger[r]
            /\ Holds("tick", tick.flush, r)' /\ Holds("beat", beat.flush, r)'
            /\ tick'.flush.on = r => beat'.flush.on # r
  PROVE  Inv'
<1> USE DEF Inv
<1>1. \A r \in Researches : (IsOpen(r)' <=> IsOpen(r)) /\ (Undisturbed(r)' <=> Undisturbed(r))
                            /\ (Alone(r)' => Alone(r))
  BY DEF IsOpen, Undisturbed, Alone
<1>2. Shape'
  <2>1. CmdShape'
    BY DEF Shape, CmdShape
  <2>2. ASSUME NEW r \in Researches PROVE SliceFits(r)'
    <3>1. SliceFits(r)
      BY DEF Shape, SliceShape
    <3>2. QED BY <1>1, <3>1 DEF SliceFits
  <2>3. QED BY <2>1, <2>2 DEF Shape, SliceShape
<1>3. FreshInv' /\ StopInv'
  BY DEF FreshInv, StopInv, Working
<1>4. ASSUME NEW r \in Researches
      PROVE  /\ ledger[r] \in Nat /\ ledger'[r] \in Nat /\ total[r] \in Nat /\ ran[r] \in Nat
             /\ tick.base \in Nat /\ tick.elapsed \in Nat /\ tick.rest \in Nat
             /\ slice[r].saved \in Nat /\ slice'[r].saved \in Nat /\ slice[r].age \in Int
             /\ Owing(r) \in Nat /\ Owing(r)' \in Nat
  <2>1. tick.flush \in Flushes /\ beat.flush \in Flushes
        /\ tick'.flush \in Flushes /\ beat'.flush \in Flushes
    BY DEF TypeOK, Ticks, Beats
  <2>2. Owing(r) \in Nat /\ Owing(r)' \in Nat
    BY <2>1 DEF Owing, Owed, Flushes
  <2>3. slice[r] \in Slices /\ slice'[r] \in Slices
    BY DEF TypeOK
  <2>4. slice[r].saved \in Nat /\ slice'[r].saved \in Nat /\ slice[r].age \in Int
    BY <2>3 DEF Slices, Closed
  <2>5. QED BY <2>2, <2>4 DEF TypeOK, Ticks
<1>5. ASSUME NEW r \in Researches, Undisturbed(r)' PROVE Leads(r)'
  <2>1. Leads(r)
    BY <1>1, <1>5 DEF LeadInv
  <2>2. slice'[r].saved + Owing(r)' - ledger'[r] <= slice[r].saved + Owing(r) - ledger[r]
    BY <1>1, <1>5
  <2>3. IsOpen(r)' => tick'.base + slice'[r].saved + Owing(r)' <= ledger'[r]
    BY <1>1, <1>4, <2>1, <2>2 DEF Leads
  <2>4. QED BY <1>4, <2>1, <2>3 DEF Leads, Working
<1>6. ASSUME NEW r \in Researches, Alone(r)' PROVE ChargedOnceFor(r)'
  <2>1. ChargedOnceFor(r)
    BY <1>1, <1>6 DEF ChargeInv
  <2>2. SliceFits(r)
    BY DEF Shape, SliceShape
  <2>3. slice'[r].saved + Owing(r)' - ledger'[r] = slice[r].saved + Owing(r) - ledger[r]
    BY <1>6
  <2>4. IsOpen(r)' => /\ slice'[r].saved <= slice'[r].age
                      /\ ledger'[r] + slice'[r].age <= ran'[r] + slice'[r].saved + Owing(r)'
    BY <1>1, <1>4, <1>6, <2>1, <2>3 DEF ChargedOnceFor
  <2>5. ~IsOpen(r)' => ledger'[r] <= ran'[r]
    BY <1>1, <1>6, <2>1 DEF ChargedOnceFor
  <2>6. tick'.on = r /\ tick'.pc = "rest" => ledger'[r] + tick'.rest <= ran'[r]
    BY <1>1, <1>6, <2>1, <2>2 DEF ChargedOnceFor, SliceFits, Working
  <2>7. QED BY <1>6, <2>4, <2>5, <2>6 DEF ChargedOnceFor
<1>7. QED BY <1>2, <1>3, <1>5, <1>6 DEF LeadInv, ChargeInv

-----------------------------------------------------------------------------
(* What the steps of a flush do to the slices: w flushes, v is the other    *)

(* A flush reads an open slice of r and holds it; if the other one is at the *)
(* slice of r, the research is no longer alone.                             *)
LEMMA ReadSlices ==
  ASSUME Inv, NEW w \in Threads, NEW v \in Threads, v # w,
         NEW r \in Researches, NEW f, Read(w, r, f)
  PROVE  /\ IsOpen(r) /\ Quanta(r) \in Nat /\ slice[r].saved + Quanta(r) <= slice[r].age
         /\ slice' \in [Researches -> Slices]
         /\ \A q \in Researches :
              /\ slice'[q].age = slice[q].age /\ slice'[q].saved = slice[q].saved
              /\ w \in slice'[q].held <=> w \in slice[q].held \/ q = r
              /\ v \in slice'[q].held <=> v \in slice[q].held
              /\ q # r => slice'[q] = slice[q]
         /\ overlaps \subseteq overlaps' /\ overlaps' \subseteq Researches
         /\ f.on = r => r \in overlaps'
<1> USE DEF Inv
<1>1. IsOpen(r) /\ Quanta(r) \in Nat /\ slice[r].saved + Quanta(r) <= slice[r].age
  BY QuantaFit DEF Read
<1>2. slice[r] \in Slices /\ [slice[r] EXCEPT !.held = @ \cup {w}] \in Slices
  BY DEF TypeOK, Slices
<1>3. slice' \in [Researches -> Slices]
  BY <1>2 DEF Read, TypeOK
<1>4. \A q \in Researches :
        /\ slice'[q].age = slice[q].age /\ slice'[q].saved = slice[q].saved
        /\ w \in slice'[q].held <=> w \in slice[q].held \/ q = r
        /\ v \in slice'[q].held <=> v \in slice[q].held
        /\ q # r => slice'[q] = slice[q]
  BY <1>2 DEF Read, TypeOK, Slices
<1>5. /\ overlaps \subseteq overlaps' /\ overlaps' \subseteq Researches
      /\ f.on = r => r \in overlaps'
  BY DEF Read, Overlap, TypeOK
<1>6. QED BY <1>1, <1>3, <1>4, <1>5

(* A flush advances last_persisted by what it owes, if its slice is still   *)
(* there.                                                                   *)
LEMMA AdvanceSlices ==
  ASSUME Inv, NEW w \in Threads, NEW v \in Threads, v # w,
         NEW f \in Flushes, f.pc = "advance", f.on \in Researches, Advance(w, f)
  PROVE  /\ slice' \in [Researches -> Slices]
         /\ \A q \in Researches :
              /\ slice'[q].age = slice[q].age
              /\ slice'[q].saved = slice[q].saved + Owed(w, f, q)
              /\ w \in slice'[q].held => w \in slice[q].held /\ q # f.on
              /\ v \in slice'[q].held <=> v \in slice[q].held
              /\ ~IsOpen(q) => slice'[q] = slice[q]
<1> USE DEF Inv
<1>1. (\A q \in Researches : slice[q] \in Slices /\ SliceFits(q)) /\ f.secs \in Nat
  BY DEF TypeOK, Shape, SliceShape, Flushes
<1>2. CASE w \notin slice[f.on].held
  BY <1>1, <1>2, Numbers DEF Advance, Owed, SliceFits, TypeOK
<1>3. CASE w \in slice[f.on].held
  <2> DEFINE flushed == Flushed(slice[f.on], f.secs, w)
  <2>1. slice' = [slice EXCEPT ![f.on] = flushed]
    BY <1>3 DEF Advance, Flushed
  <2>2. /\ flushed \in Slices /\ flushed.age = slice[f.on].age
        /\ flushed.saved = slice[f.on].saved + f.secs /\ flushed.held = slice[f.on].held \ {w}
    BY <1>1, FlushedIs
  <2>3. IsOpen(f.on)
    BY <1>1, <1>3, Slots DEF SliceFits
  <2> HIDE DEF flushed
  <2>4. slice' \in [Researches -> Slices]
    BY <2>1, <2>2 DEF TypeOK
  <2>5. ASSUME NEW q \in Researches, q # f.on
        PROVE  /\ slice'[q] = slice[q] /\ Owed(w, f, q) = 0
               /\ slice[q].saved + 0 = slice[q].saved
    BY <2>1, <2>5, Numbers DEF Owed, TypeOK
  <2>6. slice'[f.on] = flushed /\ Owed(w, f, f.on) = f.secs
    BY <1>3, <2>1 DEF Owed, TypeOK
  <2>7. QED BY <2>2, <2>3, <2>4, <2>5, <2>6
<1>4. QED BY <1>2, <1>3

-----------------------------------------------------------------------------
(* The tick                                                                *)

(* A tick starts from the larger sum, which the ledger is.                  *)
LEMMA TickLoadStep ==
  ASSUME Inv, NEW r \in Researches, TickLoad(r)
  PROVE  Inv'
<1> USE DEF Inv, TickLoad, rows, budget, ghosts
<1>1. tick.pc = "idle" /\ tick.flush.pc = "none" /\ tick.flush.on = None /\ tick.on = None
  BY DEF Here, Shape, TickShape
<1>2. Charged(r) \in Nat /\ Charged(r) >= total[r] /\ ran[r] \in Nat
      /\ (total[r] <= ledger[r] => Charged(r) = ledger[r])
  BY DEF Charged, Larger, TypeOK
<1>3. tick' \in Ticks
  <2>1. PICK b \in BOOLEAN : b = (shared # Closed)
    BY Zenon
  <2>2. tick' = [NoTick EXCEPT !.pc = "loaded", !.on = r, !.base = Charged(r), !.fresh = TRUE,
                               !.openBefore = b, !.began = ran[r]]
    BY <2>1, Zenon
  <2>3. QED BY <1>2, <2>2, Records DEF Ticks
<1>4. /\ tick'.pc = "loaded" /\ tick'.on = r /\ tick'.base = Charged(r)
      /\ tick'.flush.pc = "none" /\ tick'.flush.on = None
  BY DEF NoTick, NoFlush
<1>5. \A q \in Researches : ~IsOpen(q) /\ slice[q] = NoSlice
  BY <1>1, ClosedOutside DEF Working
<1>6. TypeOK'
  BY <1>3 DEF TypeOK
<1>7. Shape'
  <2>1. TickShape' /\ BeatShape' /\ CmdShape'
    BY <1>4, TimeAssumption DEF Shape, TickShape, BeatShape, CmdShape
  <2>2. SliceShape'
    BY <1>4, <1>5, Slots DEF SliceShape, SliceFits, IsOpen, Working
  <2>3. QED BY <2>1, <2>2 DEF Shape
<1>8. FreshInv' /\ StopInv'
  BY <1>2, <1>4 DEF FreshInv, StopInv
<1>9. LeadInv'
  BY <1>2, <1>4, <1>5 DEF LeadInv, Leads, Undisturbed, IsOpen
<1>10. ChargeInv'
  BY <1>1, <1>4, <1>5, TimeAssumption
     DEF ChargeInv, ChargedOnceFor, Alone, Undisturbed, IsOpen, Holds
<1>11. QED BY <1>6, <1>7, <1>8, <1>9, <1>10

(* Missing secrets end a tick before it has begun.                          *)
LEMMA TickLeavesStep ==
  ASSUME Inv, TickLeaves
  PROVE  Inv'
<1> USE DEF Inv, TickLeaves, Here, rows, budget, ghosts
<1>1. tick.on \in Researches
  BY TickHasResearch DEF Shape
<1>2. cmd' = cmd \/ cmd' = CmdsStale(tick.on)
  OBVIOUS
<1>3. cmd' \in [Commands -> Cmds] /\ CmdShape' /\ StopInv'
  BY <1>2, StaleCommands
<1>4. TypeOK' /\ BeatShape'
  BY <1>1, <1>3, Records DEF TypeOK, Ticks, Shape, BeatShape
<1>5. \A r \in Researches : ~IsOpen(r) /\ slice'[r] = NoSlice
  BY ClosedOutside DEF Working
<1>6. \A c \in Commands : cmd'[c].fresh =>
         cmd'[c].on \in Researches /\ cmd'[c].base = total'[cmd'[c].on]
  BY <1>1, CmdsStaleIs DEF FreshInv, TypeOK
<1>7. \A r \in Researches : Undisturbed(r)' => Undisturbed(r) /\ total'[r] <= ledger[r]
  BY <1>1 DEF FreshInv, LeadInv, Leads, Undisturbed, TypeOK
<1>8. \A r \in Researches : Alone(r)' => Alone(r) /\ beat'.flush.on # r
  BY <1>5, <1>7 DEF Alone, ChargeInv, ChargedOnceFor, Holds
<1>9. QED BY <1>3, <1>4, <1>5, <1>6, <1>7, <1>8, TickEnds

(* A tick that begins opens a slice of its own.                             *)
LEMMA TickBeginStep ==
  ASSUME Inv, TickBegin
  PROVE  Inv'
<1> USE DEF Inv, TickBegin, Here, Move, rows, budget, ghosts
<1>1. tick.on \in Researches /\ tick.flush.pc = "none" /\ tick.flush.on = None
  BY TickHasResearch DEF Shape, TickShape
<1>2. \A q \in Researches : ~IsOpen(q) /\ slice[q] = NoSlice
  BY ClosedOutside DEF Working
<1>3. slice' = [slice EXCEPT ![tick.on] = NewSlice]
  BY <1>1, <1>2
<1>4. TypeOK'
  BY <1>1, <1>3, Records DEF TypeOK, Ticks, Ticking
<1>5. /\ tick'.pc = "begun" /\ tick'.on = tick.on /\ tick'.base = tick.base
      /\ tick'.fresh = tick.fresh /\ tick'.flush = tick.flush
  BY DEF TypeOK, Ticks
<1>6. \A q \in Researches : slice'[q] = IF q = tick.on THEN NewSlice ELSE NoSlice
  BY <1>1, <1>2, <1>3 DEF TypeOK
<1>7. \A q \in Researches : IsOpen(q)' <=> q = tick.on
  BY <1>6, Slots DEF IsOpen, Closed
<1>8. Shape'
  <2>1. TickShape' /\ BeatShape' /\ CmdShape'
    BY <1>1, <1>5 DEF Shape, TickShape, BeatShape, CmdShape
  <2>2. SliceShape'
    BY <1>5, <1>6, <1>7, Slots DEF SliceShape, SliceFits, Working
  <2>3. QED BY <2>1, <2>2 DEF Shape
<1>9. FreshInv' /\ StopInv'
  BY <1>5 DEF FreshInv, StopInv
<1>10. ASSUME NEW q \in Researches, Undisturbed(q)' PROVE Leads(q)'
  <2>1. Leads(q)
    BY <1>10 DEF LeadInv, Undisturbed
  <2>2. Owing(q)' = 0
    BY <1>1, <1>5, <1>6, Slots DEF Owing, Owed
  <2>3. QED BY <1>5, <1>6, <1>7, <2>1, <2>2, Slots DEF Leads, TypeOK, Ticks
<1>11. ASSUME NEW q \in Researches, Alone(q)' PROVE ChargedOnceFor(q)'
  <2>1. ChargedOnceFor(q)
    BY <1>11 DEF ChargeInv, Alone, Undisturbed
  <2>2. beat.flush.on # q /\ ledger[q] <= ran[q]
    BY <1>2, <2>1 DEF ChargedOnceFor, Holds
  <2>3. Owing(q)' = 0
    BY <1>1, <1>5, <1>6, Slots DEF Owing, Owed
  <2>4. Holds("tick", tick.flush, q)' /\ Holds("beat", beat.flush, q)' /\ tick'.flush.on # q
    BY <1>1, <1>5, <2>2, TimeAssumption DEF Holds
  <2>5. ledger[q] \in Nat /\ ran[q] \in Nat
    BY DEF TypeOK
  <2>6. IsOpen(q)' => /\ slice'[q].saved <= slice'[q].age
                      /\ ledger'[q] + slice'[q].age <= ran'[q] + slice'[q].saved + Owing(q)'
    BY <1>6, <1>7, <2>2, <2>3, <2>5, Slots
  <2>7. QED BY <1>5, <2>2, <2>4, <2>6 DEF ChargedOnceFor
<1>12. QED BY <1>4, <1>8, <1>9, <1>10, <1>11 DEF LeadInv, ChargeInv

(* An action is written.                                                    *)
LEMMA TickPersistsStep ==
  ASSUME Inv, TickPersists
  PROVE  Inv'
<1> USE DEF Inv, TickPersists, Here
<1>1. /\ tick.pc \in {"begun", "flushed"} /\ tick'.pc \in Working
      /\ tick'.on = tick.on /\ tick'.base = tick.base /\ tick'.fresh = tick.fresh
      /\ tick'.flush = tick.flush /\ tick' \in Ticks
  BY DEF TypeOK, Ticks, Ticking, Working
<1>2. tick.flush.pc = "none"
  BY <1>1 DEF Shape, TickShape, TypeOK, Ticks, Flushes
<1>3. /\ cmd' \in [Commands -> Cmds]
      /\ \A c \in Commands :
           /\ cmd'[c].pc = cmd[c].pc /\ cmd'[c].on = cmd[c].on /\ cmd'[c].op = cmd[c].op
           /\ cmd'[c].base = cmd[c].base /\ cmd'[c].elapsed = cmd[c].elapsed
           /\ cmd'[c].fresh => cmd[c].fresh
  BY CmdsStaleIs
<1>4. QED BY <1>1, <1>2, <1>3, QuietTick DEF Working

(* The gathering begins, for an action that already is in the row.          *)
LEMMA TickGathersStep ==
  ASSUME Inv, TickGathers
  PROVE  Inv'
<1> USE DEF Inv, TickGathers, Here
<1>1. /\ tick.pc = "begun" /\ tick'.pc \in Working
      /\ tick'.on = tick.on /\ tick'.base = tick.base /\ tick'.fresh = tick.fresh
      /\ tick'.flush = tick.flush /\ tick' \in Ticks
  BY DEF TypeOK, Ticks, Ticking, Working
<1>2. QED BY <1>1, QuietTick DEF Working, Shape, TickShape, TypeOK, Ticks, Flushes

(* The draft of a round is built.                                           *)
LEMMA TickBuildsStep ==
  ASSUME Inv, TickBuilds
  PROVE  Inv'
<1> USE DEF Inv, TickBuilds, Here
<1>1. /\ tick.pc = "flushed" /\ tick'.pc \in Working
      /\ tick'.on = tick.on /\ tick'.base = tick.base /\ tick'.fresh = tick.fresh
      /\ tick'.flush = tick.flush /\ tick' \in Ticks
  BY DEF TypeOK, Ticks, Ticking, Working
<1>2. QED BY <1>1, QuietTick DEF Working, Shape, TickShape, TypeOK, Ticks, Flushes

(* The verdict on the tick.                                                 *)
LEMMA TickDecidesStep ==
  ASSUME Inv, TickDecides
  PROVE  Inv'
<1> USE DEF Inv, TickDecides, Here
<1>1. PICK v \in Verdicts :
         tick' = [tick EXCEPT !.pc = "flush", !.stage = 3, !.round = v.round, !.next = v.next]
  OBVIOUS
<1>2. v.round \in BOOLEAN /\ v.next \in {"running", "idle"}
  BY DEF Verdicts
<1>3. /\ tick.pc \in {"begun", "flushed"} /\ tick'.pc \in Working
      /\ tick'.on = tick.on /\ tick'.base = tick.base /\ tick'.fresh = tick.fresh
      /\ tick'.flush = tick.flush
  BY <1>1 DEF TypeOK, Ticks, Working
<1>4. tick' \in Ticks
  BY <1>1, <1>2 DEF TypeOK, Ticks, Ticking
<1>5. QED BY <1>3, <1>4, QuietTick DEF Working, Shape, TickShape, TypeOK, Ticks, Flushes

(* A flush of the tick reads the slice.                                     *)
LEMMA TickReadsStep ==
  ASSUME Inv, TickReads
  PROVE  Inv'
<1> USE DEF Inv
<1>1. /\ tick.on \in Researches /\ tick.pc = "flush" /\ tick.flush.pc = "none"
      /\ tick.flush.on = None
  BY TickHasResearch DEF TickReads, Here, Shape, TickShape
<1>2. CASE Move("flushed") /\ UNCHANGED <<slice, overlaps>>
  <2>1. /\ tick'.pc = "flushed" /\ tick'.on = tick.on /\ tick'.base = tick.base
        /\ tick'.fresh = tick.fresh /\ tick'.flush = tick.flush /\ tick' \in Ticks
    BY <1>2 DEF TypeOK, Move, Ticks, Ticking
  <2>2. UNCHANGED <<rows, budget, beat, cmd, ghosts>>
    BY <1>2 DEF TickReads, budget, ghosts
  <2>3. QED BY <1>1, <2>1, <2>2, QuietTick DEF Working, TypeOK
<1>3. CASE /\ Read("tick", tick.on, beat.flush)
           /\ tick' = [tick EXCEPT !.flush = Flushing(tick.on)]
  <2>1. /\ IsOpen(tick.on) /\ Quanta(tick.on) \in Nat
        /\ slice[tick.on].saved + Quanta(tick.on) <= slice[tick.on].age
        /\ slice' \in [Researches -> Slices]
    BY <1>1, <1>3, ReadSlices DEF Threads
  <2>2. \A q \in Researches :
           /\ slice'[q].age = slice[q].age /\ slice'[q].saved = slice[q].saved
           /\ "tick" \in slice'[q].held <=> "tick" \in slice[q].held \/ q = tick.on
           /\ "beat" \in slice'[q].held <=> "beat" \in slice[q].held
           /\ q # tick.on => slice'[q] = slice[q]
    BY <1>1, <1>3, ReadSlices DEF Threads
  <2>3. /\ overlaps \subseteq overlaps' /\ overlaps' \subseteq Researches
        /\ beat.flush.on = tick.on => tick.on \in overlaps'
    BY <1>1, <1>3, ReadSlices DEF Threads
  <2>4. UNCHANGED <<st, total, ledger, shared, beat, cmd, time, late, ran, cut, stopped, cuts>>
    BY DEF TickReads, rows
  <2>5. /\ tick' \in Ticks /\ tick'.on = tick.on /\ tick'.pc = tick.pc /\ tick'.base = tick.base
        /\ tick'.fresh = tick.fresh /\ tick'.flush.pc = "add" /\ tick'.flush.on = tick.on
        /\ tick'.flush.secs = Quanta(tick.on)
    BY <1>1, <1>3, <2>1 DEF Flushing, Flushes, TypeOK, Ticks
  <2>6. TypeOK'
    BY <2>1, <2>3, <2>4, <2>5 DEF TypeOK
  <2>7. TickShape' /\ BeatShape'
    BY <1>1, <2>4, <2>5, TimeAssumption DEF Shape, TickShape, BeatShape
  <2>8. ASSUME NEW q \in Researches
         PROVE  /\ slice'[q].age = slice[q].age /\ ledger'[q] >= ledger[q]
                /\ ~IsOpen(q) => slice'[q] = slice[q]
                /\ "tick" \in slice'[q].held => tick'.flush.on = q
                /\ "beat" \in slice'[q].held => beat'.flush.on = q
                /\ slice'[q].saved + Owing(q)' - ledger'[q] <= slice[q].saved + Owing(q) - ledger[q]
                /\ slice'[q].saved + Owing(q)' - ledger'[q] = slice[q].saved + Owing(q) - ledger[q]
    <3>1. Owed("tick", tick.flush, q)' = Owed("tick", tick.flush, q)
      BY <1>1, <2>5 DEF Owed
    <3>2. Owed("beat", beat.flush, q)' = Owed("beat", beat.flush, q)
      BY <2>2, <2>4 DEF Owed
    <3>3. SliceFits(q) /\ ledger[q] \in Nat
      BY DEF Shape, SliceShape, TypeOK
    <3>4. "tick" \in slice'[q].held => tick'.flush.on = q
      BY <1>1, <2>2, <2>5, <3>3, TimeAssumption DEF SliceFits
    <3>5. "beat" \in slice'[q].held => beat'.flush.on = q
      BY <2>2, <2>4, <3>3 DEF SliceFits
    <3>6. /\ slice'[q].age = slice[q].age /\ slice'[q].saved = slice[q].saved
          /\ ~IsOpen(q) => slice'[q] = slice[q]
      BY <2>1, <2>2
    <3>7. Owing(q)' = Owing(q) /\ ledger'[q] = ledger[q]
      BY <2>4, <3>1, <3>2 DEF Owing
    <3>8. QED BY <3>3, <3>4, <3>5, <3>6, <3>7, Numbers
  <2>9. ASSUME NEW q \in Researches, Alone(q)'
         PROVE  /\ IF IsOpen(q) THEN slice'[q].saved <= slice[q].age ELSE ledger'[q] = ledger[q]
                /\ Holds("tick", tick.flush, q)' /\ Holds("beat", beat.flush, q)'
                /\ tick'.flush.on = q => beat'.flush.on # q
    <3>1. ChargedOnceFor(q)
      BY <2>3, <2>4, <2>9 DEF ChargeInv, Alone, Undisturbed
    <3>2. IsOpen(q)' <=> IsOpen(q)
      BY <2>2 DEF IsOpen
    <3>3. Holds("tick", tick.flush, q)'
      BY <2>1, <2>2, <2>5, <3>2 DEF Holds
    <3>4. Holds("beat", beat.flush, q)'
      BY <2>2, <2>4, <3>1, <3>2 DEF ChargedOnceFor, Holds
    <3>5. tick'.flush.on = q => beat'.flush.on # q
      BY <2>3, <2>4, <2>5, <2>9 DEF Alone
    <3>6. QED BY <2>2, <2>4, <3>1, <3>3, <3>4, <3>5 DEF ChargedOnceFor
  <2>10. QED BY <1>1, <2>3, <2>4, <2>5, <2>6, <2>7, <2>8, <2>9, FlushMoves DEF Working
<1>4. QED BY <1>2, <1>3 DEF TickReads

(* It adds to the ledger what it read.                                      *)
LEMMA TickAddsStep ==
  ASSUME Inv, TickAdds
  PROVE  Inv'
<1> USE DEF Inv
<1>1. /\ tick.on \in Researches /\ tick.pc = "flush" /\ tick.flush.pc = "add"
      /\ tick.flush.on = tick.on
  BY TickHasResearch DEF TickAdds, Here, Shape, TickShape
<1>2. UNCHANGED <<st, total, slice, shared, beat, cmd, time, late, ran, cut, stopped, overlaps, cuts>>
  BY DEF TickAdds, budget, ghosts
<1>3. /\ tick' \in Ticks /\ tick'.on = tick.on /\ tick'.pc = tick.pc /\ tick'.base = tick.base
      /\ tick'.fresh = tick.fresh /\ tick'.flush.pc = "advance" /\ tick'.flush.on = tick.on
      /\ tick'.flush.secs = tick.flush.secs
  <2>1. tick' = [tick EXCEPT !.flush = [tick.flush EXCEPT !.pc = "advance"]]
    BY DEF TickAdds, Added
  <2>2. [tick.flush EXCEPT !.pc = "advance"] \in Flushes
    BY DEF TypeOK, Ticks, Flushes
  <2>3. QED BY <1>1, <2>1, <2>2 DEF TypeOK, Ticks, Flushes
<1>4. ledger' \in [Researches -> Nat] /\ \A q \in Researches :
         ledger'[q] = ledger[q] + IF q = tick.on /\ st[q] # "gone" THEN tick.flush.secs ELSE 0
  BY <1>1, Numbers DEF TickAdds, AddQuanta, Add, TypeOK
<1>5. TypeOK' /\ TickShape' /\ BeatShape'
  BY <1>1, <1>2, <1>3, <1>4, TimeAssumption DEF TypeOK, Shape, TickShape, BeatShape
<1>6. ASSUME NEW q \in Researches
      PROVE  /\ slice'[q].age = slice[q].age /\ ledger'[q] >= ledger[q]
             /\ ~IsOpen(q) => slice'[q] = slice[q]
             /\ "tick" \in slice'[q].held => tick'.flush.on = q
             /\ "beat" \in slice'[q].held => beat'.flush.on = q
             /\ Undisturbed(q) =>
                  slice'[q].saved + Owing(q)' - ledger'[q] <= slice[q].saved + Owing(q) - ledger[q]
  <2>1. SliceFits(q)
    BY DEF Shape, SliceShape
  <2>2. Owing(q)' <= Owing(q) + IF q = tick.on THEN tick.flush.secs ELSE 0
    <3>1. Owed("beat", beat.flush, q)' = Owed("beat", beat.flush, q)
          /\ Owed("beat", beat.flush, q) \in Nat
      BY <1>2 DEF Owed, TypeOK, Beats, Flushes
    <3>2. Owed("tick", tick.flush, q) = 0
          /\ Owed("tick", tick.flush, q)' \in {0, IF q = tick.on THEN tick.flush.secs ELSE 0}
      BY <1>1, <1>2, <1>3 DEF Owed
    <3>3. QED BY <3>1, <3>2, Numbers DEF Owing
  <2>3. Owing(q)' \in Nat
    BY <1>5 DEF Owing, Owed, TypeOK, Ticks, Beats, Flushes
  <2>4. QED BY <1>1, <1>2, <1>3, <1>4, <2>1, <2>2, <2>3, Numbers DEF SliceFits, Undisturbed
<1>7. ASSUME NEW q \in Researches, Alone(q)'
      PROVE  /\ slice'[q].saved + Owing(q)' - ledger'[q] = slice[q].saved + Owing(q) - ledger[q]
             /\ IF IsOpen(q) THEN slice'[q].saved <= slice[q].age ELSE ledger'[q] = ledger[q]
             /\ Holds("tick", tick.flush, q)' /\ Holds("beat", beat.flush, q)'
             /\ tick'.flush.on = q => beat'.flush.on # q
  <2>1. ChargedOnceFor(q) /\ st[q] # "gone"
    BY <1>2, <1>7 DEF ChargeInv, Alone, Undisturbed
  <2>2. Holds("tick", tick.flush, q)' /\ Holds("beat", beat.flush, q)'
    BY <1>1, <1>2, <1>3, <2>1 DEF ChargedOnceFor, Holds, IsOpen
  <2>3. Owing(q)' = Owing(q) + IF q = tick.on THEN tick.flush.secs ELSE 0
    <3>1. Owed("beat", beat.flush, q)' = Owed("beat", beat.flush, q)
          /\ Owed("beat", beat.flush, q) \in Nat
      BY <1>2 DEF Owed, TypeOK, Beats, Flushes
    <3>2. Owed("tick", tick.flush, q) = 0
          /\ Owed("tick", tick.flush, q)' = IF q = tick.on THEN tick.flush.secs ELSE 0
      BY <1>1, <1>2, <1>3, <2>1 DEF Owed, ChargedOnceFor, Holds
    <3>3. QED BY <3>1, <3>2, Numbers DEF Owing
  <2>4. ~IsOpen(q) => q # tick.on
    BY <1>1, <2>1 DEF ChargedOnceFor, Holds
  <2>5. QED BY <1>1, <1>2, <1>3, <1>4, <2>1, <2>2, <2>3, <2>4, Numbers DEF ChargedOnceFor
<1>8. QED BY <1>1, <1>2, <1>3, <1>5, <1>6, <1>7, FlushMoves DEF Working

(* It advances last_persisted.                                              *)
LEMMA TickAdvancesStep ==
  ASSUME Inv, TickAdvances
  PROVE  Inv'
<1> USE DEF Inv
<1>1. /\ tick.on \in Researches /\ tick.pc = "flush" /\ tick.flush.pc = "advance"
      /\ tick.flush.on = tick.on
  BY TickHasResearch DEF TickAdvances, Here, Shape, TickShape
<1>2. UNCHANGED <<st, total, ledger, shared, beat, cmd, time, late, ran, cut, stopped, overlaps, cuts>>
  BY DEF TickAdvances, rows, ghosts
<1>3. /\ tick' \in Ticks /\ tick'.on = tick.on /\ tick'.pc = "flushed" /\ tick'.base = tick.base
      /\ tick'.fresh = tick.fresh /\ tick'.flush.pc = "none" /\ tick'.flush.on = None
  <2>1. tick' = [tick EXCEPT !.pc = "flushed", !.flush = NoFlush]
    BY DEF TickAdvances
  <2>2. QED BY <2>1, Records DEF TypeOK, Ticks, Ticking, NoFlush
<1>4. /\ slice' \in [Researches -> Slices]
      /\ \A q \in Researches :
           /\ slice'[q].age = slice[q].age
           /\ slice'[q].saved = slice[q].saved + Owed("tick", tick.flush, q)
           /\ "tick" \in slice'[q].held => "tick" \in slice[q].held /\ q # tick.flush.on
           /\ "beat" \in slice'[q].held <=> "beat" \in slice[q].held
           /\ ~IsOpen(q) => slice'[q] = slice[q]
  BY <1>1, AdvanceSlices DEF TickAdvances, Threads, TypeOK, Ticks
<1>5. TypeOK' /\ TickShape' /\ BeatShape'
  <2>1. TypeOK'
    BY <1>2, <1>3, <1>4 DEF TypeOK
  <2>2. TickShape' /\ BeatShape'
    BY <1>1, <1>2, <1>3, TimeAssumption DEF Shape, TickShape, BeatShape
  <2>3. QED BY <2>1, <2>2
<1>6. ASSUME NEW q \in Researches
      PROVE  /\ slice'[q].age = slice[q].age /\ ledger'[q] >= ledger[q]
             /\ ~IsOpen(q) => slice'[q] = slice[q]
             /\ "tick" \in slice'[q].held => tick'.flush.on = q
             /\ "beat" \in slice'[q].held => beat'.flush.on = q
             /\ slice'[q].saved + Owing(q)' - ledger'[q] <= slice[q].saved + Owing(q) - ledger[q]
             /\ slice'[q].saved + Owing(q)' - ledger'[q] = slice[q].saved + Owing(q) - ledger[q]
  <2>1. SliceFits(q)
    BY DEF Shape, SliceShape
  <2>2. /\ slice'[q].age = slice[q].age
        /\ slice'[q].saved = slice[q].saved + Owed("tick", tick.flush, q)
        /\ ~IsOpen(q) => slice'[q] = slice[q]
        /\ "beat" \in slice'[q].held <=> "beat" \in slice[q].held
    BY <1>4
  <2>3. "tick" \notin slice'[q].held
    BY <1>1, <1>4, <2>1 DEF SliceFits
  <2>4. /\ Owed("tick", tick.flush, q)' = 0
        /\ Owed("beat", beat.flush, q)' = Owed("beat", beat.flush, q)
        /\ Owed("tick", tick.flush, q) \in Nat /\ Owed("beat", beat.flush, q) \in Nat
    BY <1>2, <1>3, <2>2 DEF Owed, TypeOK, Ticks, Beats, Flushes
  <2>5. "beat" \in slice'[q].held => beat'.flush.on = q
    BY <1>2, <2>1, <2>2 DEF SliceFits
  <2>6. QED BY <1>2, <2>2, <2>3, <2>4, <2>5, Numbers DEF Owing
<1>7. ASSUME NEW q \in Researches, Alone(q)'
      PROVE  /\ IF IsOpen(q) THEN slice'[q].saved <= slice[q].age ELSE ledger'[q] = ledger[q]
             /\ Holds("tick", tick.flush, q)' /\ Holds("beat", beat.flush, q)'
             /\ tick'.flush.on = q => beat'.flush.on # q
  <2>1. ChargedOnceFor(q) /\ q # None
    BY <1>2, <1>7, TimeAssumption DEF ChargeInv, Alone, Undisturbed
  <2>2. /\ slice'[q].age = slice[q].age
        /\ slice'[q].saved = slice[q].saved + Owed("tick", tick.flush, q)
        /\ "beat" \in slice'[q].held <=> "beat" \in slice[q].held
    BY <1>4
  <2>3. Owed("tick", tick.flush, q) = 0 \/ (tick.flush.on = q /\ Owed("tick", tick.flush, q) = tick.flush.secs)
    BY DEF Owed
  <2>4. IsOpen(q) => slice'[q].saved <= slice[q].age
    BY <2>1, <2>2, <2>3, Numbers DEF ChargedOnceFor, Holds
  <2>5. Holds("tick", tick.flush, q)'
    BY <1>3, <2>1 DEF Holds
  <2>6. Holds("beat", beat.flush, q)'
    <3>1. beat.flush.on = q => Owed("tick", tick.flush, q) = 0
      BY <2>1 DEF ChargedOnceFor, Owed
    <3>2. QED BY <1>2, <2>1, <2>2, <3>1, Numbers DEF ChargedOnceFor, Holds, IsOpen
  <2>7. QED BY <1>2, <1>3, <2>1, <2>4, <2>5, <2>6
<1>8. QED BY <1>1, <1>2, <1>3, <1>5, <1>6, <1>7, FlushMoves DEF Working

(* The slice is closed, and what it still owes is carried in the tick.      *)
LEMMA TickClosesStep ==
  ASSUME Inv, TickCloses
  PROVE  Inv'
<1> USE DEF Inv
<1> DEFINE r == tick.on
           own == IsOpen(r)
           age == IF own THEN slice[r].age ELSE IF ~own /\ shared # Closed THEN shared ELSE 0
           rest == Larger(0, age - IF own THEN slice[r].saved ELSE 0)
<1>1. r \in Researches /\ tick.pc = "flushed" /\ tick.flush.pc = "none" /\ tick.flush.on = None
      /\ slice[r] \in Slices
  BY TickHasResearch DEF TickCloses, Here, Shape, TickShape
<1>2. age \in Nat /\ rest \in Nat /\ age <= rest + IF own THEN slice[r].saved ELSE 0
  BY <1>1, Numbers DEF TypeOK, Larger
<1>3. /\ slice' = Pop(r) /\ shared' \in Nat \cup {Closed} /\ Overlap(r, beat.flush)
      /\ UNCHANGED <<rows, beat, cmd, time, late, ran, cut, stopped, cuts>>
  BY DEF TickCloses, TypeOK
<1>4. tick' = [tick EXCEPT !.pc = "rest", !.elapsed = age, !.rest = rest]
  BY DEF TickCloses
<1>5. own => age = slice[r].age /\ rest = Larger(0, slice[r].age - slice[r].saved)
  OBVIOUS
<1> HIDE DEF age, rest
<1>6. /\ tick' \in Ticks /\ tick'.on = r /\ tick'.pc = "rest" /\ tick'.base = tick.base
      /\ tick'.fresh = tick.fresh /\ tick'.flush = tick.flush
      /\ tick'.elapsed = age /\ tick'.rest = rest
  BY <1>2, <1>4 DEF TypeOK, Ticks, Ticking
<1>7. slice' \in [Researches -> Slices] /\ \A q \in Researches : slice'[q] = NoSlice
  <2>1. slice' \in [Researches -> Slices] /\ slice'[r] = NoSlice
    BY <1>1, <1>3, Records DEF Pop, TypeOK
  <2>2. ASSUME NEW q \in Researches, q # r PROVE slice'[q] = NoSlice
    BY <1>1, <1>3, <2>2 DEF Pop, TypeOK, Shape, SliceShape, SliceFits
  <2>3. QED BY <2>1, <2>2
<1>8. overlaps' = IF beat.flush.on = r THEN overlaps \cup {r} ELSE overlaps
  BY <1>3 DEF Overlap
<1>9. TypeOK'
  BY <1>1, <1>3, <1>6, <1>7, <1>8 DEF TypeOK, rows
<1>10. \A q \in Researches : ~IsOpen(q)'
  BY <1>7, Slots DEF IsOpen
<1>11. Shape'
  <2>1. TickShape' /\ BeatShape' /\ CmdShape'
    BY <1>1, <1>3, <1>6, TimeAssumption DEF Shape, TickShape, BeatShape, CmdShape
  <2>2. SliceShape'
    BY <1>6, <1>7, <1>10, Slots DEF SliceShape, SliceFits, Working
  <2>3. QED BY <2>1, <2>2 DEF Shape
<1>12. FreshInv' /\ StopInv'
  BY <1>3, <1>6 DEF FreshInv, StopInv, rows
<1>13. Undisturbed(r) => own
  BY <1>1 DEF Shape, SliceShape, SliceFits, Working
<1>14. ASSUME NEW q \in Researches, Undisturbed(q)' PROVE Leads(q)'
  <2>1. Leads(q) /\ Undisturbed(q)
    BY <1>3, <1>14 DEF LeadInv, Undisturbed, rows
  <2>2. q = r => tick.base + age <= ledger[q] + rest
    BY <1>2, <1>13, <2>1, Numbers DEF Leads
  <2>3. QED BY <1>3, <1>6, <1>10, <2>1, <2>2 DEF Leads, rows
<1>15. ASSUME NEW q \in Researches, Alone(q)' PROVE ChargedOnceFor(q)'
  <2>1. ChargedOnceFor(q) /\ Undisturbed(q) /\ q \notin overlaps'
    BY <1>3, <1>8, <1>15 DEF ChargeInv, Alone, Undisturbed, rows
  <2>2. beat.flush.on # q
    BY <1>1, <1>8, <2>1 DEF ChargedOnceFor, Holds, Shape, SliceShape, SliceFits
  <2>3. q = r => ledger[q] + rest <= ran[q]
    <3>1. SUFFICES ASSUME q = r PROVE ledger[r] + rest <= ran[r]
      OBVIOUS
    <3>2. own /\ rest = Larger(0, slice[r].age - slice[r].saved)
      BY <1>5, <1>13, <2>1, <3>1
    <3>3. Owing(r) = 0
      BY <1>1, <2>2, <3>1 DEF Owing, Owed
    <3>4. /\ slice[r].saved <= slice[r].age
          /\ ledger[r] + slice[r].age <= ran[r] + slice[r].saved + 0
      BY <2>1, <3>1, <3>2, <3>3 DEF ChargedOnceFor
    <3>5. QED BY <1>1, <3>2, <3>4, Numbers DEF Larger
  <2>4. ledger[q] <= ran[q]
    BY <1>1, <1>2, <2>1, <2>3, Numbers DEF ChargedOnceFor, Shape, SliceShape, SliceFits
  <2>5. Holds("tick", tick.flush, q)' /\ Holds("beat", beat.flush, q)'
        /\ (tick'.flush.on = q => beat'.flush.on # q)
    BY <1>1, <1>3, <1>6, <2>2, TimeAssumption DEF Holds
  <2>6. QED BY <1>3, <1>6, <1>10, <2>3, <2>4, <2>5 DEF ChargedOnceFor, rows
<1>16. QED BY <1>9, <1>11, <1>12, <1>14, <1>15 DEF LeadInv, ChargeInv

(* The rest reaches the ledger.                                             *)
LEMMA TickRestsStep ==
  ASSUME Inv, TickRests
  PROVE  Inv'
<1> USE DEF Inv
<1>1. tick.on \in Researches /\ tick.pc = "rest" /\ tick.flush.pc = "none"
  BY TickHasResearch DEF TickRests, Here, Shape, TickShape
<1>2. UNCHANGED <<st, total, budget, beat, cmd, ghosts>>
  BY DEF TickRests
<1>3. /\ tick' \in Ticks /\ tick'.on = tick.on /\ tick'.pc = "commit" /\ tick'.base = tick.base
      /\ tick'.fresh = tick.fresh /\ tick'.flush = tick.flush /\ tick'.elapsed = tick.elapsed
  BY DEF TickRests, Move, TypeOK, Ticks, Ticking
<1>4. ledger' \in [Researches -> Nat] /\ \A q \in Researches :
         ledger'[q] = ledger[q] + IF q = tick.on /\ st[q] # "gone" THEN tick.rest ELSE 0
  BY <1>1, Numbers DEF TickRests, Add, TypeOK
<1>5. \A q \in Researches : ~IsOpen(q) /\ slice[q] = NoSlice
  BY <1>1, ClosedOutside DEF Working
<1>6. TypeOK'
  BY <1>2, <1>3, <1>4 DEF TypeOK, budget, ghosts
<1>7. Shape'
  <2>1. TickShape' /\ BeatShape' /\ CmdShape'
    BY <1>1, <1>2, <1>3 DEF Shape, TickShape, BeatShape, CmdShape
  <2>2. SliceShape'
    BY <1>2, <1>3, <1>5, Slots DEF SliceShape, SliceFits, Working, IsOpen, budget
  <2>3. QED BY <2>1, <2>2 DEF Shape
<1>8. FreshInv' /\ StopInv'
  BY <1>2, <1>3 DEF FreshInv, StopInv, ghosts
<1>9. ASSUME NEW q \in Researches, Undisturbed(q)' PROVE Leads(q)'
  <2>1. Leads(q) /\ st[q] # "gone"
    BY <1>2, <1>9 DEF LeadInv, Undisturbed, ghosts
  <2>2. ~IsOpen(q)'
    BY <1>2, <1>5 DEF IsOpen, budget
  <2>3. QED BY <1>1, <1>2, <1>3, <1>4, <2>1, <2>2, Numbers DEF Leads
<1>10. ASSUME NEW q \in Researches, Alone(q)' PROVE ChargedOnceFor(q)'
  <2>1. ChargedOnceFor(q) /\ st[q] # "gone"
    BY <1>2, <1>10 DEF ChargeInv, Alone, Undisturbed, ghosts
  <2>2. ~IsOpen(q)'
    BY <1>2, <1>5 DEF IsOpen, budget
  <2>3. Holds("tick", tick.flush, q)' /\ Holds("beat", beat.flush, q)'
        /\ (tick'.flush.on = q => beat'.flush.on # q)
    BY <1>2, <1>3, <1>5, <2>1 DEF ChargedOnceFor, Holds
  <2>4. ledger'[q] <= ran[q]
    BY <1>1, <1>4, <1>5, <2>1, Numbers DEF ChargedOnceFor
  <2>5. QED BY <1>2, <1>3, <2>2, <2>3, <2>4 DEF ChargedOnceFor, ghosts
<1>11. QED BY <1>6, <1>7, <1>8, <1>9, <1>10 DEF LeadInv, ChargeInv

(* A tick that commits, or pauses its research, writes no more than the     *)
(* ledger has.                                                              *)
LEMMA TickCommitsStep ==
  ASSUME Inv, TickCommits
  PROVE  Inv'
<1> USE DEF Inv
<1>1. tick.on \in Researches /\ tick.pc = "commit" /\ tick.fresh \in BOOLEAN
      /\ tick.next \in {"running", "idle"}
  BY TickHasResearch DEF TickCommits, Here, Shape, TypeOK, Ticks
<1>2. UNCHANGED <<ledger, budget, beat, ghosts>> /\ tick' = NoTick
  BY DEF TickCommits
<1>3. PICK gain \in {0, tick.elapsed}, next \in {"running", "idle"} :
         IF tick.fresh
         THEN /\ st' = [st EXCEPT ![tick.on] = next]
              /\ total' = [total EXCEPT ![tick.on] = tick.base + gain]
              /\ cmd' = CmdsStale(tick.on)
         ELSE UNCHANGED <<st, total, cmd>>
  <2>1. tick.base + 0 = tick.base
    BY DEF TypeOK, Ticks
  <2>2. QED BY <1>1, <2>1 DEF TickCommits
<1>4. cmd' \in [Commands -> Cmds] /\ CmdShape' /\ StopInv'
  BY <1>2, <1>3, StaleCommands DEF ghosts
<1>5. tick.base + gain \in Nat
  BY DEF TypeOK, Ticks
<1>6. TypeOK' /\ BeatShape'
  BY <1>1, <1>2, <1>3, <1>4, <1>5, Records DEF TypeOK, Shape, BeatShape, budget, ghosts
<1>7. \A q \in Researches : ~IsOpen(q) /\ slice'[q] = NoSlice
  BY <1>1, <1>2, ClosedOutside DEF Working, budget
<1>8. \A c \in Commands : cmd'[c].fresh =>
         cmd'[c].on \in Researches /\ cmd'[c].base = total'[cmd'[c].on]
  BY <1>1, <1>3, CmdsStaleIs DEF FreshInv, TypeOK
<1>9. ASSUME NEW q \in Researches, Undisturbed(q)'
      PROVE  Undisturbed(q) /\ total'[q] <= ledger[q]
  <2>1. Undisturbed(q)
    BY <1>1, <1>2, <1>3, <1>9 DEF Undisturbed, FreshInv, TypeOK, ghosts
  <2>2. tick.on = q => tick.base + gain <= ledger[q]
    BY <1>1, <2>1, Numbers DEF LeadInv, Leads
  <2>3. total[q] <= ledger[q]
    BY <2>1 DEF LeadInv, Leads
  <2>4. QED BY <1>1, <1>3, <2>1, <2>2, <2>3 DEF TypeOK
<1>10. ASSUME NEW q \in Researches, Alone(q)' PROVE Alone(q) /\ beat'.flush.on # q
  BY <1>2, <1>7, <1>9, <1>10 DEF Alone, ChargeInv, ChargedOnceFor, Holds, ghosts
<1>11. QED BY <1>2, <1>4, <1>6, <1>7, <1>8, <1>9, <1>10, TickEnds DEF ghosts

(* A tick that fails drops its slice.                                       *)
LEMMA TickFailsStep ==
  ASSUME Inv, TickFails
  PROVE  Inv'
<1> USE DEF Inv
<1>1. tick.on \in Researches /\ st[tick.on] # "gone"
  BY TickHasResearch DEF TickFails, Here, Ticking, Shape
<1>2. /\ UNCHANGED <<total, ledger, shared, beat, time, late, ran, stopped>> /\ tick' = NoTick
      /\ Overlap(tick.on, beat.flush) /\ slice' = Pop(tick.on)
      /\ cut' = [cut EXCEPT ![tick.on] = @ + IF Here(Ticking) THEN 1 ELSE 0]
      /\ cuts' = cuts + 1
  BY DEF TickFails, Dropped
<1>3. (cmd' = cmd \/ cmd' = CmdsStale(tick.on))
      /\ (st' = st \/ st' = [st EXCEPT ![tick.on] = "idle"])
  BY DEF TickFails
<1>4. cmd' \in [Commands -> Cmds] /\ CmdShape' /\ StopInv'
  BY <1>2, <1>3, StaleCommands
<1>5. slice' \in [Researches -> Slices] /\ \A q \in Researches : slice'[q] = NoSlice
  <2>1. slice' \in [Researches -> Slices] /\ slice'[tick.on] = NoSlice
    BY <1>1, <1>2, Records DEF Pop, TypeOK
  <2>2. ASSUME NEW q \in Researches, q # tick.on PROVE slice'[q] = NoSlice
    BY <1>1, <1>2, <2>2 DEF Pop, TypeOK, Shape, SliceShape, SliceFits
  <2>3. QED BY <2>1, <2>2
<1>6. overlaps' = IF beat.flush.on = tick.on THEN overlaps \cup {tick.on} ELSE overlaps
  BY <1>2 DEF Overlap
<1>7. TypeOK' /\ BeatShape'
  <2>1. cut' \in [Researches -> Nat] /\ cuts' \in Nat
    BY <1>1, <1>2 DEF TypeOK
  <2>2. st' \in [Researches -> {"running", "idle", "gone"}]
    BY <1>3 DEF TypeOK
  <2>3. overlaps' \subseteq Researches
    BY <1>1, <1>6 DEF TypeOK
  <2>4. QED BY <1>2, <1>4, <1>5, <2>1, <2>2, <2>3, Records DEF TypeOK, Shape, BeatShape
<1>8. \A c \in Commands : cmd'[c].fresh =>
         cmd'[c].on \in Researches /\ cmd'[c].base = total'[cmd'[c].on]
  BY <1>2, <1>3, CmdsStaleIs DEF FreshInv
<1>9. ASSUME NEW q \in Researches, Undisturbed(q)'
      PROVE  Undisturbed(q) /\ total'[q] <= ledger[q]
  BY <1>1, <1>2, <1>3, <1>9 DEF Undisturbed, LeadInv, Leads, TypeOK
<1>10. ASSUME NEW q \in Researches, Alone(q)' PROVE Alone(q) /\ beat'.flush.on # q
  <2>1. Alone(q) /\ q \notin overlaps'
    BY <1>6, <1>9, <1>10 DEF Alone
  <2>2. beat.flush.on # q
    BY <1>1, <1>6, <2>1 DEF ChargeInv, ChargedOnceFor, Holds, Shape, SliceShape, SliceFits
  <2>3. QED BY <1>2, <2>1, <2>2
<1>11. QED BY <1>2, <1>4, <1>5, <1>7, <1>8, <1>9, <1>10, TickEnds

(* A tick that finds its research gone drops its slice.                     *)
LEMMA TickRemovedStep ==
  ASSUME Inv, TickRemoved
  PROVE  Inv'
<1> USE DEF Inv
<1>1. tick.on \in Researches /\ st[tick.on] = "gone"
  BY TickHasResearch DEF TickRemoved, Here, Shape
<1>2. /\ UNCHANGED <<rows, beat, cmd, ghosts>> /\ tick' = NoTick
      /\ shared' \in Nat \cup {Closed} /\ slice' = Pop(tick.on)
  BY DEF TickRemoved, Dropped, TypeOK
<1>3. CmdShape' /\ StopInv'
  BY <1>2 DEF Shape, CmdShape, StopInv, ghosts
<1>4. slice' \in [Researches -> Slices] /\ \A q \in Researches : slice'[q] = NoSlice
  <2>1. slice' \in [Researches -> Slices] /\ slice'[tick.on] = NoSlice
    BY <1>1, <1>2, Records DEF Pop, TypeOK
  <2>2. ASSUME NEW q \in Researches, q # tick.on PROVE slice'[q] = NoSlice
    BY <1>1, <1>2, <2>2 DEF Pop, TypeOK, Shape, SliceShape, SliceFits
  <2>3. QED BY <2>1, <2>2
<1>5. TypeOK' /\ BeatShape'
  BY <1>2, <1>4, Records DEF TypeOK, Shape, BeatShape, rows, ghosts
<1>6. \A c \in Commands : cmd'[c].fresh =>
         cmd'[c].on \in Researches /\ cmd'[c].base = total'[cmd'[c].on]
  BY <1>2 DEF FreshInv, rows
<1>7. \A q \in Researches : Undisturbed(q)' => Undisturbed(q) /\ total'[q] <= ledger[q]
  BY <1>2 DEF Undisturbed, LeadInv, Leads, rows, ghosts
<1>8. ASSUME NEW q \in Researches, Alone(q)' PROVE Alone(q) /\ beat'.flush.on # q
  <2>1. Alone(q) /\ q # tick.on
    BY <1>1, <1>2, <1>8 DEF Alone, Undisturbed, rows, ghosts
  <2>2. beat.flush.on # q
    BY <2>1 DEF ChargeInv, ChargedOnceFor, Holds, Shape, SliceShape, SliceFits
  <2>3. QED BY <1>2, <2>1, <2>2
<1>9. QED BY <1>2, <1>3, <1>4, <1>5, <1>6, <1>7, <1>8, TickEnds DEF rows, ghosts

-----------------------------------------------------------------------------
(* The heartbeat                                                           *)

(* The heartbeat wakes and lists the open slices.                           *)
LEMMA BeatWakesStep ==
  ASSUME Inv, BeatWakes
  PROVE  Inv'
<1> USE DEF Inv
<1>1. beat.flush.pc = "none" /\ beat.flush.on = None
  BY DEF BeatWakes, Shape, BeatShape, TypeOK, Beats, Flushes
<1>2. beat' \in Beats /\ beat'.flush = beat.flush
  BY DEF TypeOK, BeatWakes, Beats
<1>3. QED BY <1>1, <1>2, QuietBeat DEF BeatWakes

(* It has been through its list.                                            *)
LEMMA BeatWaitsStep ==
  ASSUME Inv, BeatWaits
  PROVE  Inv'
<1>1. beat' \in Beats /\ beat'.flush.pc = "none" /\ beat'.flush.on = None
  BY Records DEF BeatWaits, NoBeat, NoFlush
<1>2. QED BY <1>1, QuietBeat DEF BeatWaits

(* A flush of the heartbeat reads a slice.                                  *)
LEMMA BeatReadsStep ==
  ASSUME Inv, BeatReads
  PROVE  Inv'
<1> USE DEF Inv
<1>1. beat.pc = "round" /\ beat.flush.pc = "none" /\ beat.flush.on = None
  BY DEF BeatReads, Shape, BeatShape
<1>2. PICK r \in beat.todo :
         \/ /\ Read("beat", r, tick.flush)
            /\ beat' = [beat EXCEPT !.todo = @ \ {r}, !.flush = Flushing(r)]
         \/ /\ beat' = [beat EXCEPT !.todo = @ \ {r}]
            /\ UNCHANGED <<slice, overlaps>>
  BY DEF BeatReads
<1>3. r \in Researches /\ beat.todo \ {r} \subseteq Researches
  BY DEF TypeOK, Beats
<1>4. UNCHANGED <<st, total, ledger, shared, tick, cmd, time, late, ran, cut, stopped, cuts>>
  BY DEF BeatReads, rows
<1>5. CASE beat' = [beat EXCEPT !.todo = @ \ {r}] /\ UNCHANGED <<slice, overlaps>>
  <2>1. beat' \in Beats /\ beat'.flush = beat.flush
    BY <1>3, <1>5 DEF TypeOK, Beats
  <2>2. QED BY <1>1, <1>4, <1>5, <2>1, QuietBeat DEF rows, budget, ghosts
<1>6. CASE /\ Read("beat", r, tick.flush)
           /\ beat' = [beat EXCEPT !.todo = @ \ {r}, !.flush = Flushing(r)]
  <2>1. /\ IsOpen(r) /\ Quanta(r) \in Nat /\ slice[r].saved + Quanta(r) <= slice[r].age
        /\ slice' \in [Researches -> Slices]
    BY <1>3, <1>6, ReadSlices DEF Threads
  <2>2. \A q \in Researches :
           /\ slice'[q].age = slice[q].age /\ slice'[q].saved = slice[q].saved
           /\ "beat" \in slice'[q].held <=> "beat" \in slice[q].held \/ q = r
           /\ "tick" \in slice'[q].held <=> "tick" \in slice[q].held
           /\ q # r => slice'[q] = slice[q]
    BY <1>3, <1>6, ReadSlices DEF Threads
  <2>3. /\ overlaps \subseteq overlaps' /\ overlaps' \subseteq Researches
        /\ tick.flush.on = r => r \in overlaps'
    BY <1>3, <1>6, ReadSlices DEF Threads
  <2>4. Flushing(r) \in Flushes
    BY <1>3, <2>1 DEF Flushing, Flushes
  <2>5. /\ beat' \in Beats /\ beat'.pc = beat.pc /\ beat'.flush.pc = "add"
        /\ beat'.flush.on = r /\ beat'.flush.secs = Quanta(r)
    BY <1>3, <1>6, <2>4 DEF Flushing, TypeOK, Beats
  <2>6. TypeOK'
    BY <1>4, <2>1, <2>3, <2>5 DEF TypeOK
  <2>7. TickShape' /\ BeatShape'
    BY <1>1, <1>3, <1>4, <2>5, TimeAssumption DEF Shape, TickShape, BeatShape
  <2>8. ASSUME NEW q \in Researches
        PROVE  /\ slice'[q].age = slice[q].age /\ ledger'[q] >= ledger[q]
               /\ ~IsOpen(q) => slice'[q] = slice[q]
               /\ "tick" \in slice'[q].held => tick'.flush.on = q
               /\ "beat" \in slice'[q].held => beat'.flush.on = q
               /\ slice'[q].saved + Owing(q)' - ledger'[q] <= slice[q].saved + Owing(q) - ledger[q]
               /\ slice'[q].saved + Owing(q)' - ledger'[q] = slice[q].saved + Owing(q) - ledger[q]
    <3>1. Owed("beat", beat.flush, q)' = Owed("beat", beat.flush, q)
      BY <1>1, <2>5 DEF Owed
    <3>2. Owed("tick", tick.flush, q)' = Owed("tick", tick.flush, q)
      BY <1>4, <2>2 DEF Owed
    <3>3. SliceFits(q) /\ ledger[q] \in Nat
      BY DEF Shape, SliceShape, TypeOK
    <3>4. "beat" \in slice'[q].held => beat'.flush.on = q
      BY <1>1, <2>2, <2>5, <3>3, TimeAssumption DEF SliceFits
    <3>5. "tick" \in slice'[q].held => tick'.flush.on = q
      BY <1>4, <2>2, <3>3 DEF SliceFits
    <3>6. /\ slice'[q].age = slice[q].age /\ slice'[q].saved = slice[q].saved
          /\ ~IsOpen(q) => slice'[q] = slice[q]
      BY <2>1, <2>2
    <3>7. Owing(q)' = Owing(q) /\ ledger'[q] = ledger[q]
      BY <1>4, <3>1, <3>2 DEF Owing
    <3>8. QED BY <3>3, <3>4, <3>5, <3>6, <3>7, Numbers
  <2>9. ASSUME NEW q \in Researches, Alone(q)'
        PROVE  /\ IF IsOpen(q) THEN slice'[q].saved <= slice[q].age ELSE ledger'[q] = ledger[q]
               /\ Holds("tick", tick.flush, q)' /\ Holds("beat", beat.flush, q)'
               /\ tick'.flush.on = q => beat'.flush.on # q
    <3>1. ChargedOnceFor(q)
      BY <1>4, <2>3, <2>9 DEF ChargeInv, Alone, Undisturbed
    <3>2. IsOpen(q)' <=> IsOpen(q)
      BY <2>2 DEF IsOpen
    <3>3. Holds("beat", beat.flush, q)'
      BY <2>1, <2>2, <2>5, <3>2 DEF Holds
    <3>4. Holds("tick", tick.flush, q)'
      BY <1>4, <2>2, <3>1, <3>2 DEF ChargedOnceFor, Holds
    <3>5. tick'.flush.on = q => beat'.flush.on # q
      BY <1>4, <2>3, <2>5, <2>9 DEF Alone
    <3>6. QED BY <1>4, <2>2, <3>1, <3>3, <3>4, <3>5 DEF ChargedOnceFor
  <2>10. QED BY <1>4, <2>3, <2>6, <2>7, <2>8, <2>9, FlushMoves
<1>7. QED BY <1>2, <1>5, <1>6

(* It adds to the ledger what it read, though the slice may be gone.        *)
LEMMA BeatAddsStep ==
  ASSUME Inv, BeatAdds
  PROVE  Inv'
<1> USE DEF Inv
<1> DEFINE r == beat.flush.on
<1>1. r \in Researches /\ beat.pc = "round" /\ beat.flush.pc = "add"
  BY DEF BeatAdds, Shape, BeatShape, TypeOK, Beats, Flushes
<1>2. UNCHANGED <<st, total, slice, shared, tick, cmd, time, late, ran, cut, stopped, overlaps, cuts>>
  BY DEF BeatAdds, budget, ghosts
<1>3. /\ beat' \in Beats /\ beat'.pc = beat.pc /\ beat'.flush.pc = "advance"
      /\ beat'.flush.on = r /\ beat'.flush.secs = beat.flush.secs
  <2>1. beat' = [beat EXCEPT !.flush = [beat.flush EXCEPT !.pc = "advance"]]
    BY DEF BeatAdds, Added
  <2>2. [beat.flush EXCEPT !.pc = "advance"] \in Flushes
    BY DEF TypeOK, Beats, Flushes
  <2>3. QED BY <1>1, <2>1, <2>2 DEF TypeOK, Beats, Flushes
<1>4. ledger' \in [Researches -> Nat] /\ \A q \in Researches :
         ledger'[q] = ledger[q] + IF q = r /\ st[q] # "gone" THEN beat.flush.secs ELSE 0
  BY <1>1, Numbers DEF BeatAdds, AddQuanta, Add, TypeOK
<1>5. TypeOK' /\ TickShape' /\ BeatShape'
  BY <1>1, <1>2, <1>3, <1>4, TimeAssumption DEF TypeOK, Shape, TickShape, BeatShape
<1>6. ASSUME NEW q \in Researches
      PROVE  /\ slice'[q].age = slice[q].age /\ ledger'[q] >= ledger[q]
             /\ ~IsOpen(q) => slice'[q] = slice[q]
             /\ "tick" \in slice'[q].held => tick'.flush.on = q
             /\ "beat" \in slice'[q].held => beat'.flush.on = q
             /\ Undisturbed(q) =>
                  slice'[q].saved + Owing(q)' - ledger'[q] <= slice[q].saved + Owing(q) - ledger[q]
  <2>1. SliceFits(q)
    BY DEF Shape, SliceShape
  <2>2. Owing(q)' <= Owing(q) + IF q = r THEN beat.flush.secs ELSE 0
    <3>1. Owed("tick", tick.flush, q)' = Owed("tick", tick.flush, q)
          /\ Owed("tick", tick.flush, q) \in Nat
      BY <1>2 DEF Owed, TypeOK, Ticks, Flushes
    <3>2. Owed("beat", beat.flush, q) = 0
          /\ Owed("beat", beat.flush, q)' \in {0, IF q = r THEN beat.flush.secs ELSE 0}
      BY <1>1, <1>2, <1>3 DEF Owed
    <3>3. QED BY <3>1, <3>2, Numbers DEF Owing
  <2>3. Owing(q)' \in Nat
    BY <1>5 DEF Owing, Owed, TypeOK, Ticks, Beats, Flushes
  <2>4. QED BY <1>1, <1>2, <1>3, <1>4, <2>1, <2>2, <2>3, Numbers DEF SliceFits, Undisturbed
<1>7. ASSUME NEW q \in Researches, Alone(q)'
      PROVE  /\ slice'[q].saved + Owing(q)' - ledger'[q] = slice[q].saved + Owing(q) - ledger[q]
             /\ IF IsOpen(q) THEN slice'[q].saved <= slice[q].age ELSE ledger'[q] = ledger[q]
             /\ Holds("tick", tick.flush, q)' /\ Holds("beat", beat.flush, q)'
             /\ tick'.flush.on = q => beat'.flush.on # q
  <2>1. ChargedOnceFor(q) /\ st[q] # "gone"
    BY <1>2, <1>7 DEF ChargeInv, Alone, Undisturbed
  <2>2. Holds("tick", tick.flush, q)' /\ Holds("beat", beat.flush, q)'
    BY <1>1, <1>2, <1>3, <2>1 DEF ChargedOnceFor, Holds, IsOpen
  <2>3. Owing(q)' = Owing(q) + IF q = r THEN beat.flush.secs ELSE 0
    <3>1. Owed("tick", tick.flush, q)' = Owed("tick", tick.flush, q)
          /\ Owed("tick", tick.flush, q) \in Nat
      BY <1>2 DEF Owed, TypeOK, Ticks, Flushes
    <3>2. Owed("beat", beat.flush, q) = 0
          /\ Owed("beat", beat.flush, q)' = IF q = r THEN beat.flush.secs ELSE 0
      BY <1>1, <1>2, <1>3, <2>1 DEF Owed, ChargedOnceFor, Holds
    <3>3. QED BY <3>1, <3>2, Numbers DEF Owing
  <2>4. ~IsOpen(q) => q # r
    BY <1>1, <2>1 DEF ChargedOnceFor, Holds
  <2>5. QED BY <1>1, <1>2, <1>3, <1>4, <2>1, <2>2, <2>3, <2>4, Numbers DEF ChargedOnceFor
<1>8. QED BY <1>2, <1>3, <1>5, <1>6, <1>7, FlushMoves

(* It advances last_persisted.                                              *)
LEMMA BeatAdvancesStep ==
  ASSUME Inv, BeatAdvances
  PROVE  Inv'
<1> USE DEF Inv
<1>1. beat.flush.on \in Researches /\ beat.pc = "round" /\ beat.flush.pc = "advance"
      /\ beat.flush \in Flushes
  BY DEF BeatAdvances, Shape, BeatShape, TypeOK, Beats, Flushes
<1>2. UNCHANGED <<st, total, ledger, shared, tick, cmd, time, late, ran, cut, stopped, overlaps, cuts>>
  BY DEF BeatAdvances, rows, ghosts
<1>3. beat' \in Beats /\ beat'.pc = beat.pc /\ beat'.flush.pc = "none" /\ beat'.flush.on = None
  BY <1>1, Records DEF BeatAdvances, TypeOK, Beats, NoFlush
<1>4. /\ slice' \in [Researches -> Slices]
      /\ \A q \in Researches :
           /\ slice'[q].age = slice[q].age
           /\ slice'[q].saved = slice[q].saved + Owed("beat", beat.flush, q)
           /\ "beat" \in slice'[q].held => "beat" \in slice[q].held /\ q # beat.flush.on
           /\ "tick" \in slice'[q].held <=> "tick" \in slice[q].held
           /\ ~IsOpen(q) => slice'[q] = slice[q]
  BY <1>1, AdvanceSlices DEF BeatAdvances, Threads
<1>5. TypeOK' /\ TickShape' /\ BeatShape'
  <2>1. TypeOK'
    BY <1>2, <1>3, <1>4 DEF TypeOK
  <2>2. TickShape' /\ BeatShape'
    BY <1>1, <1>2, <1>3, TimeAssumption DEF Shape, TickShape, BeatShape
  <2>3. QED BY <2>1, <2>2
<1>6. ASSUME NEW q \in Researches
      PROVE  /\ slice'[q].age = slice[q].age /\ ledger'[q] >= ledger[q]
             /\ ~IsOpen(q) => slice'[q] = slice[q]
             /\ "tick" \in slice'[q].held => tick'.flush.on = q
             /\ "beat" \in slice'[q].held => beat'.flush.on = q
             /\ slice'[q].saved + Owing(q)' - ledger'[q] <= slice[q].saved + Owing(q) - ledger[q]
             /\ slice'[q].saved + Owing(q)' - ledger'[q] = slice[q].saved + Owing(q) - ledger[q]
  <2>1. SliceFits(q)
    BY DEF Shape, SliceShape
  <2>2. /\ slice'[q].age = slice[q].age
        /\ slice'[q].saved = slice[q].saved + Owed("beat", beat.flush, q)
        /\ ~IsOpen(q) => slice'[q] = slice[q]
        /\ "tick" \in slice'[q].held <=> "tick" \in slice[q].held
    BY <1>4
  <2>3. "beat" \notin slice'[q].held
    BY <1>1, <1>4, <2>1 DEF SliceFits
  <2>4. /\ Owed("beat", beat.flush, q)' = 0
        /\ Owed("tick", tick.flush, q)' = Owed("tick", tick.flush, q)
        /\ Owed("tick", tick.flush, q) \in Nat /\ Owed("beat", beat.flush, q) \in Nat
    BY <1>2, <1>3, <2>2 DEF Owed, TypeOK, Ticks, Beats, Flushes
  <2>5. "tick" \in slice'[q].held => tick'.flush.on = q
    BY <1>2, <2>1, <2>2 DEF SliceFits
  <2>6. QED BY <1>2, <2>2, <2>3, <2>4, <2>5, Numbers DEF Owing
<1>7. ASSUME NEW q \in Researches, Alone(q)'
      PROVE  /\ IF IsOpen(q) THEN slice'[q].saved <= slice[q].age ELSE ledger'[q] = ledger[q]
             /\ Holds("tick", tick.flush, q)' /\ Holds("beat", beat.flush, q)'
             /\ tick'.flush.on = q => beat'.flush.on # q
  <2>1. ChargedOnceFor(q) /\ q # None
    BY <1>2, <1>7, TimeAssumption DEF ChargeInv, Alone, Undisturbed
  <2>2. /\ slice'[q].age = slice[q].age
        /\ slice'[q].saved = slice[q].saved + Owed("beat", beat.flush, q)
        /\ "tick" \in slice'[q].held <=> "tick" \in slice[q].held
    BY <1>4
  <2>3. \/ Owed("beat", beat.flush, q) = 0
        \/ beat.flush.on = q /\ Owed("beat", beat.flush, q) = beat.flush.secs
    BY DEF Owed
  <2>4. IsOpen(q) => slice'[q].saved <= slice[q].age
    BY <2>1, <2>2, <2>3, Numbers DEF ChargedOnceFor, Holds
  <2>5. Holds("beat", beat.flush, q)'
    BY <1>3, <2>1 DEF Holds
  <2>6. Holds("tick", tick.flush, q)'
    <3>1. tick.flush.on = q => Owed("beat", beat.flush, q) = 0
      BY <2>1 DEF ChargedOnceFor, Owed
    <3>2. QED BY <1>2, <2>1, <2>2, <3>1, Numbers DEF ChargedOnceFor, Holds, IsOpen
  <2>7. QED BY <1>2, <1>3, <2>1, <2>4, <2>5, <2>6
<1>8. QED BY <1>2, <1>3, <1>5, <1>6, <1>7, FlushMoves

(* The heartbeat ends before it has added anything.                         *)
LEMMA BeatDiesStep ==
  ASSUME Inv, BeatDies
  PROVE  Inv'
<1> USE DEF Inv
<1>1. UNCHANGED <<rows, shared, tick, cmd, time, late, ran, cut, stopped, overlaps>>
      /\ cuts' \in Nat
  BY DEF BeatDies, TypeOK
<1>2. beat.flush.pc # "advance"
  BY DEF BeatDies, Shape, BeatShape
<1>3. beat' \in Beats /\ beat'.flush.pc = "none" /\ beat'.flush.on = None
  BY Records DEF BeatDies, NoBeat, NoFlush, Beats
<1>4. /\ slice' \in [Researches -> Slices]
      /\ \A q \in Researches :
           /\ slice'[q].age = slice[q].age /\ slice'[q].saved = slice[q].saved
           /\ slice'[q].held = slice[q].held \ {"beat"}
           /\ slice[q].held = {} => slice'[q] = slice[q]
  <2>1. ASSUME NEW x \in Slices
        PROVE  LET y == [x EXCEPT !.held = @ \ {"beat"}]
               IN  /\ y \in Slices /\ y.age = x.age /\ y.saved = x.saved /\ y.held = x.held \ {"beat"}
                   /\ x.held = {} => y = x
    BY DEF Slices
  <2>2. slice' = [q \in Researches |-> [slice[q] EXCEPT !.held = @ \ {"beat"}]]
    BY DEF BeatDies
  <2>3. QED BY <2>1, <2>2 DEF TypeOK
<1>5. TypeOK' /\ TickShape' /\ BeatShape'
  BY <1>1, <1>3, <1>4 DEF TypeOK, Shape, TickShape, BeatShape, rows
<1>6. ASSUME NEW q \in Researches
      PROVE  /\ slice'[q].age = slice[q].age /\ ledger'[q] >= ledger[q]
             /\ ~IsOpen(q) => slice'[q] = slice[q]
             /\ "tick" \in slice'[q].held => tick'.flush.on = q
             /\ "beat" \in slice'[q].held => beat'.flush.on = q
             /\ slice'[q].saved + Owing(q)' - ledger'[q] <= slice[q].saved + Owing(q) - ledger[q]
             /\ slice'[q].saved + Owing(q)' - ledger'[q] = slice[q].saved + Owing(q) - ledger[q]
  <2>1. SliceFits(q)
    BY DEF Shape, SliceShape
  <2>2. Owing(q)' = Owing(q)
    BY <1>1, <1>2, <1>3, <1>4 DEF Owing, Owed
  <2>3. QED BY <1>1, <1>4, <2>1, <2>2, Slots, Numbers DEF SliceFits, rows
<1>7. ASSUME NEW q \in Researches, Alone(q)'
      PROVE  /\ IF IsOpen(q) THEN slice'[q].saved <= slice[q].age ELSE ledger'[q] = ledger[q]
             /\ Holds("tick", tick.flush, q)' /\ Holds("beat", beat.flush, q)'
             /\ tick'.flush.on = q => beat'.flush.on # q
  <2>1. ChargedOnceFor(q) /\ q # None
    BY <1>1, <1>7, TimeAssumption DEF ChargeInv, Alone, Undisturbed, rows
  <2>2. QED BY <1>1, <1>3, <1>4, <2>1 DEF ChargedOnceFor, Holds, IsOpen, rows
<1>8. QED BY <1>1, <1>3, <1>5, <1>6, <1>7, FlushMoves DEF rows

-----------------------------------------------------------------------------
(* Commands                                                                *)

(* A command reads the row.                                                 *)
LEMMA CmdLoadStep ==
  ASSUME Inv, NEW c \in Commands, NEW r \in Researches, NEW op \in Ops, CmdLoad(c, r, op)
  PROVE  Inv'
<1> USE DEF Inv
<1> DEFINE new == [NoCmd EXCEPT !.pc = "loaded", !.on = r, !.op = op, !.base = total[r],
                                !.fresh = TRUE]
<1>1. /\ new \in Cmds /\ new.pc = "loaded" /\ new.on = r /\ new.base = total[r]
      /\ new.elapsed = 0 /\ new.fresh
  BY Records, Numbers DEF Cmds, NoCmd
<1>2. cmd' = [cmd EXCEPT ![c] = new]
  BY DEF CmdLoad
<1> HIDE DEF new
<1>3. UNCHANGED <<rows, budget, tick, beat, ghosts>>
  BY DEF CmdLoad
<1>4. cmd' \in [Commands -> Cmds]
      /\ \A d \in Commands : cmd'[d] = IF d = c THEN new ELSE cmd[d]
  BY <1>1, <1>2 DEF TypeOK
<1>5. CmdShape'
  BY <1>1, <1>4 DEF Shape, CmdShape
<1>6. FreshInv'
  BY <1>1, <1>3, <1>4 DEF FreshInv, rows
<1>7. StopInv'
  BY <1>1, <1>3, <1>4 DEF StopInv, ghosts
<1>8. QED BY <1>3, <1>4, <1>5, <1>6, <1>7, QuietCommand DEF budget, ghosts, TypeOK

(* It tells the budget: only a stop closes a slice, and its research is     *)
(* disturbed from then on.                                                  *)
LEMMA CmdClockStep ==
  ASSUME Inv, NEW c \in Commands, NEW r \in Researches, r = cmd[c].on, CmdClock(c)
  PROVE  Inv'
<1> USE DEF Inv
<1> DEFINE own == cmd[c].op = "stop" /\ IsOpen(r)
           lent == cmd[c].op = "stop" /\ ~own /\ shared # Closed
           age == IF own THEN slice[r].age ELSE IF lent THEN shared ELSE 0
           new == [cmd[c] EXCEPT !.pc = "clocked", !.elapsed = age]
<1>1. cmd[c].pc = "loaded" /\ cmd[c] \in Cmds /\ slice[r] \in Slices
  BY DEF CmdClock, TypeOK, Shape, CmdShape
<1>2. age \in Nat /\ (cmd[c].op # "stop" => age = 0)
  BY <1>1, Numbers DEF TypeOK
<1>3. /\ UNCHANGED <<rows, tick, beat, time, late, ran, cut, overlaps, cuts>>
      /\ slice' = IF own THEN Pop(r) ELSE slice
      /\ shared' \in Nat \cup {Closed}
      /\ stopped' = IF cmd[c].op = "stop" THEN stopped \cup {r} ELSE stopped
      /\ cmd' = [cmd EXCEPT ![c] = new]
  BY <1>1 DEF CmdClock, TypeOK
<1>4. own => cmd[c].op = "stop"
  OBVIOUS
<1> HIDE DEF own, age
<1>5. /\ new \in Cmds /\ new.pc = "clocked" /\ new.on = r /\ new.op = cmd[c].op
      /\ new.base = cmd[c].base /\ new.elapsed = age /\ new.fresh = cmd[c].fresh
  BY <1>1, <1>2 DEF Cmds
<1> HIDE DEF new
<1>6. cmd' \in [Commands -> Cmds]
      /\ \A d \in Commands : cmd'[d] = IF d = c THEN new ELSE cmd[d]
  BY <1>3, <1>5 DEF TypeOK
<1>7. CmdShape'
  BY <1>1, <1>5, <1>6 DEF Shape, CmdShape
<1>8. FreshInv'
  BY <1>3, <1>5, <1>6 DEF FreshInv, rows
<1>9. StopInv'
  BY <1>2, <1>3, <1>5, <1>6 DEF StopInv
<1>10. stopped \subseteq stopped' /\ stopped' \subseteq Researches
       /\ (own => r \in stopped')
  BY <1>1, <1>3, <1>4 DEF TypeOK
<1>11. CASE ~own
  BY <1>3, <1>6, <1>7, <1>8, <1>9, <1>10, <1>11, QuietCommand
<1>12. CASE own
  <2>1. slice' \in [Researches -> Slices]
        /\ \A q \in Researches : slice'[q] = IF q = r THEN NoSlice ELSE slice[q]
    BY <1>1, <1>3, <1>12, Records DEF Pop, TypeOK
  <2>2. TypeOK'
    BY <1>3, <1>6, <1>10, <2>1 DEF TypeOK, rows
  <2>3. ASSUME NEW q \in Researches, q # r
        PROVE  /\ slice'[q] = slice[q] /\ (IsOpen(q)' <=> IsOpen(q)) /\ Owing(q)' = Owing(q)
               /\ Undisturbed(q)' => Undisturbed(q)
               /\ Holds("tick", tick.flush, q)' <=> Holds("tick", tick.flush, q)
               /\ Holds("beat", beat.flush, q)' <=> Holds("beat", beat.flush, q)
    BY <1>3, <1>10, <2>1, <2>3 DEF IsOpen, Owing, Owed, Undisturbed, Holds, rows
  <2>4. ~Undisturbed(r)' /\ ~IsOpen(r)'
    BY <1>1, <1>10, <1>12, <2>1, Slots DEF Undisturbed, IsOpen
  <2>5. Shape'
    <3>1. TickShape' /\ BeatShape'
      BY <1>3 DEF Shape, TickShape, BeatShape
    <3>2. SliceShape'
      BY <1>1, <1>3, <2>1, <2>3, <2>4, Slots DEF Shape, SliceShape, SliceFits
    <3>3. QED BY <1>7, <3>1, <3>2 DEF Shape
  <2>6. ASSUME NEW q \in Researches, Undisturbed(q)' PROVE Leads(q)'
    BY <1>3, <2>3, <2>4, <2>6 DEF LeadInv, Leads, rows
  <2>7. ASSUME NEW q \in Researches, Alone(q)' PROVE ChargedOnceFor(q)'
    <3>1. q # r /\ ChargedOnceFor(q)
      BY <1>3, <2>3, <2>4, <2>7 DEF Alone, ChargeInv
    <3>2. QED BY <1>3, <2>3, <3>1 DEF ChargedOnceFor, rows
  <2>8. QED BY <1>8, <1>9, <2>2, <2>5, <2>6, <2>7 DEF LeadInv, ChargeInv
<1>13. QED BY <1>11, <1>12

(* It writes the row, or is refused.                                        *)
LEMMA CmdSaveStep ==
  ASSUME Inv, NEW c \in Commands, CmdSave(c)
  PROVE  Inv'
<1> USE DEF Inv
<1> DEFINE r == cmd[c].on
<1>1. cmd[c].pc = "clocked" /\ cmd[c] \in Cmds /\ r \in Researches
  BY DEF CmdSave, TypeOK, Shape, CmdShape
<1>2. UNCHANGED <<ledger, budget, beat, ghosts>>
  BY DEF CmdSave
<1>3. Done.pc = "done" /\ ~Done.fresh
  BY DEF Done, NoCmd
<1>4. CASE ~Fits(c)
  <2>1. cmd' = [cmd EXCEPT ![c] = Done] /\ UNCHANGED <<st, total, tick>>
    BY <1>4 DEF CmdSave
  <2>2. cmd' \in [Commands -> Cmds]
        /\ \A d \in Commands : cmd'[d] = IF d = c THEN Done ELSE cmd[d]
    BY <2>1, Records DEF TypeOK
  <2>3. CmdShape'
    BY <1>3, <2>2 DEF Shape, CmdShape
  <2>4. FreshInv'
    BY <1>2, <1>3, <2>1, <2>2 DEF FreshInv
  <2>5. StopInv'
    BY <1>2, <1>3, <2>2 DEF StopInv, ghosts
  <2>6. QED BY <1>2, <2>1, <2>2, <2>3, <2>4, <2>5, QuietCommand DEF rows, budget, ghosts, TypeOK
<1>5. CASE Fits(c)
  <2>1. /\ st' = [st EXCEPT ![r] = Status(cmd[c].op, @)]
        /\ total' = [total EXCEPT ![r] = cmd[c].base + cmd[c].elapsed]
        /\ cmd' = [CmdsStale(r) EXCEPT ![c] = Done] /\ tick' = TickStale(r)
    BY <1>5 DEF CmdSave
  <2>2. st[r] # "gone" /\ cmd[c].base = total[r] /\ cmd[c].elapsed \in Nat
    BY <1>1, <1>5 DEF Fits, FreshInv, Cmds
  <2>3. Status(cmd[c].op, st[r]) \in {"running", "idle"}
    BY <1>1, <2>2 DEF Status, TypeOK
  <2>4. /\ st' \in [Researches -> {"running", "idle", "gone"}]
        /\ total' \in [Researches -> Nat]
        /\ \A q \in Researches : (st'[q] = "gone" <=> st[q] = "gone")
        /\ \A q \in Researches : total'[q] = total[q] + IF q = r THEN cmd[c].elapsed ELSE 0
    BY <1>1, <2>1, <2>2, <2>3 DEF TypeOK
  <2>5. cmd' \in [Commands -> Cmds]
        /\ cmd'[c] = Done
        /\ \A d \in Commands \ {c} :
              /\ cmd'[d].pc = cmd[d].pc /\ cmd'[d].on = cmd[d].on /\ cmd'[d].op = cmd[d].op
              /\ cmd'[d].base = cmd[d].base /\ cmd'[d].elapsed = cmd[d].elapsed
              /\ cmd'[d].fresh <=> cmd[d].fresh /\ cmd[d].on # r
    BY <2>1, CmdsStaleIs, Records
  <2>6. /\ tick' \in Ticks
        /\ tick'.pc = tick.pc /\ tick'.on = tick.on /\ tick'.base = tick.base
        /\ tick'.elapsed = tick.elapsed /\ tick'.rest = tick.rest /\ tick'.flush = tick.flush
        /\ tick'.fresh <=> tick.fresh /\ tick.on # r
    BY <2>1, TickStaleIs
  <2>7. TypeOK'
    BY <1>2, <2>4, <2>5, <2>6 DEF TypeOK, budget, ghosts
  <2>8. \A q \in Researches :
          /\ (Undisturbed(q)' <=> Undisturbed(q)) /\ (Alone(q)' <=> Alone(q))
          /\ (IsOpen(q)' <=> IsOpen(q)) /\ Owing(q)' = Owing(q)
    BY <1>2, <2>4, <2>6 DEF Undisturbed, Alone, IsOpen, Owing, Owed, budget, ghosts
  <2>9. Shape'
    <3>1. TickShape' /\ BeatShape'
      BY <1>2, <2>6 DEF Shape, TickShape, BeatShape
    <3>2. CmdShape'
      BY <1>3, <2>5 DEF Shape, CmdShape
    <3>3. SliceShape'
      BY <1>2, <2>6, <2>8 DEF Shape, SliceShape, SliceFits, budget
    <3>4. QED BY <3>1, <3>2, <3>3 DEF Shape
  <2>10. FreshInv'
    <3>1. tick'.fresh => tick'.pc # "idle" /\ st'[tick'.on] # "gone" /\ tick'.base >= total'[tick'.on]
      <4>1. tick.pc # "idle" => tick.on \in Researches
        BY TickHasResearch DEF Shape
      <4>2. QED BY <2>4, <2>6, <4>1, Numbers DEF FreshInv
    <3>2. \A d \in Commands : cmd'[d].fresh =>
             cmd'[d].on \in Researches /\ cmd'[d].base = total'[cmd'[d].on]
      <4>1. ASSUME NEW d \in Commands, cmd'[d].fresh
            PROVE  cmd'[d].on \in Researches /\ cmd'[d].base = total'[cmd'[d].on]
        <5>1. d # c
          BY <1>3, <2>5, <4>1
        <5>2. cmd[d].fresh /\ cmd[d].on # r /\ cmd'[d].on = cmd[d].on /\ cmd'[d].base = cmd[d].base
          BY <2>5, <4>1, <5>1
        <5>3. cmd[d].on \in Researches /\ cmd[d].base = total[cmd[d].on]
          BY <5>2 DEF FreshInv
        <5>4. total'[cmd[d].on] = total[cmd[d].on]
          BY <2>4, <5>2, <5>3, Numbers
        <5>5. QED BY <5>2, <5>3, <5>4
      <4>2. QED BY <4>1
    <3>3. QED BY <3>1, <3>2 DEF FreshInv
  <2>11. StopInv'
    BY <1>2, <1>3, <2>5 DEF StopInv, ghosts
  <2>12. ASSUME NEW q \in Researches, Undisturbed(q)' PROVE Leads(q)'
    <3>1. Leads(q) /\ Undisturbed(q)
      BY <2>8, <2>12 DEF LeadInv
    <3>2. q = r => cmd[c].elapsed = 0
      BY <1>1, <3>1 DEF StopInv, Undisturbed
    <3>3. total'[q] = total[q]
      BY <2>4, <3>2, Numbers
    <3>4. QED BY <1>2, <2>6, <2>8, <3>1, <3>3 DEF Leads, budget
  <2>13. ChargeInv'
    BY <1>2, <2>6, <2>8 DEF ChargeInv, ChargedOnceFor, Holds, IsOpen, budget, ghosts
  <2>14. QED BY <2>7, <2>9, <2>10, <2>11, <2>12, <2>13 DEF LeadInv
<1>6. QED BY <1>4, <1>5

(* A deletion takes the row from whoever has read it.                       *)
LEMMA DeleteStep ==
  ASSUME Inv, NEW c \in Commands, NEW r \in Researches, Delete(c, r)
  PROVE  Inv'
<1> USE DEF Inv
<1>1. /\ UNCHANGED <<total, ledger, budget, beat, ghosts>>
      /\ st' = [st EXCEPT ![r] = "gone"] /\ tick' = TickStale(r)
      /\ cmd' = [CmdsStale(r) EXCEPT ![c] = Done]
  BY DEF Delete
<1>2. Done.pc = "done" /\ ~Done.fresh
  BY DEF Done, NoCmd
<1>3. /\ st' \in [Researches -> {"running", "idle", "gone"}]
      /\ \A q \in Researches : st'[q] = IF q = r THEN "gone" ELSE st[q]
  BY <1>1 DEF TypeOK
<1>4. cmd' \in [Commands -> Cmds]
      /\ cmd'[c] = Done
      /\ \A d \in Commands \ {c} :
            /\ cmd'[d].pc = cmd[d].pc /\ cmd'[d].on = cmd[d].on /\ cmd'[d].op = cmd[d].op
            /\ cmd'[d].base = cmd[d].base /\ cmd'[d].elapsed = cmd[d].elapsed
            /\ cmd'[d].fresh <=> cmd[d].fresh /\ cmd[d].on # r
  BY <1>1, CmdsStaleIs, Records
<1>5. /\ tick' \in Ticks
      /\ tick'.pc = tick.pc /\ tick'.on = tick.on /\ tick'.base = tick.base
      /\ tick'.elapsed = tick.elapsed /\ tick'.rest = tick.rest /\ tick'.flush = tick.flush
      /\ tick'.fresh <=> tick.fresh /\ tick.on # r
  BY <1>1, TickStaleIs
<1>6. TypeOK'
  BY <1>1, <1>3, <1>4, <1>5 DEF TypeOK, budget, ghosts
<1>7. \A q \in Researches :
        /\ (Undisturbed(q)' => Undisturbed(q)) /\ (Alone(q)' => Alone(q))
        /\ (IsOpen(q)' <=> IsOpen(q)) /\ Owing(q)' = Owing(q)
  BY <1>1, <1>3, <1>5 DEF Undisturbed, Alone, IsOpen, Owing, Owed, budget, ghosts
<1>8. Shape'
  <2>1. TickShape' /\ BeatShape'
    BY <1>1, <1>5 DEF Shape, TickShape, BeatShape
  <2>2. CmdShape'
    BY <1>2, <1>4 DEF Shape, CmdShape
  <2>3. SliceShape'
    BY <1>1, <1>5, <1>7 DEF Shape, SliceShape, SliceFits, budget
  <2>4. QED BY <2>1, <2>2, <2>3 DEF Shape
<1>9. FreshInv'
  <2>1. tick'.fresh => tick'.pc # "idle" /\ st'[tick'.on] # "gone" /\ tick'.base >= total'[tick'.on]
    <3>1. tick.pc # "idle" => tick.on \in Researches
      BY TickHasResearch DEF Shape
    <3>2. QED BY <1>1, <1>3, <1>5, <3>1 DEF FreshInv
  <2>2. \A d \in Commands : cmd'[d].fresh =>
           cmd'[d].on \in Researches /\ cmd'[d].base = total'[cmd'[d].on]
    BY <1>1, <1>2, <1>4 DEF FreshInv
  <2>3. QED BY <2>1, <2>2 DEF FreshInv
<1>10. StopInv'
  BY <1>1, <1>2, <1>4 DEF StopInv, ghosts
<1>11. LeadInv'
  BY <1>1, <1>5, <1>7 DEF LeadInv, Leads, budget
<1>12. ChargeInv'
  BY <1>1, <1>5, <1>7 DEF ChargeInv, ChargedOnceFor, Holds, IsOpen, budget, ghosts
<1>13. QED BY <1>6, <1>8, <1>9, <1>10, <1>11, <1>12

-----------------------------------------------------------------------------
(* The clock, and the end of the process                                   *)

(* A unit passes: only the slice of the tick at work is open, and it ages   *)
(* as the tick runs.                                                        *)
LEMMA PassStep ==
  ASSUME Inv, Pass
  PROVE  Inv'
<1> USE DEF Inv
<1>1. UNCHANGED <<rows, tick, cmd, cut, stopped, overlaps, cuts>>
  BY DEF Pass
<1>2. /\ slice' \in [Researches -> Slices]
      /\ \A q \in Researches :
           /\ slice'[q].saved = slice[q].saved /\ slice'[q].held = slice[q].held
           /\ IsOpen(q) => slice'[q].age = slice[q].age + 1
           /\ ~IsOpen(q) => slice'[q] = slice[q]
  <2>1. ASSUME NEW q \in Researches, IsOpen(q)
        PROVE  LET x == [slice[q] EXCEPT !.age = @ + 1]
               IN  /\ x \in Slices /\ x.age = slice[q].age + 1
                   /\ x.saved = slice[q].saved /\ x.held = slice[q].held
    <3>1. slice[q] \in Slices /\ slice[q].age \in Nat
      BY <2>1, Numbers DEF TypeOK
    <3>2. QED BY <3>1 DEF Slices
  <2>2. slice' = [q \in Researches |-> IF IsOpen(q) THEN [slice[q] EXCEPT !.age = @ + 1]
                                       ELSE slice[q]]
    BY DEF Pass
  <2>3. QED BY <2>1, <2>2 DEF TypeOK
<1>3. /\ shared' \in Nat \cup {Closed} /\ time' \in Nat /\ late' \in Nat
      /\ beat' \in Beats /\ beat'.flush = beat.flush /\ beat'.pc = beat.pc
  BY DEF Pass, TypeOK, Beats, Closed
<1>4. /\ ran' \in [Researches -> Nat]
      /\ \A q \in Researches : ran'[q] = ran[q] + IF AtWork(q) THEN 1 ELSE 0
  BY DEF Pass, TypeOK
<1>5. TypeOK'
  BY <1>1, <1>2, <1>3, <1>4 DEF TypeOK, rows
<1>6. ASSUME NEW q \in Researches
      PROVE  /\ (IsOpen(q)' <=> IsOpen(q)) /\ Owing(q)' = Owing(q)
             /\ (Undisturbed(q)' <=> Undisturbed(q)) /\ (Alone(q)' <=> Alone(q))
  <2>1. IsOpen(q)' <=> IsOpen(q)
    BY <1>2, Numbers DEF IsOpen, Closed
  <2>2. Owing(q)' = Owing(q)
    BY <1>1, <1>2, <1>3 DEF Owing, Owed
  <2>3. QED BY <1>1, <2>1, <2>2 DEF Undisturbed, Alone, rows
<1>7. Shape'
  <2>1. TickShape' /\ BeatShape' /\ CmdShape'
    BY <1>1, <1>3 DEF Shape, TickShape, BeatShape, CmdShape
  <2>2. ASSUME NEW q \in Researches PROVE SliceFits(q)'
    BY <1>1, <1>2, <1>3, <1>6 DEF Shape, SliceShape, SliceFits
  <2>3. QED BY <2>1, <2>2 DEF Shape, SliceShape
<1>8. FreshInv' /\ StopInv'
  BY <1>1 DEF FreshInv, StopInv, rows
<1>9. ASSUME NEW q \in Researches, Undisturbed(q)' PROVE Leads(q)'
  BY <1>1, <1>2, <1>6, <1>9 DEF LeadInv, Leads, rows
<1>10. ASSUME NEW q \in Researches, Alone(q)' PROVE ChargedOnceFor(q)'
  <2>1. ChargedOnceFor(q)
    BY <1>6, <1>10 DEF ChargeInv
  <2>2. IsOpen(q) => AtWork(q)
    BY DEF Shape, SliceShape, SliceFits, AtWork, Here, Working, Ticking
  <2>3. /\ IsOpen(q) => ran'[q] = ran[q] + 1
        /\ ran'[q] >= ran[q]
    BY <1>4, <2>2, Numbers
  <2>4. IsOpen(q)' => /\ slice'[q].saved <= slice'[q].age
                      /\ ledger'[q] + slice'[q].age <= ran'[q] + slice'[q].saved + Owing(q)'
    BY <1>1, <1>2, <1>6, <2>1, <2>3, Numbers DEF ChargedOnceFor, rows
  <2>5. ~IsOpen(q)' => ledger'[q] <= ran'[q]
    <3>1. ran'[q] \in Nat
      BY <1>4
    <3>2. QED BY <1>1, <1>6, <2>1, <2>3, <3>1, Numbers DEF ChargedOnceFor, rows
  <2>6. tick'.on = q /\ tick'.pc = "rest" => ledger'[q] + tick'.rest <= ran'[q]
    <3>1. ran'[q] \in Nat
      BY <1>4
    <3>2. QED BY <1>1, <2>1, <2>3, <3>1, Numbers DEF ChargedOnceFor, rows
  <2>7. Holds("tick", tick.flush, q)' /\ Holds("beat", beat.flush, q)'
    BY <1>1, <1>2, <1>3, <1>6, <2>1, Numbers DEF ChargedOnceFor, Holds
  <2>8. tick'.flush.on = q => beat'.flush.on # q
    BY <1>1, <1>3, <2>1 DEF ChargedOnceFor
  <2>9. QED BY <2>4, <2>5, <2>6, <2>7, <2>8 DEF ChargedOnceFor
<1>11. QED BY <1>5, <1>7, <1>8, <1>9, <1>10 DEF LeadInv, ChargeInv

(* The process ends: the rows are what they were, and what was being        *)
(* flushed, or waited for its last fragment, is lost.                       *)
LEMMA CrashStep ==
  ASSUME Inv, Crash
  PROVE  Inv'
<1> USE DEF Inv
<1>1. /\ UNCHANGED <<rows, time, late, ran, stopped, overlaps>>
      /\ tick' = NoTick /\ beat' = NoBeat /\ shared' = Closed
      /\ slice' = [q \in Researches |-> NoSlice]
  BY DEF Crash
<1>2. Done.pc = "done" /\ ~Done.fresh /\ NoCmd.pc = "unsent" /\ ~NoCmd.fresh
  BY DEF Done, NoCmd
<1>3. /\ cmd' \in [Commands -> Cmds]
      /\ \A c \in Commands : cmd'[c].pc \in {"unsent", "done"} /\ ~cmd'[c].fresh
  BY <1>2, Records DEF Crash
<1>4. cuts' \in Nat /\ cut' \in [Researches -> Nat]
  BY DEF Crash, TypeOK
<1>5. TypeOK'
  BY <1>1, <1>3, <1>4, Records DEF TypeOK, rows
<1>6. BeatShape' /\ beat'.flush.on = None
  BY <1>1 DEF BeatShape, NoBeat, NoFlush
<1>7. CmdShape' /\ StopInv'
  BY <1>3 DEF CmdShape, StopInv
<1>8. ASSUME NEW q \in Researches, Undisturbed(q)'
      PROVE  Undisturbed(q) /\ total'[q] <= ledger[q]
  <2>1. Undisturbed(q)
    BY <1>1, <1>8 DEF Undisturbed, rows
  <2>2. QED BY <1>1, <2>1 DEF LeadInv, Leads, rows
<1>9. ASSUME NEW q \in Researches, Alone(q)' PROVE Alone(q) /\ beat'.flush.on # q
  BY <1>1, <1>6, <1>9, TimeAssumption DEF Alone, Undisturbed, rows
<1>10. QED BY <1>1, <1>3, <1>5, <1>6, <1>7, <1>8, <1>9, TickEnds DEF rows

-----------------------------------------------------------------------------
(* The theorems                                                            *)

(* Nothing has been run or charged when the engine starts.                  *)
LEMMA InitInv == Init => Inv
<1> SUFFICES ASSUME Init PROVE Inv
  OBVIOUS
<1>1. /\ tick.pc = "idle" /\ tick.on = None /\ ~tick.fresh
      /\ tick.flush.pc = "none" /\ tick.flush.on = None
      /\ beat.flush.pc = "none" /\ beat.flush.on = None
  BY DEF Init, NoTick, NoBeat, NoFlush
<1>2. TypeOK
  BY Records, TimeAssumption DEF Init, TypeOK
<1>3. \A c \in Commands : cmd[c].pc = "unsent" /\ ~cmd[c].fresh
  BY DEF Init, NoCmd
<1>4. \A q \in Researches : /\ slice[q] = NoSlice /\ ~IsOpen(q) /\ q # None
                            /\ total[q] = 0 /\ ledger[q] = 0 /\ ran[q] = 0
  BY Slots, TimeAssumption DEF Init, IsOpen
<1>5. Shape
  BY <1>1, <1>3, <1>4, Slots DEF Shape, TickShape, BeatShape, CmdShape, SliceShape, SliceFits
<1>6. FreshInv /\ StopInv
  BY <1>1, <1>3 DEF FreshInv, StopInv
<1>7. LeadInv
  BY <1>1, <1>4 DEF LeadInv, Leads
<1>8. ChargeInv
  BY <1>1, <1>4 DEF ChargeInv, ChargedOnceFor, Holds
<1>9. QED BY <1>2, <1>5, <1>6, <1>7, <1>8 DEF Inv

(* Every step of a thread, a command, the clock or a crash keeps it.        *)
LEMMA NextInv == Inv /\ [Next]_vars => Inv'
<1> SUFFICES ASSUME Inv, [Next]_vars PROVE Inv'
  OBVIOUS
<1>1. CASE Tick
  BY <1>1, TickLoadStep, TickLeavesStep, TickBeginStep, TickPersistsStep, TickGathersStep,
     TickBuildsStep, TickDecidesStep, TickReadsStep, TickAddsStep, TickAdvancesStep,
     TickClosesStep, TickRestsStep, TickCommitsStep, TickFailsStep, TickRemovedStep DEF Tick
<1>2. CASE Beat
  BY <1>2, BeatWakesStep, BeatReadsStep, BeatAddsStep, BeatAdvancesStep, BeatWaitsStep,
     BeatDiesStep DEF Beat
<1>3. ASSUME NEW c \in Commands, Command(c) PROVE Inv'
  <2>1. CmdClock(c) => cmd[c].on \in Researches
    BY DEF CmdClock, Inv, Shape, CmdShape
  <2>2. CmdClock(c) => Inv'
    BY <2>1, CmdClockStep
  <2>3. QED BY <1>3, <2>2, CmdLoadStep, CmdSaveStep, DeleteStep DEF Command
<1>4. CASE UNCHANGED vars
  BY <1>4 DEF vars, rows, budget, ghosts, Inv, TypeOK, Shape, TickShape, BeatShape, CmdShape,
     SliceShape, SliceFits, FreshInv, StopInv, LeadInv, Leads, ChargeInv, ChargedOnceFor, Alone,
     Holds, Undisturbed, IsOpen, Owing, Owed
<1>5. QED BY <1>1, <1>2, <1>3, <1>4, PassStep, CrashStep DEF Next

(* The invariant of every behaviour.                                        *)
THEOREM InvAlways == Spec => []Inv
BY InitInv, NextInv, PTL DEF Spec

(* At every moment neither sum of an undisturbed research is above what its *)
(* ticks ran, and the ledger covers the total (clock.py:17, loop.py:834).      *)
THEOREM TimeIsNotOverchargedAlways == Spec => []TimeIsNotOvercharged
<1>1. Inv => TimeIsNotOvercharged
  <2> SUFFICES ASSUME Inv PROVE TimeIsNotOvercharged
    OBVIOUS
  <2>1. LedgerLeads
    BY DEF Inv, LedgerLeads, LeadInv, Leads
  <2>2. ASSUME NEW r \in Researches, Undisturbed(r), r \notin overlaps
        PROVE  Charged(r) <= ran[r]
    <3>1. ChargedOnceFor(r) /\ total[r] <= ledger[r]
      BY <2>2 DEF Inv, ChargeInv, LeadInv, Leads, Alone
    <3>2. ledger[r] <= ran[r]
      BY <3>1, SlicesCover DEF Inv
    <3>3. QED BY <3>1, <3>2, Numbers DEF Charged, Larger, Inv
  <2>3. QED BY <2>1, <2>2 DEF TimeIsNotOvercharged, ChargedForItsTicks, Inv
<1>2. QED BY <1>1, InvAlways, PTL

(* What a step of a flush or a last fragment does to the ledger.            *)
LEMMA AddGrows ==
  ASSUME TypeOK, NEW r \in Researches, NEW secs \in Nat, Add(r, secs)
  PROVE  \A q \in Researches : ledger'[q] >= ledger[q]
  BY DEF Add, TypeOK

(* A tick or a command that may still write the row writes no less than it  *)
(* has: it read the row after the last write of another, and only adds.     *)
LEMMA NothingBack ==
  ASSUME Inv, [Next]_vars
  PROVE  \A r \in Researches : total'[r] >= total[r] /\ ledger'[r] >= ledger[r]
<1> DEFINE Kept == \A r \in Researches : total'[r] >= total[r] /\ ledger'[r] >= ledger[r]
<1>1. TypeOK
  BY DEF Inv
<1>2. \A r \in Researches : total[r] \in Nat /\ ledger[r] \in Nat
  BY <1>1 DEF TypeOK
<1>3. ASSUME UNCHANGED <<total, ledger>> PROVE Kept
  BY <1>2, <1>3
<1>4. CASE TickLeaves \/ TickCommits
  <2>1. tick \in Ticks /\ tick.base \in Nat /\ tick.base + tick.elapsed \in Nat
    BY <1>1 DEF TypeOK, Ticks
  <2>2. ledger' = ledger
    BY <1>4 DEF TickLeaves, TickCommits
  <2>3. \/ total' = total
        \/ /\ tick.fresh
           /\ \E n \in Nat : n >= tick.base /\ total' = [total EXCEPT ![tick.on] = n]
    BY <1>4, <2>1 DEF TickLeaves, TickCommits, Ticks
  <2>4. tick.fresh => tick.base >= total[tick.on]
    BY DEF Inv, FreshInv
  <2>5. CASE total' = total
    BY <1>3, <2>2, <2>5
  <2>6. ASSUME tick.fresh, NEW n \in Nat, n >= tick.base, total' = [total EXCEPT ![tick.on] = n]
        PROVE  Kept
    BY <1>1, <1>2, <2>1, <2>2, <2>4, <2>6 DEF TypeOK
  <2>7. QED BY <2>3, <2>5, <2>6
<1>5. ASSUME NEW c \in Commands, CmdSave(c) PROVE Kept
  <2>1. ledger' = ledger
    BY <1>5 DEF CmdSave
  <2>2. CASE ~Fits(c)
    BY <1>3, <1>5, <2>1, <2>2 DEF CmdSave
  <2>3. CASE Fits(c)
    <3>1. cmd[c] \in Cmds /\ cmd[c].elapsed \in Nat
      BY <1>1 DEF TypeOK, Cmds
    <3>2. cmd[c].on \in Researches /\ cmd[c].base = total[cmd[c].on]
      BY <2>3 DEF Fits, Inv, FreshInv
    <3>3. total' = [total EXCEPT ![cmd[c].on] = cmd[c].base + cmd[c].elapsed]
      BY <1>5, <2>3 DEF CmdSave
    <3>4. QED BY <1>1, <1>2, <2>1, <3>1, <3>2, <3>3 DEF TypeOK
  <2>4. QED BY <2>2, <2>3
<1>6. CASE TickAdds \/ TickRests
  <2>1. tick.pc # "idle" /\ total' = total
    BY <1>6 DEF TickAdds, TickRests, Here
  <2>2. tick.on \in Researches
    BY <1>1, <2>1, TickHasResearch DEF Inv, Shape
  <2>3. tick.rest \in Nat /\ tick.flush.secs \in Nat
    BY <1>1, <2>2, Numbers
  <2>4. TickAdds => tick.flush.on = tick.on
    BY DEF TickAdds, Inv, Shape, TickShape
  <2>5. Add(tick.on, tick.flush.secs) \/ Add(tick.on, tick.rest)
    BY <1>6, <2>4 DEF TickAdds, TickRests, AddQuanta
  <2>6. \A q \in Researches : ledger'[q] >= ledger[q]
    BY <1>1, <2>2, <2>3, <2>5, AddGrows
  <2>7. QED BY <1>2, <2>1, <2>6
<1>7. CASE BeatAdds
  <2>1. beat.flush \in Flushes /\ beat.flush.on # None
    BY <1>1, <1>7 DEF TypeOK, Beats, BeatAdds, Inv, Shape, BeatShape
  <2>2. beat.flush.on \in Researches /\ beat.flush.secs \in Nat
    BY <2>1 DEF Flushes
  <2>3. \A q \in Researches : ledger'[q] >= ledger[q]
    BY <1>1, <1>7, <2>2, AddGrows DEF BeatAdds, AddQuanta
  <2>4. QED BY <1>2, <1>7, <2>3 DEF BeatAdds
<1>8. CASE Tick
  <2>1. UNCHANGED <<total, ledger>> \/ TickLeaves \/ TickCommits \/ TickAdds \/ TickRests
    BY <1>8 DEF Tick, TickLoad, TickBegin, TickPersists, TickGathers, TickBuilds, TickDecides,
       TickReads, TickAdvances, TickCloses, TickFails, TickRemoved, rows
  <2>2. QED BY <1>3, <1>4, <1>6, <2>1
<1>9. CASE Beat
  <2>1. UNCHANGED <<total, ledger>> \/ BeatAdds
    BY <1>9 DEF Beat, BeatWakes, BeatReads, BeatAdvances, BeatWaits, BeatDies, rows
  <2>2. QED BY <1>3, <1>7, <2>1
<1>10. ASSUME NEW c \in Commands, Command(c) PROVE Kept
  <2>1. UNCHANGED <<total, ledger>> \/ CmdSave(c)
    BY <1>10 DEF Command, CmdLoad, CmdClock, Delete, rows
  <2>2. QED BY <1>3, <1>5, <2>1
<1>11. CASE Pass \/ Crash \/ UNCHANGED vars
  BY <1>3, <1>11 DEF Pass, Crash, vars, rows
<1>12. QED BY <1>8, <1>9, <1>10, <1>11 DEF Next

(* Charged time is never given back: not by a command that loaded the row   *)
(* before a tick committed, nor by a tick that loaded it before a command   *)
(* (main.py:361, loop.py:976).                                              *)
THEOREM NeverGivenBackAlways == Spec => NeverGivenBack
<1>1. Inv /\ [Next]_vars =>
        [\A r \in Researches : total'[r] >= total[r] /\ ledger'[r] >= ledger[r]]_vars
  BY NothingBack
<1>2. QED BY <1>1, InvAlways, PTL DEF Spec, NeverGivenBack

-----------------------------------------------------------------------------
(* What carries the bound on a loss                                        *)

\* What an open slice has neither told the ledger nor is about to save, and what
\* the heartbeat has read of it and not added yet.
Unsaved(r) == slice[r].age - slice[r].saved - Owing(r)
Taking(r) ==
    IF beat.flush.pc = "add" /\ beat.flush.on = r /\ "beat" \in slice[r].held
    THEN beat.flush.secs ELSE 0

\* After a beat less than a quantum of a slice is unsaved, and it grows as the
\* beat waits or is late.
BeatBounds(r) ==
    /\ Unsaved(r) <= Loss
    /\ beat.pc = "wait" => Unsaved(r) <= Quantum - 1 + late + beat.age
    /\ beat.pc = "round" /\ r \notin beat.todo => Unsaved(r) <= Quantum - 1 + late + Taking(r)

\* What was run is in the ledger, in the open slice or in the last fragment.
Accounted(r) ==
    /\ IsOpen(r) => ran[r] <= ledger[r] + Unsaved(r) + cut[r] * Loss /\ BeatBounds(r)
    /\ tick.on = r /\ tick.pc = "rest" =>
          /\ ran[r] <= ledger[r] + tick.rest + cut[r] * Loss
          /\ ran[r] <= ledger[r] + cut[r] * Loss + Loss
    /\ ~IsOpen(r) /\ ~(tick.on = r /\ tick.pc = "rest") => ran[r] <= ledger[r] + cut[r] * Loss
    /\ tick.on = r => tick.began <= tick.base + cut[r] * Loss

LossInv ==
    /\ beat.pc = "wait" => beat.age <= Quantum
    /\ tick.stage = 3 => tick.on # None
    /\ tick.stage = 3 /\ tick.round /\ tick.base >= Limit => tick.next = "idle"
    /\ \A r \in Researches : Undisturbed(r) => Accounted(r)

-----------------------------------------------------------------------------
(* Operators                                                               *)

(* What a flush leaves of a slice is less than a quantum.                   *)
LEMMA QuantaLeave ==
  ASSUME TypeOK, NEW r \in Researches, IsOpen(r)
  PROVE  /\ slice[r].age - slice[r].saved <= Quanta(r) + Quantum - 1
         /\ Quanta(r) \in Int
<1>1. slice[r].age \in Nat /\ slice[r].saved \in Nat
  BY Numbers
<1>2. \A u \in Int : Whole(u) \in Int /\ u <= Whole(u) + Quantum - 1
  BY TimeAssumption DEF Whole
<1>3. QED BY <1>1, <1>2 DEF Quanta

(* The loss of several interruptions.                                       *)
LEMMA Products ==
  ASSUME NEW n \in Nat, NEW x \in Nat, NEW y \in Nat, x <= y
  PROVE  n * x \in Nat /\ n * x <= n * y /\ (n + 1) * x = n * x + x
<1>1. n * x \in Nat /\ n * y \in Nat /\ (n + 1) * x = n * x + x
  OBVIOUS
<1>2. PICK d \in Nat : y = x + d
  <2>1. y - x \in Nat /\ y = x + (y - x)
    OBVIOUS
  <2>2. QED BY <2>1
<1>3. n * y = n * x + n * d /\ n * d \in Nat
  BY <1>2
<1>4. QED BY <1>1, <1>3

(* The numbers of a loss.                                                   *)
LEMMA LossNumbers ==
  ASSUME TypeOK, NEW r \in Researches
  PROVE  /\ Unsaved(r) \in Int /\ Taking(r) \in Nat /\ Loss \in Nat
         /\ cut[r] \in Nat /\ cut[r] * Loss \in Nat
         /\ late \in Nat /\ beat.age \in Nat /\ tick.began \in Nat
         /\ Quantum \in Nat /\ Quantum >= 1
<1>1. late \in Nat /\ cut[r] \in Nat /\ beat.age \in Nat /\ tick.began \in Nat
  BY DEF TypeOK, Ticks, Beats
<1>2. Quantum \in Nat /\ Quantum >= 1 /\ Loss \in Nat
  BY <1>1, TimeAssumption DEF Loss
<1>3. cut[r] * Loss \in Nat
  BY <1>1, <1>2, Products
<1>4. Unsaved(r) \in Int /\ Taking(r) \in Nat
  BY Numbers DEF Unsaved, Taking
<1>5. QED BY <1>1, <1>2, <1>3, <1>4

-----------------------------------------------------------------------------
(* Kinds of steps                                                          *)

(* A step that opens and closes no slice of r, lets no time pass and        *)
(* interrupts no tick: what it takes from the slice is in the ledger.       *)
LEMMA StillAccounted ==
  ASSUME TypeOK, TypeOK', NEW r \in Researches, Accounted(r),
         UNCHANGED <<ran, cut, late>>, IsOpen(r)' <=> IsOpen(r),
         ledger'[r] >= ledger[r],
         IsOpen(r) => ledger'[r] + Unsaved(r)' >= ledger[r] + Unsaved(r) /\ BeatBounds(r)',
         tick'.pc = "rest" <=> tick.pc = "rest",
         tick'.on = tick.on, tick'.base = tick.base, tick'.began = tick.began,
         tick'.rest = tick.rest
  PROVE  Accounted(r)'
<1>1. Loss' = Loss /\ (cut[r] * Loss)' = cut[r] * Loss
  BY DEF Loss
<1>2. /\ ledger'[r] \in Nat /\ (Unsaved(r)') \in Int
      /\ ledger[r] \in Nat /\ Unsaved(r) \in Int /\ ran[r] \in Nat /\ cut[r] * Loss \in Nat
      /\ tick.rest \in Nat /\ Loss \in Nat
  <2>1. (Unsaved(r) \in Int)'
    BY LossNumbers, PTL
  <2>2. QED BY <2>1, LossNumbers, Numbers DEF TypeOK
<1> DEFINE p == cut[r] * Loss
<1>3. p' = p /\ p \in Nat
  BY <1>1, <1>2
<1>4. /\ IsOpen(r) => ran[r] <= ledger[r] + Unsaved(r) + p
      /\ tick.on = r /\ tick.pc = "rest" =>
           ran[r] <= ledger[r] + tick.rest + p /\ ran[r] <= ledger[r] + p + Loss
      /\ ~IsOpen(r) /\ ~(tick.on = r /\ tick.pc = "rest") => ran[r] <= ledger[r] + p
      /\ tick.on = r => tick.began <= tick.base + p
  BY DEF Accounted
<1> HIDE DEF p
<1>5. /\ IsOpen(r)' => (ran[r] <= ledger[r] + Unsaved(r) + p)'
      /\ (tick.on = r /\ tick.pc = "rest")' =>
           (ran[r] <= ledger[r] + tick.rest + p)' /\ (ran[r] <= ledger[r] + p + Loss)'
      /\ ~IsOpen(r)' /\ ~(tick.on = r /\ tick.pc = "rest")' => (ran[r] <= ledger[r] + p)'
      /\ (tick.on = r => tick.began <= tick.base + p)'
  BY <1>1, <1>2, <1>3, <1>4
<1>6. QED BY <1>5 DEF Accounted, p

(* A step of the tick or of a command that leaves the slices alone.         *)
LEMMA QuietLoss ==
  ASSUME Inv, Inv', LossInv, UNCHANGED <<ledger, slice, beat, ran, cut, late>>,
         tick'.on = tick.on, tick'.flush = tick.flush, tick'.base = tick.base,
         tick'.began = tick.began, tick'.rest = tick.rest,
         tick'.pc = "rest" <=> tick.pc = "rest",
         tick'.stage = 3 => tick'.on # None,
         tick'.stage = 3 /\ tick'.round /\ tick'.base >= Limit => tick'.next = "idle",
         \A r \in Researches : Undisturbed(r)' => Undisturbed(r)
  PROVE  LossInv'
<1>1. TypeOK /\ TypeOK'
  BY DEF Inv
<1>2. ASSUME NEW r \in Researches, Undisturbed(r)' PROVE Accounted(r)'
  <2>1. Accounted(r)
    BY <1>2 DEF LossInv
  <2>2. (IsOpen(r)' <=> IsOpen(r)) /\ Unsaved(r)' = Unsaved(r) /\ Taking(r)' = Taking(r)
    BY DEF IsOpen, Unsaved, Taking, Owing, Owed
  <2>3. ledger[r] \in Nat /\ Unsaved(r) \in Int
    BY <1>1, Numbers, LossNumbers
  <2>4. IsOpen(r) => BeatBounds(r)'
    BY <2>1, <2>2 DEF Accounted, BeatBounds, Loss
  <2>5. QED BY <1>1, <2>1, <2>2, <2>3, <2>4, StillAccounted
<1>3. QED BY <1>2 DEF LossInv

(* A flush of the tick moves: no other number than these changes, and what  *)
(* it takes from a slice is in the ledger.                                  *)
LEMMA TickFlushLoss ==
  ASSUME Inv, Inv', LossInv, UNCHANGED <<st, beat, ran, cut, late, stopped>>,
         tick'.on = tick.on, tick'.base = tick.base,
         tick'.began = tick.began, tick'.rest = tick.rest, tick'.stage = tick.stage,
         tick'.round = tick.round, tick'.next = tick.next,
         tick.pc # "rest", tick'.pc # "rest",
         \A r \in Researches :
            /\ slice'[r].age = slice[r].age /\ ledger'[r] >= ledger[r]
            /\ "beat" \in slice'[r].held <=> "beat" \in slice[r].held
            /\ Undisturbed(r) /\ IsOpen(r) =>
                 /\ Unsaved(r)' <= Unsaved(r)
                 /\ ledger'[r] + Unsaved(r)' >= ledger[r] + Unsaved(r)
  PROVE  LossInv'
<1>1. TypeOK /\ TypeOK'
  BY DEF Inv
<1>2. ASSUME NEW r \in Researches, Undisturbed(r)' PROVE Accounted(r)'
  <2>1. Undisturbed(r) /\ Accounted(r)
    BY <1>2 DEF LossInv, Undisturbed
  <2>2. (IsOpen(r)' <=> IsOpen(r)) /\ Taking(r)' = Taking(r) /\ Loss' = Loss
    BY DEF IsOpen, Taking, Loss
  <2>3. IsOpen(r) => BeatBounds(r)'
    <3>1. SUFFICES ASSUME IsOpen(r) PROVE BeatBounds(r)'
      OBVIOUS
    <3>2. Unsaved(r)' <= Unsaved(r) /\ BeatBounds(r)
      BY <2>1, <3>1 DEF Accounted
    <3>3. (Unsaved(r) \in Int)'
      BY <1>1, LossNumbers, PTL
    <3>4. QED BY <1>1, <2>2, <3>2, <3>3, LossNumbers DEF BeatBounds
  <2>4. QED BY <1>1, <2>1, <2>2, <2>3, StillAccounted
<1>3. QED BY <1>2 DEF LossInv

(* A flush of the heartbeat moves: the same, and its round goes on.         *)
LEMMA BeatFlushLoss ==
  ASSUME Inv, Inv', LossInv, UNCHANGED <<st, tick, ran, cut, late, stopped>>,
         beat'.pc = "wait" => beat'.age <= Quantum,
         \A r \in Researches :
            /\ slice'[r].age = slice[r].age /\ ledger'[r] >= ledger[r]
            /\ Undisturbed(r) /\ IsOpen(r) =>
                 /\ ledger'[r] + Unsaved(r)' >= ledger[r] + Unsaved(r)
                 /\ BeatBounds(r)'
  PROVE  LossInv'
<1>1. TypeOK /\ TypeOK'
  BY DEF Inv
<1>2. ASSUME NEW r \in Researches, Undisturbed(r)' PROVE Accounted(r)'
  <2>1. Undisturbed(r) /\ Accounted(r)
    BY <1>2 DEF LossInv, Undisturbed
  <2>2. IsOpen(r)' <=> IsOpen(r)
    BY DEF IsOpen
  <2>3. QED BY <1>1, <2>1, <2>2, StillAccounted
<1>3. QED BY <1>2 DEF LossInv

(* The slice of r is closed, if it was open, by an interruption of its tick. *)
LEMMA ClosedAccounted ==
  ASSUME TypeOK, TypeOK', NEW r \in Researches, Accounted(r),
         UNCHANGED <<ran, late>>, ledger'[r] = ledger[r], ~IsOpen(r)',
         ~(tick'.on = r /\ tick'.pc = "rest"), tick'.on # r,
         \/ cut'[r] = cut[r] + 1
         \/ cut'[r] = cut[r] /\ ~IsOpen(r) /\ ~(tick.on = r /\ tick.pc = "rest")
  PROVE  Accounted(r)'
<1>1. Loss' = Loss
  BY DEF Loss
<1>2. /\ ledger[r] \in Nat /\ Unsaved(r) \in Int /\ ran[r] \in Nat /\ cut[r] * Loss \in Nat
      /\ tick.rest \in Nat /\ Loss \in Nat /\ cut[r] \in Nat
  BY LossNumbers, Numbers
<1>3. (cut[r] + 1) * Loss = cut[r] * Loss + Loss
  BY <1>2, Products
<1>4. ran[r] <= ledger[r] + cut[r] * Loss + Loss
  BY <1>2 DEF Accounted, BeatBounds
<1>5. ran[r] <= ledger[r] + cut'[r] * Loss
  <2>1. CASE cut'[r] = cut[r] + 1
    BY <1>2, <1>3, <1>4, <2>1
  <2>2. CASE cut'[r] = cut[r] /\ ~IsOpen(r) /\ ~(tick.on = r /\ tick.pc = "rest")
    BY <2>2 DEF Accounted
  <2>3. QED BY <2>1, <2>2
<1>6. QED BY <1>1, <1>5 DEF Accounted

(* The end of a tick, however it ends.                                      *)
LEMMA EndLoss ==
  ASSUME Inv, Inv', LossInv, UNCHANGED <<ledger, ran, late>>, tick' = NoTick,
         beat'.pc = "wait" => beat'.age <= Quantum,
         \A r \in Researches : Undisturbed(r)' =>
            /\ Undisturbed(r)
            /\ \/ cut'[r] = cut[r] + 1
               \/ cut'[r] = cut[r] /\ ~IsOpen(r) /\ ~(tick.on = r /\ tick.pc = "rest")
  PROVE  LossInv'
<1>1. TypeOK /\ TypeOK'
  BY DEF Inv
<1>2. tick'.on = None /\ tick'.pc = "idle" /\ tick'.stage = 0
  BY DEF NoTick
<1>3. \A r \in Researches : ~IsOpen(r)' /\ tick'.on # r
  BY <1>2, TimeAssumption DEF Inv, Shape, SliceShape, SliceFits
<1>4. ASSUME NEW r \in Researches, Undisturbed(r)' PROVE Accounted(r)'
  <2>1. /\ Accounted(r) /\ ~IsOpen(r)' /\ tick'.on # r
        /\ \/ cut'[r] = cut[r] + 1
           \/ cut'[r] = cut[r] /\ ~IsOpen(r) /\ ~(tick.on = r /\ tick.pc = "rest")
    BY <1>3, <1>4 DEF LossInv
  <2>2. QED BY <1>1, <2>1, ClosedAccounted
<1>5. QED BY <1>2, <1>4 DEF LossInv

-----------------------------------------------------------------------------
(* The tick                                                                *)

(* A tick begins with what was charged and not lost.                        *)
LEMMA TickLoadLoss ==
  ASSUME Inv, Inv', LossInv, NEW r \in Researches, TickLoad(r)
  PROVE  LossInv'
<1>1. TypeOK /\ TypeOK'
  BY DEF Inv
<1>2. UNCHANGED <<rows, budget, beat, cmd, ghosts>>
  BY DEF TickLoad
<1>3. /\ tick'.pc = "loaded" /\ tick'.on = r /\ tick'.base = Charged(r)
      /\ tick'.began = ran[r] /\ tick'.stage = 0
  BY DEF TickLoad, NoTick
<1>4. tick.on = None /\ \A q \in Researches : ~IsOpen(q)
  BY ClosedOutside DEF TickLoad, Here, Inv, Shape, TickShape, Working
<1>5. Charged(r) \in Nat /\ Charged(r) >= ledger[r] /\ ledger[r] \in Nat /\ ran[r] \in Nat
  BY <1>1 DEF Charged, Larger, TypeOK
<1>6. ASSUME NEW q \in Researches, Undisturbed(q)' PROVE Accounted(q)'
  <2>1. Accounted(q) /\ ~IsOpen(q)' /\ tick.on # q
    BY <1>2, <1>4, <1>6, TimeAssumption
       DEF LossInv, Undisturbed, IsOpen, rows, budget, ghosts
  <2>2. ran[q] <= ledger[q] + cut[q] * Loss
    BY <1>4, <2>1 DEF Accounted
  <2>3. Loss' = Loss /\ cut[q] * Loss \in Nat
    BY <1>1, <1>2, LossNumbers DEF Loss, ghosts
  <2>4. q = r => ran[r] <= Charged(r) + cut[r] * Loss
    BY <1>5, <2>2, <2>3
  <2>5. QED BY <1>2, <1>3, <2>1, <2>2, <2>3, <2>4 DEF Accounted, rows, ghosts
<1>7. QED BY <1>2, <1>3, <1>6 DEF LossInv

(* Nothing is open when a tick leaves or commits.                           *)
LEMMA TickLeavesLoss ==
  ASSUME Inv, Inv', LossInv, TickLeaves \/ TickCommits
  PROVE  LossInv'
<1>1. /\ UNCHANGED <<ledger, budget, beat, ghosts>> /\ tick' = NoTick
      /\ tick.pc \in {"loaded", "commit"}
  BY DEF TickLeaves, TickCommits, Here
<1>2. \A q \in Researches : ~IsOpen(q)
  BY <1>1, ClosedOutside DEF Working
<1>3. \A q \in Researches : st'[q] # "gone" => st[q] # "gone"
  <2>1. tick.fresh => st[tick.on] # "gone"
    BY DEF Inv, FreshInv
  <2>2. st' = st \/ (st[tick.on] # "gone" /\ \E s : st' = [st EXCEPT ![tick.on] = s])
    BY <2>1 DEF TickLeaves, TickCommits
  <2>3. QED BY <2>2 DEF Inv, TypeOK
<1>4. \A q \in Researches : Undisturbed(q)' => Undisturbed(q)
  BY <1>1, <1>3 DEF Undisturbed, ghosts
<1>5. beat'.pc = "wait" => beat'.age <= Quantum
  BY <1>1 DEF LossInv
<1>6. QED BY <1>1, <1>2, <1>4, <1>5, EndLoss DEF ghosts

(* A tick that fails or is removed.                                         *)
LEMMA TickFailsLoss ==
  ASSUME Inv, Inv', LossInv, TickFails
  PROVE  LossInv'
<1>1. /\ UNCHANGED <<total, ledger, shared, beat, time, late, ran, stopped>> /\ tick' = NoTick
      /\ cut' = [cut EXCEPT ![tick.on] = @ + IF Here(Ticking) THEN 1 ELSE 0]
      /\ st[tick.on] # "gone" /\ (st' = st \/ st' = [st EXCEPT ![tick.on] = "idle"])
      /\ tick.pc \in {"loaded"} \cup Ticking
  BY DEF TickFails, Here
<1>2. tick.on \in Researches /\ cut[tick.on] \in Nat
  BY <1>1, TickHasResearch DEF Inv, Shape, Ticking, TypeOK
<1>3. \A q \in Researches : Undisturbed(q)' => Undisturbed(q)
  BY <1>1, <1>2 DEF Undisturbed, Inv, TypeOK
<1>4. ASSUME NEW q \in Researches
      PROVE  \/ cut'[q] = cut[q] + 1
             \/ cut'[q] = cut[q] /\ ~IsOpen(q) /\ ~(tick.on = q /\ tick.pc = "rest")
  <2>1. IsOpen(q) => tick.on = q /\ tick.pc \in Working
    BY DEF Inv, Shape, SliceShape, SliceFits
  <2>2. CASE tick.on = q /\ tick.pc \in Ticking
    BY <1>1, <1>2, <2>2 DEF Here, Inv, TypeOK
  <2>3. CASE ~(tick.on = q /\ tick.pc \in Ticking)
    <3>1. cut'[q] = cut[q]
      BY <1>1, <1>2, <2>3 DEF Here, Inv, TypeOK
    <3>2. QED BY <2>1, <2>3, <3>1 DEF Working, Ticking
  <2>4. QED BY <2>2, <2>3
<1>5. beat'.pc = "wait" => beat'.age <= Quantum
  BY <1>1 DEF LossInv
<1>6. QED BY <1>1, <1>3, <1>4, <1>5, EndLoss

(* Whose research is gone is not asked.                                     *)
LEMMA TickRemovedLoss ==
  ASSUME Inv, Inv', LossInv, TickRemoved
  PROVE  LossInv'
<1>1. /\ UNCHANGED <<rows, beat, cmd, ghosts>> /\ tick' = NoTick
      /\ st[tick.on] = "gone"
  BY DEF TickRemoved
<1>2. \A q \in Researches : Undisturbed(q)' => Undisturbed(q) /\ q # tick.on
  BY <1>1 DEF Undisturbed, rows, ghosts
<1>3. \A q \in Researches : q # tick.on => ~IsOpen(q)
  BY DEF Inv, Shape, SliceShape, SliceFits
<1>4. beat'.pc = "wait" => beat'.age <= Quantum
  BY <1>1 DEF LossInv
<1>5. QED BY <1>1, <1>2, <1>3, <1>4, EndLoss DEF rows, ghosts

(* A new slice has nothing to save.                                         *)
LEMMA TickBeginLoss ==
  ASSUME Inv, Inv', LossInv, TickBegin
  PROVE  LossInv'
<1>1. TypeOK /\ TypeOK'
  BY DEF Inv
<1>2. /\ UNCHANGED <<rows, shared, beat, cmd, ghosts>> /\ tick.pc = "loaded"
      /\ tick' = [tick EXCEPT !.pc = "begun"]
  BY DEF TickBegin, Here, Move
<1>3. /\ tick'.pc = "begun" /\ tick'.on = tick.on /\ tick'.base = tick.base
      /\ tick'.began = tick.began /\ tick'.stage = tick.stage /\ tick'.round = tick.round
      /\ tick'.next = tick.next /\ tick'.flush = tick.flush
  BY <1>1, <1>2 DEF TypeOK, Ticks
<1>4. tick.on \in Researches /\ \A q \in Researches : ~IsOpen(q) /\ slice[q] = NoSlice
  BY <1>1, <1>2, TickHasResearch, ClosedOutside DEF Inv, Shape, Working
<1>5. \A q \in Researches : slice'[q] = IF q = tick.on THEN NewSlice ELSE NoSlice
  BY <1>1, <1>4 DEF TickBegin, TypeOK
<1>6. ASSUME NEW q \in Researches, Undisturbed(q)' PROVE Accounted(q)'
  <2>1. /\ Accounted(q) /\ Loss' = Loss
        /\ ran'[q] = ran[q] /\ ledger'[q] = ledger[q] /\ cut'[q] = cut[q]
    BY <1>2, <1>6 DEF LossInv, Undisturbed, rows, ghosts, Loss
  <2>2. ran[q] <= ledger[q] + cut[q] * Loss
    BY <1>2, <1>4, <2>1 DEF Accounted
  <2>3. IsOpen(q)' => Unsaved(q)' = 0 /\ Taking(q)' = 0
    <3>1. SUFFICES ASSUME IsOpen(q)' PROVE Unsaved(q)' = 0 /\ Taking(q)' = 0
      OBVIOUS
    <3>2. slice'[q] = NewSlice
      BY <1>5, <3>1, Slots DEF IsOpen
    <3>3. Owing(q)' = 0 /\ Taking(q)' = 0
      BY <3>2, Slots DEF Owing, Owed, Taking
    <3>4. QED BY <3>2, <3>3, Slots DEF Unsaved
  <2>4. IsOpen(q)' => BeatBounds(q)'
    <3>1. Loss \in Nat /\ Quantum \in Nat /\ Quantum >= 1 /\ late \in Nat /\ beat.age \in Nat
      BY <1>1, LossNumbers
    <3>2. late' = late /\ beat' = beat
      BY <1>2 DEF ghosts
    <3>3. QED BY <2>1, <2>3, <3>1, <3>2 DEF BeatBounds
  <2>5. ran[q] \in Nat /\ ledger[q] \in Nat /\ cut[q] * Loss \in Nat
    BY <1>1, Numbers, LossNumbers
  <2>6. QED BY <1>3, <2>1, <2>2, <2>3, <2>4, <2>5 DEF Accounted
<1>7. QED BY <1>2, <1>3, <1>6 DEF LossInv

(* Between two flushes of a tick; a round that goes on has hours left.      *)
LEMMA TickTurnsLoss ==
  ASSUME Inv, Inv', LossInv, TickPersists \/ TickGathers \/ TickBuilds \/ TickDecides
  PROVE  LossInv'
<1>1. /\ UNCHANGED <<rows, budget, beat, ghosts>> /\ tick \in Ticks
      /\ tick.pc \in {"begun", "flushed"} /\ tick.on # None
  BY DEF TickPersists, TickGathers, TickBuilds, TickDecides, Here, Inv, TypeOK, Shape, TickShape
<1>2. /\ tick'.on = tick.on /\ tick'.flush = tick.flush /\ tick'.base = tick.base
      /\ tick'.began = tick.began /\ tick'.rest = tick.rest
      /\ tick'.pc # "rest"
      /\ tick'.stage = 3 /\ tick'.round /\ tick'.base >= Limit => tick'.next = "idle"
  <2>1. CASE TickPersists \/ TickGathers \/ TickBuilds
    <3>1. \/ tick' = [tick EXCEPT !.pc = "flush", !.stage = 1]
          \/ tick' = [tick EXCEPT !.pc = "flush", !.stage = 2]
          \/ tick' = tick
      BY <2>1 DEF TickPersists, TickGathers, TickBuilds
    <3>2. tick.stage = 3 /\ tick.round /\ tick.base >= Limit => tick.next = "idle"
      BY DEF LossInv
    <3>3. CASE tick' = tick
      BY <1>1, <3>2, <3>3
    <3>4. CASE tick' = [tick EXCEPT !.pc = "flush", !.stage = 1]
      BY <1>1, <3>4 DEF Ticks
    <3>5. CASE tick' = [tick EXCEPT !.pc = "flush", !.stage = 2]
      BY <1>1, <3>5 DEF Ticks
    <3>6. QED BY <3>1, <3>3, <3>4, <3>5
  <2>2. CASE TickDecides
    <3>1. PICK v \in Verdicts :
             tick' = [tick EXCEPT !.pc = "flush", !.stage = 3, !.round = v.round, !.next = v.next]
      BY <2>2 DEF TickDecides
    <3>2. v.round /\ tick.base >= Limit => v.next = "idle"
      BY DEF Verdicts
    <3>3. QED BY <1>1, <3>1, <3>2 DEF Ticks
  <2>3. QED BY <2>1, <2>2
<1>3. QED BY <1>1, <1>2, QuietLoss DEF rows, budget, ghosts, Undisturbed

(* A flush of the tick: it reads, adds and advances.                        *)
LEMMA TickReadsLoss ==
  ASSUME Inv, Inv', LossInv, TickReads
  PROVE  LossInv'
<1>1. /\ tick.on \in Researches /\ tick.pc = "flush" /\ tick.flush.pc = "none"
      /\ tick \in Ticks /\ UNCHANGED <<rows, beat, ran, cut, late, stopped>>
  BY TickHasResearch DEF TickReads, Here, Inv, Shape, TypeOK
<1>2. CASE Move("flushed") /\ UNCHANGED slice
  BY <1>1, <1>2, QuietLoss DEF Move, Ticks, LossInv, rows, Undisturbed
<1>3. CASE /\ Read("tick", tick.on, beat.flush)
           /\ tick' = [tick EXCEPT !.flush = Flushing(tick.on)]
  <2>1. \A q \in Researches :
           /\ slice'[q].age = slice[q].age /\ slice'[q].saved = slice[q].saved
           /\ "beat" \in slice'[q].held <=> "beat" \in slice[q].held
    BY <1>1, <1>3, ReadSlices DEF Threads
  <2>2. /\ tick'.on = tick.on /\ tick'.base = tick.base /\ tick'.pc = tick.pc
        /\ tick'.began = tick.began /\ tick'.rest = tick.rest /\ tick'.stage = tick.stage
        /\ tick'.round = tick.round /\ tick'.next = tick.next /\ tick'.flush.pc = "add"
    BY <1>1, <1>3 DEF Ticks, Flushing
  <2>3. \A q \in Researches : Unsaved(q)' = Unsaved(q)
    BY <1>1, <2>1, <2>2 DEF Unsaved, Owing, Owed
  <2>4. \A q \in Researches : Unsaved(q) \in Int /\ ledger[q] \in Nat
    BY LossNumbers, Numbers DEF Inv
  <2>5. QED BY <1>1, <2>1, <2>2, <2>3, <2>4, TickFlushLoss DEF rows
<1>4. QED BY <1>2, <1>3 DEF TickReads

\* What is added is no longer unsaved.
LEMMA TickAddsLoss ==
  ASSUME Inv, Inv', LossInv, TickAdds
  PROVE  LossInv'
<1>1. /\ tick.on \in Researches /\ tick.pc = "flush" /\ tick.flush.pc = "add"
      /\ tick.flush.on = tick.on
      /\ tick \in Ticks /\ UNCHANGED <<st, slice, beat, ran, cut, late, stopped>>
  BY TickHasResearch DEF TickAdds, Here, Inv, Shape, TickShape, TypeOK, budget, ghosts
<1>2. /\ tick'.on = tick.on /\ tick'.base = tick.base /\ tick'.pc = tick.pc
      /\ tick'.began = tick.began /\ tick'.rest = tick.rest /\ tick'.stage = tick.stage
      /\ tick'.round = tick.round /\ tick'.next = tick.next
      /\ tick'.flush.pc = "advance" /\ tick'.flush.on = tick.on
      /\ tick'.flush.secs = tick.flush.secs
  BY <1>1 DEF TickAdds, Added, Ticks, Flushes
<1>3. ASSUME NEW q \in Researches
      PROVE  /\ ledger'[q] >= ledger[q]
             /\ Undisturbed(q) /\ IsOpen(q) =>
                  /\ Unsaved(q)' <= Unsaved(q)
                  /\ ledger'[q] + Unsaved(q)' >= ledger[q] + Unsaved(q)
  <2>1. /\ ledger'[q] = ledger[q] + IF q = tick.on /\ st[q] # "gone" THEN tick.flush.secs ELSE 0
        /\ tick.flush.secs \in Nat /\ ledger[q] \in Nat /\ Owing(q) \in Nat
        /\ slice[q].age \in Int /\ slice[q].saved \in Nat
    BY <1>1, Numbers DEF TickAdds, AddQuanta, Add, Inv, TypeOK
  <2>2. Owed("beat", beat.flush, q)' = Owed("beat", beat.flush, q)
        /\ Owed("beat", beat.flush, q) \in Nat
    BY <1>1 DEF Owed, Inv, TypeOK, Beats, Flushes
  <2>3. /\ Owed("tick", tick.flush, q) = 0
        /\ \/ Owed("tick", tick.flush, q)' = 0
           \/ q = tick.on /\ Owed("tick", tick.flush, q)' = tick.flush.secs
    BY <1>1, <1>2 DEF Owed
  <2>4. /\ Owing(q) = Owed("beat", beat.flush, q)
        /\ \/ Owing(q)' = Owing(q)
           \/ q = tick.on /\ Owing(q)' = Owing(q) + tick.flush.secs
    BY <2>1, <2>2, <2>3 DEF Owing
  <2>5. Undisturbed(q) => st[q] # "gone"
    BY DEF Undisturbed
  <2>6. /\ Unsaved(q) = slice[q].age - slice[q].saved - Owing(q)
        /\ Unsaved(q)' = slice[q].age - slice[q].saved - Owing(q)'
    BY <1>1 DEF Unsaved
  <2>7. CASE Owing(q)' = Owing(q)
    BY <2>1, <2>6, <2>7
  <2>8. CASE q = tick.on /\ Owing(q)' = Owing(q) + tick.flush.secs
    BY <2>1, <2>5, <2>6, <2>8
  <2>9. QED BY <2>4, <2>7, <2>8
<1>4. QED BY <1>1, <1>2, <1>3, TickFlushLoss

\* What is advanced was owed.
LEMMA TickAdvancesLoss ==
  ASSUME Inv, Inv', LossInv, TickAdvances
  PROVE  LossInv'
<1>1. /\ tick.on \in Researches /\ tick.pc = "flush" /\ tick.flush.pc = "advance"
      /\ tick.flush.on = tick.on
      /\ tick \in Ticks /\ UNCHANGED <<st, ledger, beat, ran, cut, late, stopped>>
  BY TickHasResearch DEF TickAdvances, Here, Inv, Shape, TickShape, TypeOK, rows, ghosts
<1>2. /\ tick'.on = tick.on /\ tick'.base = tick.base /\ tick'.pc = "flushed"
      /\ tick'.began = tick.began /\ tick'.rest = tick.rest /\ tick'.stage = tick.stage
      /\ tick'.round = tick.round /\ tick'.next = tick.next /\ tick'.flush.pc = "none"
  BY <1>1 DEF TickAdvances, NoFlush, Ticks
<1>3. \A q \in Researches :
         /\ slice'[q].age = slice[q].age
         /\ slice'[q].saved = slice[q].saved + Owed("tick", tick.flush, q)
         /\ "beat" \in slice'[q].held <=> "beat" \in slice[q].held
  BY <1>1, AdvanceSlices DEF TickAdvances, Threads, Inv, TypeOK, Ticks
<1>4. ASSUME NEW q \in Researches
      PROVE  Unsaved(q)' = Unsaved(q) /\ Unsaved(q) \in Int /\ ledger[q] \in Nat
  <2>1. /\ Owed("tick", tick.flush, q)' = 0
        /\ Owed("beat", beat.flush, q)' = Owed("beat", beat.flush, q)
        /\ Owed("tick", tick.flush, q) \in Nat /\ Owed("beat", beat.flush, q) \in Nat
    BY <1>1, <1>2, <1>3 DEF Owed, Inv, TypeOK, Ticks, Beats, Flushes
  <2>2. slice[q].age \in Int /\ slice[q].saved \in Nat /\ ledger[q] \in Nat
    BY Numbers DEF Inv
  <2>3. QED BY <1>3, <2>1, <2>2 DEF Unsaved, Owing
<1>5. QED BY <1>1, <1>2, <1>3, <1>4, TickFlushLoss

(* The slice closes, and what it has not saved is the rest.                 *)
LEMMA TickClosesLoss ==
  ASSUME Inv, Inv', LossInv, TickCloses
  PROVE  LossInv'
<1>1. TypeOK /\ TypeOK'
  BY DEF Inv
<1>2. /\ tick.on \in Researches /\ tick.pc = "flushed" /\ tick \in Ticks
      /\ UNCHANGED <<rows, beat, ran, cut, late, stopped>>
  BY <1>1, TickHasResearch DEF TickCloses, Here, Inv, Shape, TypeOK
<1>3. /\ tick'.on = tick.on /\ tick'.base = tick.base /\ tick'.pc = "rest"
      /\ tick'.began = tick.began /\ tick'.stage = tick.stage
      /\ tick'.round = tick.round /\ tick'.next = tick.next
      /\ IsOpen(tick.on) =>
           tick'.rest = Larger(0, slice[tick.on].age - slice[tick.on].saved)
  BY <1>2 DEF TickCloses, Ticks
<1>4. \A q \in Researches : ~IsOpen(q)'
  BY <1>3 DEF Inv, Shape, SliceShape, SliceFits, Working
<1>5. ASSUME NEW q \in Researches, Undisturbed(q)' PROVE Accounted(q)'
  <2>1. /\ Undisturbed(q) /\ Accounted(q) /\ Loss' = Loss
        /\ ran'[q] = ran[q] /\ ledger'[q] = ledger[q] /\ cut'[q] = cut[q]
    BY <1>2, <1>5 DEF LossInv, Undisturbed, rows, Loss
  <2>2. CASE q # tick.on
    <3>1. ~IsOpen(q)
      BY <2>2 DEF Inv, Shape, SliceShape, SliceFits
    <3>2. ran[q] <= ledger[q] + cut[q] * Loss
      BY <2>1, <2>2, <3>1 DEF Accounted
    <3>3. QED BY <1>3, <1>4, <2>1, <2>2, <3>2 DEF Accounted
  <2>3. CASE q = tick.on
    <3>1. IsOpen(q)
      BY <1>2, <2>1, <2>3 DEF Inv, Shape, SliceShape, SliceFits, Working
    <3>2. /\ ran[q] <= ledger[q] + Unsaved(q) + cut[q] * Loss /\ Unsaved(q) <= Loss
          /\ tick.began <= tick.base + cut[q] * Loss
      BY <2>1, <2>3, <3>1 DEF Accounted, BeatBounds
    <3>3. /\ slice[q].age \in Nat /\ slice[q].saved \in Nat /\ Owing(q) \in Nat
          /\ ledger[q] \in Nat /\ ran[q] \in Nat
          /\ Unsaved(q) \in Int /\ Loss \in Nat /\ cut[q] * Loss \in Nat
      BY <1>1, <3>1, Numbers, LossNumbers
    <3>4. Unsaved(q) <= tick'.rest /\ tick'.rest \in Nat
      BY <1>3, <2>3, <3>1, <3>3 DEF Unsaved, Larger
    <3>5. /\ ran[q] <= ledger[q] + tick'.rest + cut[q] * Loss
          /\ ran[q] <= ledger[q] + cut[q] * Loss + Loss
      BY <3>2, <3>3, <3>4
    <3>6. QED BY <1>3, <1>4, <2>1, <2>3, <3>2, <3>5 DEF Accounted
  <2>4. QED BY <2>2, <2>3
<1>6. QED BY <1>2, <1>3, <1>5 DEF LossInv

(* The rest reaches the ledger.                                             *)
LEMMA TickRestsLoss ==
  ASSUME Inv, Inv', LossInv, TickRests
  PROVE  LossInv'
<1>1. TypeOK /\ TypeOK'
  BY DEF Inv
<1>2. /\ tick.on \in Researches /\ tick.pc = "rest" /\ tick \in Ticks
      /\ UNCHANGED <<st, slice, beat, ran, cut, late, stopped>>
  BY <1>1, TickHasResearch DEF TickRests, Here, Inv, Shape, TypeOK, budget, ghosts
<1>3. /\ tick'.on = tick.on /\ tick'.base = tick.base /\ tick'.pc = "commit"
      /\ tick'.began = tick.began /\ tick'.stage = tick.stage
      /\ tick'.round = tick.round /\ tick'.next = tick.next
  BY <1>2 DEF TickRests, Move, Ticks
<1>4. \A q \in Researches : ~IsOpen(q) /\ ~IsOpen(q)'
  BY <1>2, <1>3 DEF Inv, Shape, SliceShape, SliceFits, Working
<1>5. ASSUME NEW q \in Researches, Undisturbed(q)' PROVE Accounted(q)'
  <2>1. /\ Undisturbed(q) /\ Accounted(q) /\ Loss' = Loss
        /\ ran'[q] = ran[q] /\ cut'[q] = cut[q]
    BY <1>2, <1>5 DEF LossInv, Undisturbed, Loss
  <2>2. ledger'[q] = ledger[q] + IF q = tick.on THEN tick.rest ELSE 0
    BY <1>1, <1>2, <2>1, Numbers DEF TickRests, Add, Undisturbed, TypeOK
  <2>3. ledger[q] \in Nat /\ ran[q] \in Nat /\ cut[q] * Loss \in Nat /\ tick.rest \in Nat
    BY <1>1, Numbers, LossNumbers
  <2>4. ran[q] <= ledger[q] + cut[q] * Loss + IF q = tick.on THEN tick.rest ELSE 0
    BY <1>2, <1>4, <2>1, <2>3 DEF Accounted
  <2>5. ran[q] <= ledger'[q] + cut[q] * Loss
    BY <2>2, <2>3, <2>4
  <2>6. QED BY <1>3, <1>4, <2>1, <2>5 DEF Accounted
<1>6. QED BY <1>2, <1>3, <1>5 DEF LossInv

-----------------------------------------------------------------------------
(* The heartbeat                                                           *)

(* It wakes no later than it fell behind, and lists what is open.           *)
LEMMA BeatWakesLoss ==
  ASSUME Inv, Inv', LossInv, BeatWakes \/ BeatWaits
  PROVE  LossInv'
<1>1. /\ UNCHANGED <<rows, budget, tick, ghosts>> /\ beat \in Beats
      /\ beat.flush.pc = "none"
  BY DEF BeatWakes, BeatWaits, Inv, Shape, BeatShape, TypeOK, Beats, Flushes
<1>2. \/ /\ beat.pc = "wait" /\ beat'.pc = "round"
         /\ beat'.todo = {q \in Researches : IsOpen(q)} /\ beat'.flush = beat.flush
      \/ /\ beat.pc = "round" /\ beat.todo = {} /\ beat'.pc = "wait" /\ beat'.age = 0
         /\ beat'.flush.pc = "none"
  <2>1. CASE BeatWakes
    BY <1>1, <2>1 DEF BeatWakes, Beats
  <2>2. CASE BeatWaits
    BY <2>2 DEF BeatWaits, NoBeat, NoFlush
  <2>3. QED BY <2>1, <2>2
<1>3. beat'.pc = "wait" => beat'.age <= Quantum
  BY <1>2, TimeAssumption
<1>4. ASSUME NEW q \in Researches
      PROVE  /\ slice'[q].age = slice[q].age /\ ledger'[q] >= ledger[q]
             /\ Undisturbed(q) /\ IsOpen(q) =>
                  /\ ledger'[q] + Unsaved(q)' >= ledger[q] + Unsaved(q)
                  /\ BeatBounds(q)'
  <2>1. Unsaved(q)' = Unsaved(q)
    BY <1>1, <1>2 DEF Unsaved, Owing, Owed, budget
  <2>2. Taking(q) = 0 /\ Taking(q)' = 0
    BY <1>1, <1>2 DEF Taking
  <2>3. ledger[q] \in Nat /\ Unsaved(q) \in Int /\ Loss \in Nat /\ late \in Nat /\ Quantum \in Nat
    BY Numbers, LossNumbers DEF Inv
  <2>4. Undisturbed(q) /\ IsOpen(q) => BeatBounds(q)
    BY DEF LossInv, Accounted
  <2>5. Undisturbed(q) /\ IsOpen(q) => BeatBounds(q)'
    <3>1. SUFFICES ASSUME BeatBounds(q), IsOpen(q) PROVE BeatBounds(q)'
      BY <2>4
    <3>2. late' = late /\ Loss' = Loss
      BY <1>1 DEF ghosts, Loss
    <3>3. CASE beat'.pc = "round" /\ beat'.todo = {x \in Researches : IsOpen(x)}
      BY <2>1, <3>1, <3>2, <3>3 DEF BeatBounds
    <3>4. CASE beat.pc = "round" /\ beat.todo = {} /\ beat'.pc = "wait" /\ beat'.age = 0
      BY <2>1, <2>2, <2>3, <3>1, <3>2, <3>4 DEF BeatBounds
    <3>5. QED BY <1>2, <3>3, <3>4
  <2>6. QED BY <1>1, <2>1, <2>3, <2>5 DEF rows, budget
<1>5. QED BY <1>1, <1>3, <1>4, BeatFlushLoss DEF rows, ghosts

(* It leaves less than a quantum of the slice it reads.                     *)
LEMMA BeatReadsLoss ==
  ASSUME Inv, Inv', LossInv, BeatReads
  PROVE  LossInv'
<1>1. /\ UNCHANGED <<rows, tick, ran, cut, late, stopped>> /\ beat \in Beats
      /\ beat.pc = "round" /\ beat.flush.pc = "none" /\ beat.flush.on = None
  BY DEF BeatReads, Inv, Shape, BeatShape, TypeOK
<1>2. PICK r \in beat.todo :
         \/ /\ Read("beat", r, tick.flush)
            /\ beat' = [beat EXCEPT !.todo = @ \ {r}, !.flush = Flushing(r)]
         \/ /\ Quanta(r) <= 0
            /\ beat' = [beat EXCEPT !.todo = @ \ {r}]
            /\ UNCHANGED slice
  BY DEF BeatReads
<1>3. r \in Researches
  BY <1>1 DEF Beats
<1>4. /\ beat'.pc = "round" /\ beat'.todo = beat.todo \ {r} /\ beat'.flush.pc \in {"none", "add"}
      /\ \A q \in Researches :
           /\ slice'[q].age = slice[q].age /\ slice'[q].saved = slice[q].saved
           /\ "tick" \in slice'[q].held <=> "tick" \in slice[q].held
      /\ Taking(r)' >= Quanta(r)
  <2>1. CASE /\ Read("beat", r, tick.flush)
             /\ beat' = [beat EXCEPT !.todo = @ \ {r}, !.flush = Flushing(r)]
    <3>1. /\ \A q \in Researches :
               /\ slice'[q].age = slice[q].age /\ slice'[q].saved = slice[q].saved
               /\ "tick" \in slice'[q].held <=> "tick" \in slice[q].held
          /\ "beat" \in slice'[r].held /\ Quanta(r) \in Nat
      BY <1>3, <2>1, ReadSlices DEF Threads
    <3>2. /\ beat'.pc = "round" /\ beat'.todo = beat.todo \ {r} /\ beat'.flush.pc = "add"
          /\ beat'.flush.on = r /\ beat'.flush.secs = Quanta(r)
      BY <1>1, <2>1 DEF Flushing, Beats
    <3>3. QED BY <3>1, <3>2 DEF Taking
  <2>2. CASE Quanta(r) <= 0 /\ beat' = [beat EXCEPT !.todo = @ \ {r}] /\ UNCHANGED slice
    <3>1. beat'.pc = "round" /\ beat'.todo = beat.todo \ {r} /\ beat'.flush = beat.flush
      BY <1>1, <2>2 DEF Beats
    <3>2. Taking(r)' = 0
      BY <1>1, <3>1 DEF Taking
    <3>3. QED BY <1>1, <2>2, <3>1, <3>2
  <2>3. QED BY <1>2, <2>1, <2>2
<1>5. ASSUME NEW q \in Researches
      PROVE  /\ slice'[q].age = slice[q].age /\ ledger'[q] >= ledger[q]
             /\ Undisturbed(q) /\ IsOpen(q) =>
                  /\ ledger'[q] + Unsaved(q)' >= ledger[q] + Unsaved(q)
                  /\ BeatBounds(q)'
  <2>1. Unsaved(q)' = Unsaved(q)
    BY <1>1, <1>4 DEF Unsaved, Owing, Owed
  <2>2. /\ ledger[q] \in Nat /\ Unsaved(q) \in Int /\ Loss \in Nat /\ late \in Nat
        /\ Quantum \in Nat /\ Owing(q) \in Nat /\ slice[q].age \in Int /\ slice[q].saved \in Nat
    BY Numbers, LossNumbers DEF Inv
  <2>3. (Taking(q) \in Nat)'
    <3>1. beat' \in Beats
      BY DEF Inv, TypeOK
    <3>2. QED BY <3>1 DEF Taking, Beats, Flushes
  <2>4. ASSUME Undisturbed(q), IsOpen(q) PROVE BeatBounds(q)'
    <3>1. BeatBounds(q) /\ Taking(q) = 0
      BY <1>1, <2>4 DEF LossInv, Accounted, Taking
    <3>2. late' = late /\ Loss' = Loss
      BY <1>1 DEF Loss
    <3>3. CASE q # r
      BY <1>1, <1>4, <2>1, <2>2, <2>3, <3>1, <3>2, <3>3 DEF BeatBounds
    <3>4. CASE q = r
      <4>1. slice[q].age - slice[q].saved <= Quanta(q) + Quantum - 1 /\ Quanta(q) \in Int
        BY <2>4, QuantaLeave DEF Inv
      <4>2. Unsaved(q) <= Quantum - 1 + late + Taking(q)'
        BY <1>4, <2>2, <2>3, <3>4, <4>1 DEF Unsaved
      <4>3. QED BY <1>4, <2>1, <3>1, <3>2, <4>2 DEF BeatBounds
    <3>5. QED BY <3>3, <3>4
  <2>5. QED BY <1>1, <1>4, <2>1, <2>2, <2>4 DEF rows
<1>6. QED BY <1>1, <1>4, <1>5, BeatFlushLoss DEF rows

(* What it adds is no longer unsaved.                                       *)
LEMMA BeatAddsLoss ==
  ASSUME Inv, Inv', LossInv, BeatAdds
  PROVE  LossInv'
<1> DEFINE r == beat.flush.on
<1>1. /\ UNCHANGED <<st, slice, tick, ran, cut, late, stopped>> /\ beat \in Beats
      /\ beat.pc = "round" /\ beat.flush.pc = "add" /\ r \in Researches
  BY DEF BeatAdds, Inv, Shape, BeatShape, TypeOK, Beats, Flushes, budget, ghosts
<1>2. /\ beat'.pc = "round" /\ beat'.todo = beat.todo /\ beat'.flush.pc = "advance"
      /\ beat'.flush.on = r /\ beat'.flush.secs = beat.flush.secs
  BY <1>1 DEF BeatAdds, Added, Beats, Flushes
<1>3. ASSUME NEW q \in Researches
      PROVE  /\ ledger'[q] >= ledger[q]
             /\ Undisturbed(q) /\ IsOpen(q) =>
                  /\ ledger'[q] + Unsaved(q)' >= ledger[q] + Unsaved(q)
                  /\ BeatBounds(q)'
  <2>1. /\ ledger'[q] = ledger[q] + IF q = r /\ st[q] # "gone" THEN beat.flush.secs ELSE 0
        /\ beat.flush.secs \in Nat /\ ledger[q] \in Nat /\ Owing(q) \in Nat
        /\ slice[q].age \in Int /\ slice[q].saved \in Nat /\ Unsaved(q) \in Int
        /\ Loss \in Nat /\ late \in Nat /\ Quantum \in Nat
    BY <1>1, Numbers, LossNumbers DEF BeatAdds, AddQuanta, Add, Inv, TypeOK
  <2>2. Owed("tick", tick.flush, q)' = Owed("tick", tick.flush, q)
        /\ Owed("tick", tick.flush, q) \in Nat
    BY <1>1 DEF Owed, Inv, TypeOK, Ticks, Flushes
  <2>3. /\ Owed("beat", beat.flush, q) = 0 /\ Owed("beat", beat.flush, q)' = Taking(q)
        /\ Taking(q)' = 0 /\ Taking(q) \in {0, beat.flush.secs} /\ (Taking(q) # 0 => q = r)
    BY <1>1, <1>2 DEF Owed, Taking
  <2>4. Unsaved(q)' = Unsaved(q) - Taking(q)
    <3>1. Unsaved(q)' = slice[q].age - slice[q].saved - Owing(q)'
      BY <1>1 DEF Unsaved
    <3>2. Owing(q)' = Owing(q) + Taking(q)
      BY <2>1, <2>2, <2>3 DEF Owing
    <3>3. QED BY <2>1, <2>3, <3>1, <3>2 DEF Unsaved
  <2>5. ASSUME Undisturbed(q), IsOpen(q) PROVE BeatBounds(q)'
    <3>1. BeatBounds(q)
      BY <2>5 DEF LossInv, Accounted
    <3>2. late' = late /\ Loss' = Loss /\ Taking(q) \in Nat
      BY <1>1, LossNumbers DEF Loss, Inv
    <3>3. QED BY <1>1, <1>2, <2>1, <2>3, <2>4, <3>1, <3>2 DEF BeatBounds
  <2>6. Undisturbed(q) => ledger'[q] + Unsaved(q)' >= ledger[q] + Unsaved(q)
    <3>1. Undisturbed(q) => ledger'[q] >= ledger[q] + Taking(q)
      BY <2>1, <2>3 DEF Undisturbed
    <3>2. Taking(q) \in Nat /\ ledger'[q] \in Nat
      BY <2>1, LossNumbers DEF Inv
    <3>3. QED BY <2>1, <2>4, <3>1, <3>2
  <2>7. QED BY <2>1, <2>5, <2>6
<1>4. QED BY <1>1, <1>2, <1>3, BeatFlushLoss

(* What it advances was owed.                                               *)
LEMMA BeatAdvancesLoss ==
  ASSUME Inv, Inv', LossInv, BeatAdvances
  PROVE  LossInv'
<1>1. /\ UNCHANGED <<rows, tick, ran, cut, late, stopped>> /\ beat \in Beats
      /\ beat.pc = "round" /\ beat.flush.pc = "advance" /\ beat.flush.on \in Researches
  BY DEF BeatAdvances, Inv, Shape, BeatShape, TypeOK, Beats, Flushes, ghosts
<1>2. beat'.pc = "round" /\ beat'.todo = beat.todo /\ beat'.flush.pc = "none"
  BY <1>1 DEF BeatAdvances, NoFlush, Beats
<1>3. \A q \in Researches :
         /\ slice'[q].age = slice[q].age
         /\ slice'[q].saved = slice[q].saved + Owed("beat", beat.flush, q)
         /\ "tick" \in slice'[q].held <=> "tick" \in slice[q].held
  BY <1>1, AdvanceSlices DEF BeatAdvances, Threads, Inv, Beats
<1>4. ASSUME NEW q \in Researches
      PROVE  /\ Unsaved(q)' = Unsaved(q) /\ Unsaved(q) \in Int /\ ledger[q] \in Nat
             /\ Undisturbed(q) /\ IsOpen(q) => BeatBounds(q)'
  <2>1. /\ Owed("beat", beat.flush, q)' = 0
        /\ Owed("tick", tick.flush, q)' = Owed("tick", tick.flush, q)
        /\ Owed("tick", tick.flush, q) \in Nat /\ Owed("beat", beat.flush, q) \in Nat
    BY <1>1, <1>2, <1>3 DEF Owed, Inv, TypeOK, Ticks, Beats, Flushes
  <2>2. slice[q].age \in Int /\ slice[q].saved \in Nat /\ ledger[q] \in Nat /\ Unsaved(q) \in Int
    BY Numbers, LossNumbers DEF Inv
  <2>3. Unsaved(q)' = Unsaved(q)
    BY <1>3, <2>1, <2>2 DEF Unsaved, Owing
  <2>4. Undisturbed(q) /\ IsOpen(q) => BeatBounds(q)
    BY DEF LossInv, Accounted
  <2>5. Taking(q) = 0 /\ Taking(q)' = 0 /\ late' = late /\ Loss' = Loss
    BY <1>1, <1>2 DEF Taking, Loss
  <2>6. QED BY <1>1, <1>2, <2>2, <2>3, <2>4, <2>5 DEF BeatBounds
<1>5. QED BY <1>1, <1>2, <1>3, <1>4, BeatFlushLoss DEF rows

(* It dies before it added what it read, or when it should have woken.      *)
LEMMA BeatDiesLoss ==
  ASSUME Inv, Inv', LossInv, BeatDies
  PROVE  LossInv'
<1>1. /\ UNCHANGED <<rows, tick, ran, cut, late, stopped>> /\ beat \in Beats
      /\ beat.flush.pc # "advance" /\ beat'.pc = "dead" /\ beat'.flush.pc = "none"
      /\ slice' = [q \in Researches |-> [slice[q] EXCEPT !.held = @ \ {"beat"}]]
  BY DEF BeatDies, NoBeat, NoFlush, Inv, Shape, BeatShape, TypeOK
<1>2. ASSUME NEW q \in Researches
      PROVE  /\ slice'[q].age = slice[q].age /\ Unsaved(q)' = Unsaved(q)
             /\ Unsaved(q) \in Int /\ ledger[q] \in Nat
             /\ Undisturbed(q) /\ IsOpen(q) => BeatBounds(q)'
  <2>1. slice[q] \in Slices /\ Unsaved(q) \in Int /\ ledger[q] \in Nat
    BY Numbers, LossNumbers DEF Inv, TypeOK
  <2>2. /\ slice'[q].age = slice[q].age /\ slice'[q].saved = slice[q].saved
        /\ "tick" \in slice'[q].held <=> "tick" \in slice[q].held
    BY <1>1, <2>1 DEF Slices
  <2>3. Unsaved(q)' = Unsaved(q)
    BY <1>1, <2>2 DEF Unsaved, Owing, Owed
  <2>4. Undisturbed(q) /\ IsOpen(q) => BeatBounds(q)
    BY DEF LossInv, Accounted
  <2>5. QED BY <1>1, <2>1, <2>2, <2>3, <2>4 DEF BeatBounds, Loss
<1>3. QED BY <1>1, <1>2, BeatFlushLoss DEF rows

-----------------------------------------------------------------------------
(* Commands, the clock, and the end of the process                         *)

(* A command opens and closes no slice of a research it has not stopped.    *)
LEMMA CommandLoss ==
  ASSUME Inv, Inv', LossInv, NEW c \in Commands, Command(c)
  PROVE  LossInv'
<1>1. TypeOK /\ UNCHANGED <<ledger, beat, ran, cut, late>>
  BY DEF Inv, Command, CmdLoad, CmdClock, CmdSave, Delete, rows, budget, ghosts
<1>2. /\ tick'.on = tick.on /\ tick'.flush = tick.flush /\ tick'.base = tick.base
      /\ tick'.began = tick.began /\ tick'.rest = tick.rest /\ tick'.pc = tick.pc
      /\ tick'.stage = tick.stage /\ tick'.round = tick.round /\ tick'.next = tick.next
  <2>1. \A r : /\ TickStale(r).on = tick.on /\ TickStale(r).flush = tick.flush
               /\ TickStale(r).base = tick.base /\ TickStale(r).began = tick.began
               /\ TickStale(r).rest = tick.rest /\ TickStale(r).pc = tick.pc
               /\ TickStale(r).stage = tick.stage /\ TickStale(r).round = tick.round
               /\ TickStale(r).next = tick.next
    BY <1>1 DEF TickStale, TypeOK, Ticks
  <2>2. tick' = tick \/ \E r : tick' = TickStale(r)
    BY DEF Command, CmdLoad, CmdClock, CmdSave, Delete
  <2>3. QED BY <2>1, <2>2
<1>3. \A q \in Researches : Undisturbed(q)' => Undisturbed(q)
  <2>1. CASE CmdClock(c)
    BY <2>1 DEF CmdClock, Undisturbed, rows
  <2>2. CASE CmdSave(c)
    <3>1. st' = st \/ (st[cmd[c].on] # "gone" /\ \E s : st' = [st EXCEPT ![cmd[c].on] = s])
      BY <2>2 DEF CmdSave, Fits
    <3>2. QED BY <1>1, <2>2, <3>1 DEF CmdSave, Undisturbed, TypeOK, ghosts
  <2>3. CASE \E r \in Researches : Delete(c, r)
    BY <1>1, <2>3 DEF Delete, Undisturbed, TypeOK, ghosts
  <2>4. CASE \E r \in Researches, op \in Ops : CmdLoad(c, r, op)
    BY <2>4 DEF CmdLoad, Undisturbed, rows, ghosts
  <2>5. QED BY <2>1, <2>2, <2>3, <2>4 DEF Command
<1>4. CASE slice' = slice
  BY <1>1, <1>2, <1>3, <1>4, QuietLoss DEF LossInv
<1>5. CASE slice' # slice
  <2>1. CmdClock(c) /\ cmd[c].op = "stop" /\ slice' = Pop(cmd[c].on)
    BY <1>5 DEF Command, CmdLoad, CmdClock, CmdSave, Delete, budget
  <2>2. cmd[c].on \in stopped'
    BY <2>1 DEF CmdClock
  <2>3. ASSUME NEW q \in Researches, Undisturbed(q)' PROVE Accounted(q)'
    <3>1. Accounted(q) /\ q # cmd[c].on
      BY <1>3, <2>2, <2>3 DEF LossInv, Undisturbed
    <3>2. slice'[q] = slice[q]
      BY <1>1, <2>1, <3>1 DEF Pop, TypeOK
    <3>3. (IsOpen(q)' <=> IsOpen(q)) /\ Unsaved(q)' = Unsaved(q) /\ Taking(q)' = Taking(q)
      BY <1>1, <1>2, <3>2 DEF IsOpen, Unsaved, Taking, Owing, Owed
    <3>4. ledger[q] \in Nat /\ Unsaved(q) \in Int
      BY <1>1, Numbers, LossNumbers
    <3>5. IsOpen(q) => BeatBounds(q)'
      BY <1>1, <3>1, <3>3 DEF Accounted, BeatBounds, Loss
    <3>6. QED BY <1>1, <1>2, <3>1, <3>3, <3>4, <3>5, StillAccounted DEF Inv
  <2>4. QED BY <1>1, <1>2, <2>3 DEF LossInv
<1>6. QED BY <1>4, <1>5

(* A unit passes: a slice ages as its tick runs, and the heartbeat waits or *)
(* is late.                                                                 *)
LEMMA PassLoss ==
  ASSUME Inv, Inv', LossInv, Pass
  PROVE  LossInv'
<1>1. TypeOK /\ TypeOK'
  BY DEF Inv
<1>2. UNCHANGED <<rows, tick, cmd, cut, stopped, overlaps, cuts>>
  BY DEF Pass
<1>3. \/ /\ Prompt /\ late' = late /\ beat' = [beat EXCEPT !.age = @ + 1]
      \/ /\ ~Prompt /\ late' = late + 1 /\ beat' = beat
  BY DEF Pass
<1>4. /\ beat'.flush = beat.flush /\ beat'.pc = beat.pc /\ beat'.todo = beat.todo
      /\ late \in Nat /\ beat.age \in Nat /\ Quantum \in Nat
      /\ \/ beat.pc = "wait" /\ beat.age < Quantum /\ late' = late /\ beat'.age = beat.age + 1
         \/ late' = late + 1 /\ beat' = beat
  BY <1>1, <1>3, LossNumbers, TimeAssumption DEF Prompt, TypeOK, Beats
<1>5. \A q \in Researches :
         /\ slice'[q].saved = slice[q].saved /\ slice'[q].held = slice[q].held
         /\ IsOpen(q) => slice'[q].age = slice[q].age + 1
         /\ ~IsOpen(q) => slice'[q] = slice[q]
  <2>1. \A q \in Researches : slice[q] \in Slices
    BY <1>1 DEF TypeOK
  <2>2. slice' = [q \in Researches |-> IF IsOpen(q) THEN [slice[q] EXCEPT !.age = @ + 1]
                                       ELSE slice[q]]
    BY DEF Pass
  <2>3. QED BY <2>1, <2>2 DEF Slices
<1>6. \A q \in Researches : ran'[q] = ran[q] + IF AtWork(q) THEN 1 ELSE 0
  BY <1>1 DEF Pass, TypeOK
<1>7. beat'.pc = "wait" => beat'.age <= Quantum
  BY <1>4 DEF LossInv
<1>8. ASSUME NEW q \in Researches, Undisturbed(q)' PROVE Accounted(q)'
  <2>1. Undisturbed(q) /\ Accounted(q)
    BY <1>2, <1>8 DEF LossInv, Undisturbed, rows
  <2>2. (IsOpen(q)' <=> IsOpen(q)) /\ Owing(q)' = Owing(q) /\ Taking(q)' = Taking(q)
    <3>1. IsOpen(q)' <=> IsOpen(q)
      BY <1>1, <1>5, Numbers DEF IsOpen, Closed
    <3>2. QED BY <1>2, <1>4, <1>5, <3>1 DEF Owing, Owed, Taking
  <2>3. /\ slice[q].age \in Int /\ slice[q].saved \in Nat /\ Owing(q) \in Nat
        /\ ran[q] \in Nat /\ ledger[q] \in Nat /\ Taking(q) \in Nat /\ Unsaved(q) \in Int
        /\ Loss \in Nat /\ cut[q] \in Nat /\ cut[q] * Loss \in Nat /\ Quantum \in Nat
        /\ tick.rest \in Nat /\ tick.began \in Nat /\ tick.base \in Nat
    BY <1>1, Numbers, LossNumbers
  <2>4. /\ Loss' \in Nat /\ Loss <= Loss' /\ Loss' - Loss = late' - late
        /\ cut'[q] = cut[q] /\ ledger'[q] = ledger[q] /\ tick' = tick
    BY <1>2, <1>4, <2>3 DEF Loss, rows
  <2>5. cut[q] * Loss <= cut[q] * Loss' /\ cut[q] * Loss' \in Nat
    BY <2>3, <2>4, Products
  <2>6. AtWork(q) <=> IsOpen(q)
    BY <2>1 DEF Inv, Shape, SliceShape, SliceFits, AtWork, Here, Working, Ticking
  <2>7. IsOpen(q) => ran'[q] = ran[q] + 1 /\ Unsaved(q)' = Unsaved(q) + 1
    BY <1>5, <1>6, <2>2, <2>3, <2>6 DEF Unsaved
  <2>8. ~IsOpen(q) => ran'[q] = ran[q]
    BY <1>6, <2>3, <2>6
  <2> DEFINE p == cut[q] * Loss
             n == cut[q] * Loss'
  <2>9. p \in Nat /\ n \in Nat /\ p <= n
    BY <2>3, <2>5
  <2>10. /\ IsOpen(q) => ran[q] <= ledger[q] + Unsaved(q) + p /\ BeatBounds(q)
         /\ tick.on = q /\ tick.pc = "rest" =>
              ran[q] <= ledger[q] + tick.rest + p /\ ran[q] <= ledger[q] + p + Loss
         /\ ~IsOpen(q) /\ ~(tick.on = q /\ tick.pc = "rest") => ran[q] <= ledger[q] + p
         /\ tick.on = q => tick.began <= tick.base + p
    BY <2>1 DEF Accounted
  <2> HIDE DEF p, n
  <2>11. IsOpen(q) => ran'[q] <= ledger[q] + Unsaved(q)' + n
    BY <2>3, <2>7, <2>9, <2>10
  <2>12. IsOpen(q) => BeatBounds(q)'
    BY <1>4, <2>2, <2>3, <2>4, <2>7, <2>10 DEF BeatBounds, LossInv, Loss
  <2>13. tick.on = q /\ tick.pc = "rest" =>
           /\ ran'[q] <= ledger[q] + tick.rest + n /\ ran'[q] <= ledger[q] + n + Loss'
    <3>1. tick.on = q /\ tick.pc = "rest" => ~IsOpen(q)
      BY DEF Inv, Shape, SliceShape, SliceFits, Working
    <3>2. QED BY <2>3, <2>4, <2>8, <2>9, <2>10, <3>1
  <2>14. ~IsOpen(q) /\ ~(tick.on = q /\ tick.pc = "rest") => ran'[q] <= ledger[q] + n
    BY <2>3, <2>8, <2>9, <2>10
  <2>15. tick.on = q => tick.began <= tick.base + n
    BY <2>3, <2>9, <2>10
  <2>16. QED BY <2>2, <2>4, <2>11, <2>12, <2>13, <2>14, <2>15 DEF Accounted, n
<1>9. QED BY <1>2, <1>7, <1>8 DEF LossInv

(* A crash interrupts the tick that is at work.                             *)
LEMMA CrashLoss ==
  ASSUME Inv, Inv', LossInv, Crash
  PROVE  LossInv'
<1>1. /\ UNCHANGED <<rows, time, late, ran, stopped, overlaps>> /\ tick' = NoTick
      /\ beat' = NoBeat
      /\ cut' = [r \in Researches |-> IF tick.on = r /\ Here(Ticking) THEN cut[r] + 1 ELSE cut[r]]
  BY DEF Crash
<1>2. beat'.pc = "wait" => beat'.age <= Quantum
  BY <1>1, TimeAssumption DEF NoBeat
<1>3. ASSUME NEW q \in Researches
      PROVE  \/ cut'[q] = cut[q] + 1
             \/ cut'[q] = cut[q] /\ ~IsOpen(q) /\ ~(tick.on = q /\ tick.pc = "rest")
  <2>1. IsOpen(q) => tick.on = q /\ tick.pc \in Working
    BY DEF Inv, Shape, SliceShape, SliceFits
  <2>2. CASE tick.on = q /\ tick.pc \in Ticking
    BY <1>1, <2>2 DEF Here
  <2>3. CASE ~(tick.on = q /\ tick.pc \in Ticking)
    BY <1>1, <2>1, <2>3 DEF Here, Working, Ticking
  <2>4. QED BY <2>2, <2>3
<1>4. \A q \in Researches : Undisturbed(q)' => Undisturbed(q)
  BY <1>1 DEF Undisturbed, rows
<1>5. QED BY <1>1, <1>2, <1>3, <1>4, EndLoss DEF rows

-----------------------------------------------------------------------------
(* The theorem                                                             *)

(* Nothing was run when the engine starts.                                  *)
LEMMA InitLoss == Init => LossInv
<1> SUFFICES ASSUME Init PROVE LossInv
  OBVIOUS
<1>1. Inv
  BY InitInv
<1>2. /\ beat.age = 0 /\ tick.stage = 0 /\ tick.pc = "idle" /\ tick.on = None
      /\ \A q \in Researches : ran[q] = 0 /\ ledger[q] = 0 /\ ~IsOpen(q) /\ q # None
  BY Slots, TimeAssumption DEF Init, NoBeat, NoTick, IsOpen
<1>3. \A q \in Researches : cut[q] * Loss \in Nat
  BY <1>1, LossNumbers DEF Inv
<1>4. QED BY <1>2, <1>3, TimeAssumption DEF LossInv, Accounted

(* Every step keeps the account.                                            *)
LEMMA NextLoss == Inv /\ Inv' /\ LossInv /\ [Next]_vars => LossInv'
<1> SUFFICES ASSUME Inv, Inv', LossInv, [Next]_vars PROVE LossInv'
  OBVIOUS
<1>1. CASE Tick
  BY <1>1, TickLoadLoss, TickLeavesLoss, TickBeginLoss, TickTurnsLoss, TickReadsLoss,
     TickAddsLoss, TickAdvancesLoss, TickClosesLoss, TickRestsLoss, TickFailsLoss,
     TickRemovedLoss DEF Tick
<1>2. CASE Beat
  BY <1>2, BeatWakesLoss, BeatReadsLoss, BeatAddsLoss, BeatAdvancesLoss, BeatDiesLoss DEF Beat
<1>3. CASE UNCHANGED vars
  BY <1>3, QuietLoss DEF vars, rows, budget, ghosts, LossInv, Undisturbed
<1>4. QED BY <1>1, <1>2, <1>3, CommandLoss, PassLoss, CrashLoss DEF Next

(* What the ticks of an undisturbed research ran is charged to it, but for  *)
(* nearly two periods of the heartbeat and its delay at each interruption,  *)
(* and the hours of the user end it (clock.py:106, loop.py:1334).           *)
THEOREM TimeIsNotLostAlways == Spec => []TimeIsNotLost
<1>1. Inv /\ LossInv => TimeIsNotLost
  <2> SUFFICES ASSUME Inv, LossInv PROVE TimeIsNotLost
    OBVIOUS
  <2>1. TypeOK
    BY DEF Inv
  <2>2. ASSUME NEW r \in Researches, Undisturbed(r)
        PROVE  ran[r] <= Charged(r) + Interruptions(r) * Loss
    <3>1. Accounted(r)
      BY <2>2 DEF LossInv
    <3>2. /\ ledger[r] \in Nat /\ Unsaved(r) \in Int /\ ran[r] \in Nat /\ cut[r] * Loss \in Nat
          /\ tick.rest \in Nat /\ Loss \in Nat /\ cut[r] \in Nat
          /\ Charged(r) \in Nat /\ Charged(r) >= ledger[r]
      BY <2>1, LossNumbers, Numbers DEF Charged, Larger
    <3>3. (cut[r] + 1) * Loss = cut[r] * Loss + Loss
      BY <3>2, Products
    <3>4. CASE tick.on = r /\ Here(Ticking)
      <4>1. Interruptions(r) = cut[r] + 1
        BY <3>4 DEF Interruptions
      <4>2. ran[r] <= ledger[r] + cut[r] * Loss + Loss
        BY <3>1, <3>2 DEF Accounted, BeatBounds
      <4>3. QED BY <3>2, <3>3, <4>1, <4>2
    <3>5. CASE ~(tick.on = r /\ Here(Ticking))
      <4>1. Interruptions(r) = cut[r]
        BY <3>2, <3>5 DEF Interruptions
      <4>2. ~IsOpen(r) /\ ~(tick.on = r /\ tick.pc = "rest")
        BY <3>5 DEF Inv, Shape, SliceShape, SliceFits, Here, Working, Ticking
      <4>3. ran[r] <= ledger[r] + cut[r] * Loss
        BY <3>1, <4>2 DEF Accounted
      <4>4. QED BY <3>2, <4>1, <4>3
    <3>6. QED BY <3>4, <3>5
  <2>3. SpentEnds
    <3>1. SUFFICES ASSUME tick.stage = 3, tick.round, Undisturbed(tick.on),
                          tick.began >= Limit + cut[tick.on] * Loss
                   PROVE  tick.next = "idle"
      BY DEF SpentEnds
    <3>2. tick.on \in Researches /\ tick.pc # "idle"
      BY <2>1, <3>1, TickHasResearch DEF LossInv, Inv, Shape, TickShape
    <3>3. tick.began <= tick.base + cut[tick.on] * Loss
      BY <3>1, <3>2 DEF LossInv, Accounted
    <3>4. /\ tick.began \in Nat /\ tick.base \in Nat /\ cut[tick.on] * Loss \in Nat
          /\ Limit \in Nat
      BY <2>1, <3>2, LossNumbers, Numbers, TimeAssumption
    <3>5. tick.base >= Limit
      BY <3>1, <3>3, <3>4
    <3>6. QED BY <3>1, <3>5 DEF LossInv
  <2>4. QED BY <2>2, <2>3 DEF TimeIsNotLost, LossIsBounded
<1>2. QED BY <1>1, InitLoss, NextLoss, InvAlways, PTL DEF Spec
=============================================================================
