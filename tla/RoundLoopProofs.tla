-------------------------- MODULE RoundLoopProofs --------------------------
(***************************************************************************)
(* What the loop of the engine keeps of its rounds, for all sets of        *)
(* researches and workers and every number of failures, errors, versions   *)
(* and crashes.  What it keeps of the attempts needs one worker, which is  *)
(* what serve starts.                                                      *)
(***************************************************************************)
EXTENDS RoundLoop, FiniteSetTheorems, TLAPS

-----------------------------------------------------------------------------
(* What carries the properties                                             *)

\* Where a worker has loaded the row, and where it may go on with its round.
Held == {"enter", "decide", "build", "review", "settle", "finish", "fail_save"}
Going == {"decide", "build", "review", "settle", "finish", "receipt"}
\* The round a worker with the locals l works on.
RoundFor(l) == [r |-> l.r, ver |-> l.snap.ver, round |-> l.snap.rounds + 1]

\* A worker with the locals l, whose columns s have changed since it loaded:
\* until another writes the row, it is what the worker holds.
Holds(l, s) ==
    /\ l.pc \notin {"idle", "next"} => l.r \in Researches
    /\ l.pc \in Going => l.snap.st = "running"
    /\ l.pc \in Held \cup Going => (l.snap.ver = 0 <=> l.snap.st \in {"none", "draft"})
    /\ l.pc \in {"build", "review"} => l.n >= 1
    /\ l.pc \in Held /\ "updated_at" \notin s => row[l.r] = l.snap
    /\ l.pc = "finish" => l.out.st \notin {"none", "draft"}
    /\ l.pc = "receipt" => RoundFor(l) \in history
WorkersHold == \A w \in Workers : Holds(loop[w], stale[w])

\* A version is opened before a research runs.
VersionsOpen ==
    \A r \in Researches : row[r].ver = 0 <=> row[r].st \in {"none", "draft"}

\* What was committed of a research is there until it is deleted, for good.
HistoryInv ==
    /\ IsFiniteSet(history)
    /\ committed \subseteq history
    /\ \A x \in history : Live(x.r) => x \in committed
    /\ \A x \in committed : x.ver <= row[x.r].ver

Inv ==
    /\ TypeOK /\ IsFiniteSet(attempts)
    /\ WorkersHold /\ VersionsOpen /\ HistoryInv
    /\ RoundsAgree /\ MCountsRounds /\ ReceiptMeansCommitted

\* With one worker: it tries the next attempt after all that failed, and it
\* goes on with a round that has passed, unless its research was deleted.
Tries(l) ==
    Live(l.r) =>
        /\ l.pc \in {"build", "review"} =>
              /\ l.n = Cardinality(AttemptsAt(RoundFor(l))) + 1
              /\ \A a \in AttemptsAt(RoundFor(l)) : ~a.passed
        /\ l.pc = "settle" \/ (l.pc = "finish" /\ l.out.round) =>
              \E a \in AttemptsAt(RoundFor(l)) : a.passed
WorkersTry == \A w \in Workers : loop[w].r \in Researches => Tries(loop[w])

\* The attempts at x are numbered as they were made, and end with the first
\* that passed.
InOrder(x) ==
    /\ {b.n : b \in AttemptsAt(x)} = 1..Cardinality(AttemptsAt(x))
    /\ Cardinality(AttemptsAt(x)) <= MaxFailures
    /\ \A a \in AttemptsAt(x) : a.passed => a.n = Cardinality(AttemptsAt(x))
AllInOrder == \A x \in RoundId : Live(x.r) => InOrder(x)

\* serve runs one compute worker (main.py, serve).
OneWorker == \A v, w \in Workers : v = w
OneInv == WorkersTry /\ AllInOrder /\ CommittedWasReviewed

-----------------------------------------------------------------------------
(* Records                                                                 *)

(* A worker that goes somewhere keeps its locals.                           *)
LEMMA Moved ==
  ASSUME NEW l \in Worker, NEW pc \in Pc
  PROVE  LET m == [l EXCEPT !.pc = pc]
         IN  /\ m \in Worker /\ m.pc = pc /\ m.r = l.r /\ m.todo = l.todo
             /\ m.snap = l.snap /\ m.n = l.n /\ m.out = l.out
  BY DEF Worker

(* A worker between two ticks holds nothing.                                *)
LEMMA Idle ==
  /\ IdleWorker \in Worker /\ IdleWorker.pc = "idle" /\ IdleWorker.r = None
  /\ NewRow \in Row
<1>1. NewRow \in Row
  BY LoopAssumption DEF NewRow, Row, Status
<1>2. IdleWorker \in Worker
  BY <1>1, LoopAssumption DEF IdleWorker, Worker, Pc, NoOutcome, Outcome, Status
<1>3. QED BY <1>1, <1>2 DEF IdleWorker

(* The round of a worker that goes on is one.                               *)
LEMMA RoundsAre ==
  ASSUME NEW l \in Worker, NEW s, Holds(l, s), l.pc \in Going
  PROVE  RoundFor(l) \in RoundId
<1>1. l.snap \in Row /\ l.r \in Researches /\ l.snap.ver # 0
  BY DEF Worker, Holds, Going
<1>2. l.snap.ver \in 1..MaxVersion /\ l.snap.rounds + 1 \in Nat \ {0}
  BY <1>1, LoopAssumption DEF Row
<1>3. QED BY <1>1, <1>2 DEF RoundFor, RoundId

(* The attempts at a round are finitely many.                               *)
LEMMA AttemptsCounted ==
  ASSUME Inv, NEW x
  PROVE  /\ IsFiniteSet(AttemptsAt(x)) /\ Cardinality(AttemptsAt(x)) \in Nat
         /\ FailuresAt(x) \in Nat
         /\ (\A a \in AttemptsAt(x) : ~a.passed) => FailuresAt(x) = Cardinality(AttemptsAt(x))
<1>1. AttemptsAt(x) \subseteq attempts
  BY DEF AttemptsAt
<1>2. IsFiniteSet(AttemptsAt(x))
  BY <1>1, FS_Subset DEF Inv
<1>3. IsFiniteSet({a \in AttemptsAt(x) : ~a.passed})
  BY <1>2, FS_Subset
<1>4. (\A a \in AttemptsAt(x) : ~a.passed) => {a \in AttemptsAt(x) : ~a.passed} = AttemptsAt(x)
  OBVIOUS
<1>5. QED BY <1>2, <1>3, <1>4, FS_CardinalityType DEF FailuresAt

-----------------------------------------------------------------------------
(* Kinds of steps                                                          *)

(* What another step does to a worker: its row stays, or its stale columns  *)
(* show the write.                                                          *)
LEMMA OthersHold ==
  ASSUME Inv, NEW v \in Workers, loop'[v] = loop[v], stale[v] \subseteq stale'[v],
         history \subseteq history',
         row'[loop[v].r] = row[loop[v].r] \/ "updated_at" \in stale'[v]
  PROVE  Holds(loop[v], stale[v])'
<1>1. Holds(loop[v], stale[v])
  BY DEF Inv, WorkersHold
<1>2. QED BY <1>1 DEF Holds, RoundFor

(* A step of a worker that leaves the rows and the rounds alone.            *)
LEMMA Quiet ==
  ASSUME Inv, NEW w \in Workers, NEW l \in Worker, loop' = [loop EXCEPT ![w] = l],
         Holds(l, stale'[w]),
         stale' \in [Workers -> SUBSET Column],
         \A v \in Workers \ {w} : stale[v] \subseteq stale'[v],
         UNCHANGED <<row, committed, windowM, history, up, crashes>>,
         receipts' \subseteq history, attempts' \subseteq Attempt, IsFiniteSet(attempts'),
         lease' \in Researches \cup {None}, removed' \subseteq Researches,
         gate' \in {"open", "duplicate_m", "lost_committed_receipt"},
         tried' \subseteq Researches
  PROVE  Inv'
<1> USE DEF Inv
<1>1. loop' \in [Workers -> Worker] /\ loop'[w] = l
      /\ \A v \in Workers \ {w} : loop'[v] = loop[v]
  BY DEF TypeOK
<1>2. receipts' \subseteq RoundId
  BY DEF TypeOK
<1>3. TypeOK'
  BY <1>1, <1>2 DEF TypeOK
<1>4. ASSUME NEW v \in Workers PROVE Holds(loop[v], stale[v])'
  <2>1. CASE v = w
    BY <1>1, <2>1 DEF Holds
  <2>2. CASE v # w
    BY <1>1, <2>2, OthersHold
  <2>3. QED BY <2>1, <2>2
<1>5. VersionsOpen' /\ RoundsAgree' /\ HistoryInv' /\ MCountsRounds' /\ ReceiptMeansCommitted'
  BY DEF VersionsOpen, RoundsAgree, RoundsOf, HistoryInv, MCountsRounds, ReceiptMeansCommitted, Live
<1>6. QED BY <1>3, <1>4, <1>5 DEF WorkersHold

(* The same where the worker only goes on, and no table is written.         *)
LEMMA GoesOn ==
  ASSUME Inv, NEW w \in Workers, NEW l \in Worker, loop' = [loop EXCEPT ![w] = l],
         Holds(l, stale'[w]),
         stale' \in [Workers -> SUBSET Column],
         \A v \in Workers \ {w} : stale[v] \subseteq stale'[v],
         UNCHANGED <<tables, removed, history, up, crashes>>,
         tried' \subseteq Researches
  PROVE  Inv'
<1>1. /\ UNCHANGED <<row, attempts, committed, windowM, receipts, lease, gate>>
      /\ receipts \subseteq history
  BY DEF tables, Inv, ReceiptMeansCommitted
<1>2. QED BY <1>1, Quiet DEF Inv, TypeOK

(* Another worker sees a touched column.                                    *)
LEMMA Touched ==
  ASSUME TypeOK, NEW r, NEW others \in SUBSET Workers, NEW columns \in SUBSET Column,
         Touch(r, others, columns)
  PROVE  /\ stale' \in [Workers -> SUBSET Column]
         /\ \A v \in Workers : /\ stale[v] \subseteq stale'[v]
                               /\ v \in others /\ loop[v].r = r => columns \subseteq stale'[v]
                               /\ v \notin others => stale'[v] = stale[v]
  BY DEF TypeOK, Touch

-----------------------------------------------------------------------------
(* The sweep and the head of the tick                                      *)

(* A worker takes the list of running researches, or comes to its end.      *)
LEMMA WakeStep ==
  ASSUME Inv, NEW w \in Workers, Wake(w) \/ SweepEnds(w), UNCHANGED <<up, crashes>>
  PROVE  Inv'
<1>1. loop[w] \in Worker
  BY DEF Inv, TypeOK
<1>2. CASE Wake(w)
  <2> DEFINE l == [loop[w] EXCEPT !.pc = "next", !.todo = Running]
  <2>1. loop' = [loop EXCEPT ![w] = l]
    BY <1>2 DEF Wake
  <2>2. l \in Worker /\ l.pc = "next"
    BY <1>1 DEF Worker, Running, Pc
  <2> HIDE DEF l
  <2>3. Holds(l, stale'[w])
    BY <2>2 DEF Holds, Going, Held
  <2>4. QED BY <1>2, <2>1, <2>2, <2>3, GoesOn DEF Wake, ghosts, Inv, TypeOK
<1>3. CASE SweepEnds(w)
  <2> DEFINE l == [loop[w] EXCEPT !.pc = "idle"]
  <2>1. loop' = [loop EXCEPT ![w] = l]
    BY <1>3 DEF SweepEnds, Goto
  <2>2. l \in Worker /\ l.pc = "idle"
    BY <1>1, Moved DEF Pc
  <2> HIDE DEF l
  <2>3. Holds(l, stale'[w])
    BY <2>2 DEF Holds, Going, Held
  <2>4. QED BY <1>3, <2>1, <2>2, <2>3, GoesOn DEF SweepEnds, ghosts, Inv, TypeOK
<1>4. QED BY <1>2, <1>3

(* It takes the lease for a research, or leaves that research waiting.      *)
LEMMA AcquireStep ==
  ASSUME Inv, NEW w \in Workers, NEW r \in Researches, Acquire(w, r) \/ Queued(w, r),
         UNCHANGED <<up, crashes>>
  PROVE  Inv'
<1>1. loop[w] \in Worker
  BY DEF Inv, TypeOK
<1>2. CASE Acquire(w, r)
  <2> DEFINE l == [IdleWorker EXCEPT !.pc = "audit", !.r = r, !.todo = loop[w].todo \ {r}]
  <2>1. loop' = [loop EXCEPT ![w] = l]
    BY <1>2 DEF Acquire
  <2>2. l \in Worker /\ l.pc = "audit" /\ l.r = r
    BY <1>1, Idle DEF Worker, Pc
  <2> HIDE DEF l
  <2>3. Holds(l, stale'[w])
    BY <2>2 DEF Holds, Going, Held
  <2>4. lease' = r /\ UNCHANGED <<row, attempts, committed, windowM, receipts, gate, removed,
                                  stale, ghosts>>
    BY <1>2 DEF Acquire
  <2>5. QED BY <2>1, <2>2, <2>3, <2>4, Quiet DEF ghosts, Inv, TypeOK, ReceiptMeansCommitted
<1>3. CASE Queued(w, r)
  <2> DEFINE l == [loop[w] EXCEPT !.todo = @ \ {r}]
  <2>1. loop' = [loop EXCEPT ![w] = l]
    BY <1>3 DEF Queued
  <2>2. l \in Worker /\ l.pc = "next"
    BY <1>1, <1>3 DEF Queued, Worker
  <2> HIDE DEF l
  <2>3. Holds(l, stale'[w])
    BY <2>2 DEF Holds, Going, Held
  <2>4. QED BY <1>3, <2>1, <2>2, <2>3, GoesOn DEF Queued, ghosts, Inv, TypeOK
<1>4. QED BY <1>2, <1>3

(* The tick is over: the lease is given back.                               *)
LEMMA ReleaseStep ==
  ASSUME Inv, NEW w \in Workers, Release(w), UNCHANGED <<up, crashes>>
  PROVE  Inv'
<1> DEFINE l == [IdleWorker EXCEPT !.pc = "next", !.todo = loop[w].todo]
<1>1. loop' = [loop EXCEPT ![w] = l] /\ stale' = [stale EXCEPT ![w] = {}]
  BY DEF Release
<1>2. l \in Worker /\ l.pc = "next"
  BY Idle DEF Worker, Pc, Inv, TypeOK
<1> HIDE DEF l
<1>3. Holds(l, stale'[w])
  BY <1>2 DEF Holds, Going, Held
<1>4. /\ UNCHANGED <<row, attempts, committed, windowM, receipts, gate, removed, ghosts>>
      /\ lease' \in Researches \cup {None}
  BY DEF Release, Inv, TypeOK
<1>5. /\ stale' \in [Workers -> SUBSET Column]
      /\ \A v \in Workers \ {w} : stale[v] \subseteq stale'[v]
  BY <1>1 DEF Inv, TypeOK
<1>6. QED BY <1>1, <1>2, <1>3, <1>4, <1>5, Quiet DEF ghosts, Inv, TypeOK, ReceiptMeansCommitted

(* The audit before a tick closes the gate or not.                          *)
LEMMA AuditStep ==
  ASSUME Inv, NEW w \in Workers, Audit(w), UNCHANGED <<up, crashes>>
  PROVE  Inv'
<1> DEFINE l == [loop[w] EXCEPT !.pc = "load"]
<1>1. loop' = [loop EXCEPT ![w] = l]
  BY DEF Audit, Goto
<1>2. l \in Worker /\ l.pc = "load" /\ l.r = loop[w].r
  <2>1. loop[w] \in Worker /\ "load" \in Pc
    BY DEF Inv, TypeOK, Pc
  <2>2. QED BY <2>1, Moved
<1> HIDE DEF l
<1>3. Holds(l, stale'[w])
  BY <1>2 DEF Holds, Going, Held, Audit, Inv, WorkersHold
<1>4. /\ UNCHANGED <<row, attempts, committed, windowM, receipts, lease, removed, stale, ghosts>>
      /\ gate' \in {"open", "duplicate_m", "lost_committed_receipt"}
  BY DEF Audit, Audited, Inv, TypeOK
<1>5. QED BY <1>1, <1>2, <1>3, <1>4, Quiet DEF ghosts, Inv, TypeOK, ReceiptMeansCommitted

(* The row is loaded, or the research is gone.                              *)
LEMMA LoadStep ==
  ASSUME Inv, NEW w \in Workers, Load(w), UNCHANGED <<up, crashes>>
  PROVE  Inv'
<1>1. /\ loop[w] \in Worker /\ loop[w].pc = "load" /\ loop[w].r \in Researches
      /\ row[loop[w].r] \in Row
  BY DEF Load, Inv, TypeOK, WorkersHold, Holds
<1>2. CASE Gone(w)
  <2> DEFINE l == [loop[w] EXCEPT !.pc = "release"]
  <2>1. loop' = [loop EXCEPT ![w] = l] /\ UNCHANGED <<receipts, stale>>
    BY <1>2 DEF Load, Goto
  <2>2. l \in Worker /\ l.pc = "release" /\ l.r = loop[w].r
    BY <1>1, Moved DEF Pc
  <2> HIDE DEF l
  <2>3. Holds(l, stale'[w])
    BY <1>1, <2>2 DEF Holds, Going, Held
  <2>4. QED BY <2>1, <2>2, <2>3, GoesOn DEF Load, tables, ghosts, Inv, TypeOK
<1>3. CASE ~Gone(w)
  <2> DEFINE l == [loop[w] EXCEPT !.pc = "enter", !.snap = row[loop[w].r]]
  <2>1. /\ loop' = [loop EXCEPT ![w] = l] /\ stale' = [stale EXCEPT ![w] = {}]
        /\ receipts' = receipts \cup RoundsOf(loop[w].r)
    BY <1>3 DEF Load, Backfilled
  <2>2. l \in Worker /\ l.pc = "enter" /\ l.r = loop[w].r /\ l.snap = row[loop[w].r]
    BY <1>1 DEF Worker, Pc
  <2> HIDE DEF l
  <2>3. Holds(l, stale'[w])
    BY <1>1, <2>2 DEF Holds, Going, Held, Inv, VersionsOpen
  <2>4. receipts' \subseteq history
    BY <2>1 DEF RoundsOf, Inv, ReceiptMeansCommitted, HistoryInv
  <2>5. /\ stale' \in [Workers -> SUBSET Column]
        /\ \A v \in Workers \ {w} : stale[v] \subseteq stale'[v]
    BY <2>1 DEF Inv, TypeOK
  <2>6. UNCHANGED <<row, attempts, committed, windowM, lease, gate, removed, ghosts>>
    BY DEF Load
  <2>7. QED BY <2>1, <2>2, <2>3, <2>4, <2>5, <2>6, Quiet DEF ghosts, Inv, TypeOK
<1>4. QED BY <1>2, <1>3

(* A worker goes on, alone in it: no column is touched.                     *)
LEMMA JustGoes ==
  ASSUME Inv, NEW w \in Workers, NEW pc \in Pc, Goto(w, pc), loop[w].r \in Researches,
         pc \in {"release", "fail"} \/ (pc = "settle" /\ loop[w].pc = "decide"),
         stale' \in [Workers -> SUBSET Column],
         \A v \in Workers : stale[v] \subseteq stale'[v],
         UNCHANGED <<tables, removed, history, up, crashes>>,
         tried' \subseteq Researches
  PROVE  Inv'
<1> DEFINE l == [loop[w] EXCEPT !.pc = pc]
<1>1. loop' = [loop EXCEPT ![w] = l]
  BY DEF Goto
<1>2. l \in Worker /\ l.pc = pc /\ l.r = loop[w].r /\ l.snap = loop[w].snap
  BY Moved DEF Inv, TypeOK
<1>3. Holds(loop[w], stale[w]) /\ stale[w] \subseteq stale'[w]
  BY DEF Inv, WorkersHold
<1> HIDE DEF l
<1>4. Holds(l, stale'[w])
  BY <1>2, <1>3 DEF Holds, Going, Held
<1>5. QED BY <1>1, <1>2, <1>4, GoesOn

(* A worker writes the row it has loaded, and its tick is over: a deleted   *)
(* research stays deleted, and no version or round changes.                 *)
LEMMA Saves ==
  ASSUME Inv, NEW w \in Workers, NEW new \in Row, loop[w].r \in Researches,
         SaveFits(w), Saved(w, new), Goto(w, "release"),
         new.ver = row[loop[w].r].ver, new.rounds = row[loop[w].r].rounds,
         new.ver = 0 <=> new.st \in {"none", "draft"},
         UNCHANGED <<attempts, committed, windowM, receipts, lease, gate, removed, history,
                     up, crashes, tried>>
  PROVE  Inv'
<1> USE DEF Inv
<1> DEFINE l == [loop[w] EXCEPT !.pc = "release"]
<1>1. loop' = [loop EXCEPT ![w] = l]
  BY DEF Goto
<1>2. l \in Worker /\ l.pc = "release" /\ l.r = loop[w].r
  <2>1. loop[w] \in Worker /\ "release" \in Pc
    BY DEF TypeOK, Pc
  <2>2. QED BY <2>1, Moved
<1> HIDE DEF l
<1>3. /\ row' \in [Researches -> Row] /\ row'[loop[w].r] = new
      /\ \A q \in Researches : q # loop[w].r => row'[q] = row[q]
  BY DEF Saved, TypeOK
<1>4. \A q \in Researches : /\ row'[q].ver = row[q].ver /\ row'[q].rounds = row[q].rounds
                            /\ Live(q)' => Live(q)
                            /\ row'[q].ver = 0 <=> row'[q].st \in {"none", "draft"}
  BY <1>3 DEF SaveFits, Live, VersionsOpen
<1>5. /\ stale' \in [Workers -> SUBSET Column]
      /\ \A v \in Workers : /\ stale[v] \subseteq stale'[v]
                            /\ v # w /\ loop[v].r = loop[w].r => "updated_at" \in stale'[v]
  BY Touched DEF Saved, Others, Column
<1>6. loop' \in [Workers -> Worker] /\ loop'[w] = l
      /\ \A v \in Workers : v # w => loop'[v] = loop[v]
  BY <1>1, <1>2 DEF TypeOK
<1>7. TypeOK'
  BY <1>3, <1>5, <1>6 DEF TypeOK
<1>8. ASSUME NEW v \in Workers PROVE Holds(loop[v], stale[v])'
  <2>1. CASE v = w
    BY <1>2, <1>6, <2>1 DEF Holds, Going, Held
  <2>2. CASE v # w
    <3>1. row'[loop[v].r] = row[loop[v].r] \/ "updated_at" \in stale'[v]
      BY <1>5, <2>2 DEF Saved
    <3>2. QED BY <1>5, <1>6, <2>2, <3>1, OthersHold
  <2>3. QED BY <2>1, <2>2
<1>9. RoundsAgree'
  <2>1. ASSUME NEW q \in Researches, Live(q)'
        PROVE  {x.round : x \in {y \in RoundsOf(q) : y.ver = row'[q].ver}} = 1..row'[q].rounds
    BY <1>4, <2>1 DEF RoundsAgree
  <2>2. QED BY <2>1 DEF RoundsAgree, RoundsOf
<1>10. HistoryInv'
  <2>1. \A x \in history : x.r \in Researches
    BY DEF TypeOK, RoundId
  <2>2. \A x \in history : Live(x.r)' => Live(x.r)
    BY <1>4, <2>1
  <2>3. \A x \in committed : x.ver <= row'[x.r].ver
    BY <1>4, <2>1 DEF HistoryInv
  <2>4. QED BY <2>2, <2>3 DEF HistoryInv
<1>11. VersionsOpen' /\ MCountsRounds' /\ ReceiptMeansCommitted'
  BY <1>4 DEF VersionsOpen, MCountsRounds, ReceiptMeansCommitted
<1>12. QED BY <1>7, <1>8, <1>9, <1>10, <1>11 DEF WorkersHold

(* Such a write, or the failure to do it.                                   *)
LEMMA SaveOrFailStep ==
  ASSUME Inv, NEW w \in Workers, NEW new, loop[w].r \in Researches, SaveOrFail(w, new),
         SaveFits(w) => /\ new \in Row /\ new.ver = row[loop[w].r].ver
                        /\ new.rounds = row[loop[w].r].rounds
                        /\ new.ver = 0 <=> new.st \in {"none", "draft"},
         UNCHANGED <<attempts, committed, windowM, receipts, lease, gate, removed, ghosts,
                     up, crashes>>
  PROVE  Inv'
<1>1. CASE SaveFits(w)
  <2>1. Saved(w, new) /\ Goto(w, "release")
    BY <1>1 DEF SaveOrFail
  <2>2. QED BY <1>1, <2>1, Saves DEF ghosts
<1>2. CASE ~SaveFits(w)
  <2>1. UNCHANGED <<row, stale>>
    BY <1>2 DEF SaveOrFail
  <2>2. PICK pc \in {"release", "fail"} : Goto(w, pc)
    BY <1>2 DEF SaveOrFail
  <2>3. pc \in Pc
    BY DEF Pc
  <2>4. QED BY <2>1, <2>2, <2>3, JustGoes DEF tables, ghosts, Inv, TypeOK
<1>3. QED BY <1>1, <1>2

(* A paused row is one.                                                     *)
LEMMA PausedIs ==
  ASSUME NEW x \in Row
  PROVE  LET y == [x EXCEPT !.st = "paused", !.errs = 0]
         IN  y \in Row /\ y.ver = x.ver /\ y.rounds = x.rounds /\ y.st = "paused"
<1> DEFINE y == [x EXCEPT !.st = "paused", !.errs = 0]
<1>1. 0 \in 0..MaxErrors /\ "paused" \in Status
  BY LoopAssumption DEF Status
<1>2. y \in Row /\ y.ver = x.ver /\ y.rounds = x.rounds /\ y.st = "paused"
  BY <1>1 DEF Row
<1>3. QED BY <1>2

(* A tick goes on with a running research whose secrets are there.          *)
LEMMA EnterStep ==
  ASSUME Inv, NEW w \in Workers, Enter(w), UNCHANGED <<up, crashes>>
  PROVE  Inv'
<1>1. /\ loop[w] \in Worker /\ loop[w].pc = "enter" /\ loop[w].r \in Researches
      /\ loop[w].snap \in Row /\ row[loop[w].r] \in Row
      /\ "updated_at" \notin stale[w] => row[loop[w].r] = loop[w].snap
      /\ row[loop[w].r].ver = 0 <=> row[loop[w].r].st \in {"none", "draft"}
      /\ loop[w].snap.ver = 0 <=> loop[w].snap.st \in {"none", "draft"}
  BY DEF Enter, Inv, TypeOK, WorkersHold, Holds, Held, Worker, VersionsOpen
<1>2. UNCHANGED <<attempts, committed, windowM, receipts, lease, gate, removed, ghosts>>
  BY DEF Enter
<1>3. CASE SaveOrFail(w, row[loop[w].r])
  BY <1>1, <1>2, <1>3, SaveOrFailStep
<1>4. CASE Goto(w, "release") /\ UNCHANGED <<row, stale>>
  <2>1. "release" \in Pc
    BY DEF Pc
  <2>2. QED BY <1>1, <1>2, <1>4, <2>1, JustGoes DEF tables, ghosts, Inv, TypeOK
<1>5. CASE loop[w].snap.st = "running"
           /\ SaveOrFail(w, [loop[w].snap EXCEPT !.st = "paused", !.errs = 0])
  <2> DEFINE new == [loop[w].snap EXCEPT !.st = "paused", !.errs = 0]
  <2>1. /\ new \in Row /\ new.ver = loop[w].snap.ver /\ new.rounds = loop[w].snap.rounds
        /\ new.st = "paused"
    BY <1>1, PausedIs
  <2>2. SaveOrFail(w, new)
    BY <1>5
  <2> HIDE DEF new
  <2>3. SaveFits(w) => /\ new \in Row /\ new.ver = row[loop[w].r].ver
                       /\ new.rounds = row[loop[w].r].rounds
                       /\ new.ver = 0 <=> new.st \in {"none", "draft"}
    BY <1>1, <1>5, <2>1 DEF SaveFits
  <2>4. QED BY <1>1, <1>2, <2>2, <2>3, SaveOrFailStep
<1>6. CASE /\ loop[w].snap.st = "running" /\ Goto(w, "decide") /\ UNCHANGED row
           /\ stale' = [stale EXCEPT ![w] = @ \ {"revision"}]
  <2> DEFINE l == [loop[w] EXCEPT !.pc = "decide"]
  <2>1. loop' = [loop EXCEPT ![w] = l]
    BY <1>6 DEF Goto
  <2>2. l \in Worker /\ l.pc = "decide" /\ l.r = loop[w].r /\ l.snap = loop[w].snap
    <3>1. "decide" \in Pc
      BY DEF Pc
    <3>2. QED BY <1>1, <3>1, Moved
  <2> HIDE DEF l
  <2>3. /\ stale' \in [Workers -> SUBSET Column]
        /\ \A v \in Workers \ {w} : stale[v] \subseteq stale'[v]
        /\ "updated_at" \in stale[w] => "updated_at" \in stale'[w]
    BY <1>6 DEF Inv, TypeOK
  <2>4. Holds(l, stale'[w])
    BY <1>1, <1>6, <2>2, <2>3 DEF Holds, Going, Held
  <2>5. QED BY <1>2, <1>6, <2>1, <2>2, <2>3, <2>4, GoesOn DEF tables, ghosts, Inv, TypeOK
<1>7. QED BY <1>3, <1>4, <1>5, <1>6 DEF Enter

-----------------------------------------------------------------------------
(* The round                                                               *)

(* A worker goes on with its round, with the row as it loaded it.           *)
LEMMA GoesOnWith ==
  ASSUME Inv, NEW w \in Workers, NEW l \in Worker, loop' = [loop EXCEPT ![w] = l],
         l.r = loop[w].r, l.snap = loop[w].snap,
         l.pc \in Going \ {"receipt"}, loop[w].pc \in Going \ {"receipt"},
         l.pc \in {"build", "review"} => l.n >= 1,
         l.pc = "finish" => l.out.st \notin {"none", "draft"},
         stale' \in [Workers -> SUBSET Column],
         \A v \in Workers : stale[v] \subseteq stale'[v],
         UNCHANGED <<tables, removed, history, up, crashes>>,
         tried' \subseteq Researches
  PROVE  Inv'
<1>1. Holds(loop[w], stale[w]) /\ stale[w] \subseteq stale'[w]
  BY DEF Inv, WorkersHold
<1>2. Holds(l, stale'[w])
  BY <1>1 DEF Holds, Going, Held
<1>3. QED BY <1>2, GoesOn

(* The action of a tick reaches the row, or is there.                       *)
LEMMA Emits ==
  ASSUME Inv, NEW w \in Workers, Emit(w) \/ UNCHANGED stale
  PROVE  /\ stale' \in [Workers -> SUBSET Column]
         /\ \A v \in Workers : stale[v] \subseteq stale'[v]
         /\ stale'[w] = stale[w]
<1>1. CASE UNCHANGED stale
  BY <1>1 DEF Inv, TypeOK
<1>2. CASE Emit(w)
  <2>1. {"updated_at"} \in SUBSET Column /\ Others(w) \in SUBSET Workers
    BY DEF Column, Others
  <2>2. Touch(loop[w].r, Others(w), {"updated_at"})
    BY <1>2 DEF Emit
  <2>3. TypeOK
    BY DEF Inv
  <2>4. w \notin Others(w)
    BY DEF Others
  <2>5. QED BY <2>1, <2>2, <2>3, <2>4, Touched
<1>3. QED BY <1>1, <1>2

(* Where a worker is that goes on.                                          *)
LEMMA Locals ==
  ASSUME Inv, NEW w \in Workers, loop[w].pc \notin {"idle", "next"}
  PROVE  loop[w] \in Worker /\ loop[w].r \in Researches /\ loop[w].snap \in Row
         /\ loop[w].n \in 0..MaxFailures /\ row[loop[w].r] \in Row
  BY DEF Inv, TypeOK, WorkersHold, Holds, Worker

(* An attempt that has passed is recovered.                                 *)
LEMMA RecoverStep ==
  ASSUME Inv, NEW w \in Workers, Recover(w), UNCHANGED <<up, crashes>>
  PROVE  Inv'
<1>1. loop[w].pc = "decide" /\ Goto(w, "settle") /\ UNCHANGED <<tables, removed, stale, ghosts>>
  BY DEF Recover
<1>2. loop[w].r \in Researches /\ "settle" \in Pc
  BY <1>1, Locals DEF Pc
<1>3. QED BY <1>1, <1>2, JustGoes DEF ghosts, Inv, TypeOK

(* A round with too many failures is given up.                              *)
LEMMA GiveUpStep ==
  ASSUME Inv, NEW w \in Workers, GiveUp(w), UNCHANGED <<up, crashes>>
  PROVE  Inv'
<1>1. loop[w] \in Worker /\ loop[w].pc = "decide"
  BY Locals DEF GiveUp
<1>2. PICK s \in {"paused", "ended"} :
         loop' = [loop EXCEPT ![w].pc = "finish",
                              ![w].out = [st |-> s, round |-> FALSE, exhausted |-> s = "paused"]]
  BY DEF GiveUp
<1>3. PICK b \in BOOLEAN : b = (s = "paused")
  BY Zenon
<1> DEFINE out == [st |-> s, round |-> FALSE, exhausted |-> b]
           l == [loop[w] EXCEPT !.pc = "finish", !.out = out]
<1>4. out \in Outcome
  BY DEF Outcome, Status
<1>5. loop' = [loop EXCEPT ![w] = l]
  BY <1>2, <1>3, Zenon
<1> HIDE DEF out
<1>6. /\ l \in Worker /\ l.pc = "finish" /\ l.r = loop[w].r /\ l.snap = loop[w].snap
      /\ l.out.st \notin {"none", "draft"}
  BY <1>1, <1>4 DEF out, Worker, Pc
<1> HIDE DEF l
<1>7. UNCHANGED <<tables, removed, stale, ghosts>>
  BY DEF GiveUp
<1>8. QED BY <1>1, <1>5, <1>6, <1>7, GoesOnWith DEF ghosts, Going, Inv, TypeOK

(* The next attempt is gathered for, and numbered.                          *)
LEMMA GatherStep ==
  ASSUME Inv, NEW w \in Workers, Gather(w), UNCHANGED <<up, crashes>>
  PROVE  Inv'
<1>1. loop[w] \in Worker /\ loop[w].pc = "decide"
  BY Locals DEF Gather
<1>2. NextAttempt(w) \in 0..MaxFailures /\ NextAttempt(w) >= 1
  <2>1. FailuresAt(ThisRound(w)) \in Nat
    BY AttemptsCounted
  <2>2. QED BY <2>1, LoopAssumption DEF Gather, Exhausted, NextAttempt
<1> DEFINE l == [loop[w] EXCEPT !.pc = "build", !.n = NextAttempt(w)]
<1>3. loop' = [loop EXCEPT ![w] = l]
  BY DEF Gather
<1>4. l \in Worker /\ l.pc = "build" /\ l.r = loop[w].r /\ l.snap = loop[w].snap /\ l.n >= 1
  BY <1>1, <1>2 DEF Worker, Pc
<1> HIDE DEF l
<1>5. Emit(w) \/ UNCHANGED stale
  BY DEF Gather
<1>6. QED BY <1>1, <1>3, <1>4, <1>5, Emits, GoesOnWith DEF Gather, ghosts, Going, Inv, TypeOK

(* An attempt is built.                                                     *)
LEMMA BuildStep ==
  ASSUME Inv, NEW w \in Workers, Build(w), UNCHANGED <<up, crashes>>
  PROVE  Inv'
<1>1. loop[w] \in Worker /\ loop[w].pc = "build" /\ loop[w].r \in Researches /\ "review" \in Pc
  BY Locals DEF Build, Pc
<1> DEFINE l == [loop[w] EXCEPT !.pc = "review"]
<1>2. loop' = [loop EXCEPT ![w] = l]
  BY DEF Build, Goto
<1>3. /\ l \in Worker /\ l.pc = "review" /\ l.r = loop[w].r /\ l.snap = loop[w].snap
      /\ l.n = loop[w].n
  BY <1>1, Moved
<1> HIDE DEF l
<1>4. l.n >= 1
  BY <1>1, <1>3 DEF Inv, WorkersHold, Holds
<1>5. /\ stale' \in [Workers -> SUBSET Column]
      /\ \A v \in Workers : stale[v] \subseteq stale'[v]
  BY Emits DEF Build
<1>6. tried' \subseteq Researches /\ UNCHANGED <<tables, removed, history>>
  BY <1>1 DEF Build, Inv, TypeOK
<1>7. QED BY <1>1, <1>2, <1>3, <1>4, <1>5, <1>6, GoesOnWith DEF Going

(* The planner stops the search.                                            *)
LEMMA StopStep ==
  ASSUME Inv, NEW w \in Workers, Stop(w), UNCHANGED <<up, crashes>>
  PROVE  Inv'
<1>1. loop[w] \in Worker /\ loop[w].pc = "build" /\ loop[w].r \in Researches
  BY Locals DEF Stop
<1>2. PICK s \in {"paused", "ended", "completed", "awaiting"} :
         loop' = [loop EXCEPT ![w].pc = "finish", ![w].out = [NoOutcome EXCEPT !.st = s]]
  BY DEF Stop
<1> DEFINE out == [NoOutcome EXCEPT !.st = s]
           l == [loop[w] EXCEPT !.pc = "finish", !.out = out]
<1>3. out \in Outcome
  BY DEF NoOutcome, Outcome, Status
<1>4. loop' = [loop EXCEPT ![w] = l]
  BY <1>2
<1> HIDE DEF out
<1>5. /\ l \in Worker /\ l.pc = "finish" /\ l.r = loop[w].r /\ l.snap = loop[w].snap
      /\ l.out.st \notin {"none", "draft"}
  BY <1>1, <1>3 DEF out, NoOutcome, Worker, Pc
<1> HIDE DEF l
<1>6. tried' \subseteq Researches /\ UNCHANGED <<tables, removed, stale, history>>
  BY <1>1 DEF Stop, Inv, TypeOK
<1>7. QED BY <1>1, <1>4, <1>5, <1>6, GoesOnWith DEF Going, Inv, TypeOK

(* The tick raises, or finds its research removed.                          *)
LEMMA RaiseStep ==
  ASSUME Inv, NEW w \in Workers, Raise(w) \/ Abort(w), UNCHANGED <<up, crashes>>
  PROVE  Inv'
<1>1. /\ loop[w].pc \in {"decide", "build", "settle", "finish"}
      /\ \E pc \in {"fail", "release"} : Goto(w, pc)
      /\ UNCHANGED <<tables, removed, stale, history>>
      /\ tried' \subseteq tried \cup {loop[w].r}
  BY DEF Raise, Abort, ghosts
<1>2. loop[w].r \in Researches /\ {"fail", "release"} \subseteq Pc
  BY <1>1, Locals DEF Pc
<1>3. tried' \subseteq Researches
  BY <1>1, <1>2 DEF Inv, TypeOK
<1>4. QED BY <1>1, <1>2, <1>3, JustGoes DEF Inv, TypeOK

(* What an attempt adds to the table.                                       *)
LEMMA ReviewedIs ==
  ASSUME Inv, NEW w \in Workers, loop[w].pc = "review", NEW passed \in BOOLEAN
  PROVE  Reviewed(w, passed) \subseteq Attempt /\ IsFiniteSet(Reviewed(w, passed))
<1>1. ThisRound(w) \in RoundId /\ loop[w].n \in 1..MaxFailures
  <2>1. loop[w] \in Worker /\ Holds(loop[w], stale[w]) /\ loop[w].n \in 0..MaxFailures
    BY Locals DEF Inv, WorkersHold
  <2>2. ThisRound(w) = RoundFor(loop[w])
    BY DEF ThisRound, RoundFor
  <2>3. QED BY <2>1, <2>2, RoundsAre, LoopAssumption DEF Holds, Going
<1> DEFINE a == [r |-> ThisRound(w).r, ver |-> ThisRound(w).ver, round |-> ThisRound(w).round,
                 n |-> loop[w].n, passed |-> passed]
<1>2. a \in Attempt
  BY <1>1 DEF Attempt, RoundId
<1>3. Reviewed(w, passed) \in {attempts, attempts \cup {a}}
  BY DEF Reviewed
<1> HIDE DEF a
<1>4. attempts \subseteq Attempt /\ IsFiniteSet(attempts)
  BY DEF Inv, TypeOK
<1>5. QED BY <1>2, <1>3, <1>4, FS_AddElement

(* An attempt is judged: the round goes on, is tried again, or is left.     *)
LEMMA ReviewStep ==
  ASSUME Inv, NEW w \in Workers, Review(w), UNCHANGED <<up, crashes>>
  PROVE  Inv'
<1>1. /\ loop[w] \in Worker /\ loop[w].pc = "review" /\ loop[w].n \in 0..MaxFailures
      /\ loop[w].r \in Researches
  BY Locals DEF Review
<1>2. PICK passed \in BOOLEAN :
         /\ attempts' = Reviewed(w, passed)
         /\ \/ passed /\ Goto(w, "settle")
            \/ /\ ~passed /\ loop[w].n < MaxFailures
               /\ loop' = [loop EXCEPT ![w].pc = "build", ![w].n = @ + 1]
            \/ /\ ~passed /\ loop[w].n = MaxFailures
               /\ \E s \in {"running", "awaiting"} :
                     loop' = [loop EXCEPT ![w].pc = "finish",
                                          ![w].out = [NoOutcome EXCEPT !.st = s]]
  BY DEF Review
<1>3. \E l \in Worker : /\ loop' = [loop EXCEPT ![w] = l]
                        /\ l.pc \in {"settle", "build", "finish"}
                        /\ l.r = loop[w].r /\ l.snap = loop[w].snap
                        /\ l.pc = "build" => l.n >= 1
                        /\ l.pc = "finish" => l.out.st \notin {"none", "draft"}
  <2>1. CASE Goto(w, "settle")
    <3>1. "settle" \in Pc
      BY DEF Pc
    <3>2. QED BY <1>1, <2>1, <3>1, Moved DEF Goto
  <2>2. CASE loop[w].n < MaxFailures /\ loop' = [loop EXCEPT ![w].pc = "build", ![w].n = @ + 1]
    <3> DEFINE l == [loop[w] EXCEPT !.pc = "build", !.n = @ + 1]
    <3>1. loop[w].n + 1 \in 0..MaxFailures /\ loop[w].n + 1 >= 1
      BY <1>1, <2>2, LoopAssumption
    <3>2. /\ l \in Worker /\ l.pc = "build" /\ l.r = loop[w].r /\ l.snap = loop[w].snap
          /\ l.n >= 1
      BY <1>1, <3>1 DEF Worker, Pc
    <3>3. loop' = [loop EXCEPT ![w] = l]
      BY <2>2
    <3>4. QED BY <3>2, <3>3
  <2>3. ASSUME NEW s \in {"running", "awaiting"},
               loop' = [loop EXCEPT ![w].pc = "finish", ![w].out = [NoOutcome EXCEPT !.st = s]]
        PROVE  <1>3
    <3> DEFINE out == [NoOutcome EXCEPT !.st = s]
               l == [loop[w] EXCEPT !.pc = "finish", !.out = out]
    <3>1. out \in Outcome /\ out.st = s
      BY DEF NoOutcome, Outcome, Status
    <3>2. loop' = [loop EXCEPT ![w] = l]
      BY <2>3
    <3> HIDE DEF out
    <3>3. /\ l \in Worker /\ l.pc = "finish" /\ l.r = loop[w].r /\ l.snap = loop[w].snap
          /\ l.out.st \notin {"none", "draft"}
      BY <1>1, <3>1 DEF Worker, Pc
    <3>4. QED BY <3>2, <3>3
  <2>4. QED BY <1>2, <2>1, <2>2, <2>3
<1>4. PICK l \in Worker : /\ loop' = [loop EXCEPT ![w] = l]
                          /\ l.pc \in {"settle", "build", "finish"}
                          /\ l.r = loop[w].r /\ l.snap = loop[w].snap
                          /\ l.pc = "build" => l.n >= 1
                          /\ l.pc = "finish" => l.out.st \notin {"none", "draft"}
  BY <1>3
<1>5. Holds(l, stale[w])
  BY <1>1, <1>4 DEF Holds, Going, Held, Inv, WorkersHold
<1>6. attempts' \subseteq Attempt /\ IsFiniteSet(attempts')
  BY <1>1, <1>2, ReviewedIs
<1>7. UNCHANGED <<row, committed, windowM, receipts, lease, gate, removed, stale, ghosts>>
  BY DEF Review
<1>8. QED BY <1>4, <1>5, <1>6, <1>7, Quiet DEF ghosts, Inv, TypeOK, ReceiptMeansCommitted

(* The verdict of an accepted round.                                        *)
LEMMA SettleStep ==
  ASSUME Inv, NEW w \in Workers, Settle(w), UNCHANGED <<up, crashes>>
  PROVE  Inv'
<1>1. loop[w] \in Worker /\ loop[w].pc = "settle"
  BY Locals DEF Settle
<1>2. PICK s \in {"awaiting", "completed", "ended", "running"} :
         /\ Emit(w) \/ UNCHANGED stale
         /\ loop' = [loop EXCEPT ![w].pc = "finish",
                                 ![w].out = [st |-> s, round |-> TRUE, exhausted |-> FALSE]]
  BY DEF Settle
<1> DEFINE out == [st |-> s, round |-> TRUE, exhausted |-> FALSE]
           l == [loop[w] EXCEPT !.pc = "finish", !.out = out]
<1>3. out \in Outcome
  BY DEF Outcome, Status
<1>4. loop' = [loop EXCEPT ![w] = l]
  BY <1>2
<1> HIDE DEF out
<1>5. /\ l \in Worker /\ l.pc = "finish" /\ l.r = loop[w].r /\ l.snap = loop[w].snap
      /\ l.out.st \notin {"none", "draft"}
  BY <1>1, <1>3 DEF out, NoOutcome, Worker, Pc
<1> HIDE DEF l
<1>6. /\ stale' \in [Workers -> SUBSET Column]
      /\ \A v \in Workers : stale[v] \subseteq stale'[v]
  BY <1>2, Emits
<1>7. UNCHANGED <<tables, removed, ghosts>>
  BY DEF Settle
<1>8. QED BY <1>1, <1>4, <1>5, <1>6, <1>7, GoesOnWith DEF ghosts, Going, Inv, TypeOK

-----------------------------------------------------------------------------
(* The round commit, and failures                                          *)

(* A round that was committed before gets its receipt.                      *)
LEMMA ReplayStep ==
  ASSUME Inv, NEW w \in Workers, Replay(w), UNCHANGED <<up, crashes>>
  PROVE  Inv'
<1> DEFINE l == [loop[w] EXCEPT !.pc = "release"]
<1>1. loop' = [loop EXCEPT ![w] = l]
  BY DEF Replay, Goto
<1>2. l \in Worker /\ l.pc = "release" /\ l.r \in Researches
  <2>1. loop[w] \in Worker /\ loop[w].r \in Researches /\ "release" \in Pc
    BY Locals DEF Replay, Pc
  <2>2. QED BY <2>1, Moved
<1> HIDE DEF l
<1>3. Holds(l, stale'[w])
  BY <1>2 DEF Holds, Going, Held
<1>4. receipts' \subseteq history
  BY DEF Replay, RoundsOf, Inv, ReceiptMeansCommitted, HistoryInv
<1>5. UNCHANGED <<row, attempts, committed, windowM, lease, gate, removed, stale, ghosts>>
  BY DEF Replay
<1>6. QED BY <1>1, <1>2, <1>3, <1>4, <1>5, Quiet DEF ghosts, Inv, TypeOK

(* A commit that is refused leaves everything.                              *)
LEMMA ConflictStep ==
  ASSUME Inv, NEW w \in Workers, Conflict(w), UNCHANGED <<up, crashes>>
  PROVE  Inv'
<1>1. loop[w].pc = "finish" /\ Goto(w, "release") /\ UNCHANGED <<tables, removed, stale, ghosts>>
  BY DEF Conflict
<1>2. loop[w].r \in Researches /\ "release" \in Pc
  BY <1>1, Locals DEF Pc
<1>3. QED BY <1>1, <1>2, JustGoes DEF ghosts, Inv, TypeOK

(* A busy database pauses the research as it was loaded.                    *)
LEMMA BusyStep ==
  ASSUME Inv, NEW w \in Workers, Busy(w), UNCHANGED <<up, crashes>>
  PROVE  Inv'
<1> DEFINE new == [loop[w].snap EXCEPT !.st = "paused", !.errs = 0]
<1>1. loop[w].r \in Researches /\ loop[w].snap \in Row /\ loop[w].pc = "finish"
  BY Locals DEF Busy
<1>2. /\ new \in Row /\ new.ver = loop[w].snap.ver /\ new.rounds = loop[w].snap.rounds
      /\ new.st = "paused"
  BY <1>1, PausedIs
<1>3. /\ SaveOrFail(w, new)
      /\ UNCHANGED <<attempts, committed, windowM, receipts, lease, gate, removed, ghosts>>
  BY DEF Busy
<1>4. /\ loop[w].snap.st = "running"
      /\ loop[w].snap.ver = 0 <=> loop[w].snap.st \in {"none", "draft"}
      /\ "updated_at" \notin stale[w] => row[loop[w].r] = loop[w].snap
  BY <1>1 DEF Inv, WorkersHold, Holds, Held, Going
<1> HIDE DEF new
<1>5. SaveFits(w) => /\ new \in Row /\ new.ver = row[loop[w].r].ver
                     /\ new.rounds = row[loop[w].r].rounds
                     /\ new.ver = 0 <=> new.st \in {"none", "draft"}
  BY <1>1, <1>2, <1>4 DEF SaveFits
<1>6. QED BY <1>1, <1>3, <1>5, SaveOrFailStep

(* A receipt is written for a round that was committed.                     *)
LEMMA WriteReceiptStep ==
  ASSUME Inv, NEW w \in Workers, WriteReceipt(w), UNCHANGED <<up, crashes>>
  PROVE  Inv'
<1> DEFINE l == [loop[w] EXCEPT !.pc = "release"]
<1>1. loop' = [loop EXCEPT ![w] = l]
  BY DEF WriteReceipt, Goto
<1>2. l \in Worker /\ l.pc = "release" /\ l.r \in Researches
  <2>1. loop[w] \in Worker /\ loop[w].r \in Researches /\ "release" \in Pc
    BY Locals DEF WriteReceipt, Pc
  <2>2. QED BY <2>1, Moved
<1> HIDE DEF l
<1>3. Holds(l, stale'[w])
  BY <1>2 DEF Holds, Going, Held
<1>4. receipts' \subseteq history
  BY DEF WriteReceipt, ThisRound, RoundFor, Inv, ReceiptMeansCommitted, WorkersHold, Holds
<1>5. UNCHANGED <<row, attempts, committed, windowM, lease, gate, removed, stale, ghosts>>
  BY DEF WriteReceipt
<1>6. QED BY <1>1, <1>2, <1>3, <1>4, <1>5, Quiet DEF ghosts, Inv, TypeOK

(* A tick that raised loads the row again.                                  *)
LEMMA FailLoadStep ==
  ASSUME Inv, NEW w \in Workers, FailLoad(w), UNCHANGED <<up, crashes>>
  PROVE  Inv'
<1>1. loop[w] \in Worker /\ loop[w].r \in Researches /\ row[loop[w].r] \in Row
  BY Locals DEF FailLoad
<1>2. UNCHANGED <<tables, removed, ghosts>>
  BY DEF FailLoad
<1>3. CASE Live(loop[w].r)
  <2> DEFINE l == [loop[w] EXCEPT !.pc = "fail_save", !.snap = row[loop[w].r]]
  <2>1. loop' = [loop EXCEPT ![w] = l] /\ stale' = [stale EXCEPT ![w] = {}]
    BY <1>3 DEF FailLoad
  <2>2. l \in Worker /\ l.pc = "fail_save" /\ l.r = loop[w].r /\ l.snap = row[loop[w].r]
    BY <1>1 DEF Worker, Pc
  <2> HIDE DEF l
  <2>3. Holds(l, stale'[w])
    BY <1>1, <2>2 DEF Holds, Going, Held, Inv, VersionsOpen
  <2>4. /\ stale' \in [Workers -> SUBSET Column]
        /\ \A v \in Workers \ {w} : stale[v] \subseteq stale'[v]
    BY <2>1 DEF Inv, TypeOK
  <2>5. QED BY <1>2, <2>1, <2>2, <2>3, <2>4, GoesOn DEF ghosts, Inv, TypeOK
<1>4. CASE ~Live(loop[w].r)
  <2>1. Goto(w, "release") /\ UNCHANGED stale /\ "release" \in Pc
    BY <1>4 DEF FailLoad, Pc
  <2>2. QED BY <1>1, <1>2, <2>1, JustGoes DEF ghosts, Inv, TypeOK
<1>5. QED BY <1>3, <1>4

(* A failure is counted on the row, which keeps its version and rounds and, *)
(* unless it runs, its status.                                              *)
LEMMA FailureIs ==
  ASSUME NEW x \in Row, NEW same \in BOOLEAN
  PROVE  /\ Failure(x, same) \in Row
         /\ Failure(x, same).ver = x.ver /\ Failure(x, same).rounds = x.rounds
         /\ x.st # "running" => Failure(x, same) = x
         /\ x.st = "running" => Failure(x, same).st \in {"running", "paused"}
<1> DEFINE count == IF same /\ x.errs < MaxErrors THEN x.errs + 1
                    ELSE IF same THEN MaxErrors ELSE 1
           st == IF count >= MaxErrors THEN "paused" ELSE x.st
           y == [x EXCEPT !.errs = count, !.st = st]
<1>1. count \in 0..MaxErrors
  BY LoopAssumption DEF Row
<1>2. x.st = "running" => st \in {"running", "paused"}
  OBVIOUS
<1>3. st \in Status
  BY DEF Row, Status
<1>4. Failure(x, same) = IF x.st # "running" THEN x ELSE y
  BY DEF Failure
<1> HIDE DEF count, st
<1>5. y \in Row /\ y.ver = x.ver /\ y.rounds = x.rounds /\ y.st = st
  BY <1>1, <1>3 DEF Row
<1>6. QED BY <1>2, <1>4, <1>5

(* It is written if nobody wrote the row meanwhile.                         *)
LEMMA FailSaveStep ==
  ASSUME Inv, NEW w \in Workers, FailSave(w), UNCHANGED <<up, crashes>>
  PROVE  Inv'
<1>1. loop[w].r \in Researches /\ loop[w].snap \in Row /\ loop[w].pc = "fail_save"
  BY Locals DEF FailSave
<1>2. /\ Goto(w, "release")
      /\ UNCHANGED <<attempts, committed, windowM, receipts, lease, gate, removed, ghosts>>
  BY DEF FailSave
<1>3. CASE UNCHANGED <<row, stale>>
  <2>1. "release" \in Pc
    BY DEF Pc
  <2>2. QED BY <1>1, <1>2, <1>3, <2>1, JustGoes DEF tables, ghosts, Inv, TypeOK
<1>4. ASSUME SaveFits(w), NEW same \in SameError, Saved(w, Failure(loop[w].snap, same))
      PROVE  Inv'
  <2>1. same \in BOOLEAN
    BY LoopAssumption
  <2>2. /\ row[loop[w].r] = loop[w].snap
        /\ loop[w].snap.ver = 0 <=> loop[w].snap.st \in {"none", "draft"}
    BY <1>1, <1>4 DEF SaveFits, Inv, WorkersHold, Holds, Held
  <2> DEFINE new == Failure(loop[w].snap, same)
  <2>3. /\ new \in Row /\ new.ver = row[loop[w].r].ver /\ new.rounds = row[loop[w].r].rounds
        /\ new.ver = 0 <=> new.st \in {"none", "draft"}
    BY <1>1, <2>1, <2>2, FailureIs
  <2> HIDE DEF new
  <2>4. Saved(w, new)
    BY <1>4 DEF new
  <2>5. QED BY <1>1, <1>2, <1>4, <2>3, <2>4, Saves DEF ghosts
<1>5. QED BY <1>3, <1>4 DEF FailSave

(* What a commit may write: the row is what the worker loaded, and a round  *)
(* it commits is the next one, and was never committed before.              *)
LEMMA CommitsNext ==
  ASSUME Inv, NEW w \in Workers, Commit(w)
  PROVE  /\ row[loop[w].r] = loop[w].snap /\ loop[w].snap.st = "running"
         /\ Live(loop[w].r) /\ ThisRound(w) \in RoundId /\ ThisRound(w) = RoundFor(loop[w])
         /\ loop[w].out.round => ThisRound(w) \notin history
<1>1. loop[w] \in Worker /\ loop[w].pc = "finish" /\ Holds(loop[w], stale[w])
  BY Locals DEF Commit, Inv, WorkersHold
<1>2. stale[w] = {} /\ Live(loop[w].r)
  BY DEF Commit, CommitFits
<1>3. row[loop[w].r] = loop[w].snap /\ loop[w].snap.st = "running"
  BY <1>1, <1>2 DEF Holds, Held, Going
<1>4. ThisRound(w) = RoundFor(loop[w]) /\ ThisRound(w) \in RoundId
  BY <1>1, RoundsAre DEF ThisRound, RoundFor, Going
<1>5. ThisRound(w).r = loop[w].r
  BY DEF ThisRound
<1>6. loop[w].out.round => ThisRound(w) \notin history
  BY <1>2, <1>5 DEF Commit, Replays, Inv, HistoryInv
<1>7. QED BY <1>2, <1>3, <1>4, <1>6

(* The round, its count and the row change together.                        *)
LEMMA CommitStep ==
  ASSUME Inv, NEW w \in Workers, NEW r \in Researches, r = loop[w].r, Commit(w),
         UNCHANGED <<up, crashes>>
  PROVE  Inv'
<1> USE DEF Inv
<1> DEFINE pc == IF loop[w].out.round THEN "receipt" ELSE "release"
           l == [loop[w] EXCEPT !.pc = pc]
           x == ThisRound(w)
           news == IF loop[w].out.round THEN {x} ELSE {}
           new == [loop[w].snap EXCEPT !.st = loop[w].out.st, !.errs = 0,
                                       !.rounds = @ + Cardinality(news)]
<1>1. /\ loop[w] \in Worker /\ loop[w].pc = "finish" /\ loop[w].snap \in Row
      /\ loop[w].out \in Outcome /\ Holds(loop[w], stale[w])
  BY Locals DEF Commit, Worker, WorkersHold
<1>2. /\ row[r] = loop[w].snap /\ loop[w].snap.st = "running"
      /\ Live(r) /\ x \in RoundId /\ x = RoundFor(loop[w])
      /\ loop[w].out.round => x \notin history
  BY CommitsNext
<1>3. /\ row' = [row EXCEPT ![r] = new] /\ committed' = committed \cup news
      /\ windowM' = windowM + Cardinality(news) /\ history' = history \cup news
      /\ Touch(r, Others(w), Column) /\ loop' = [loop EXCEPT ![w] = l]
      /\ UNCHANGED <<attempts, receipts, lease, gate, removed, tried>>
  BY DEF Commit, Goto
<1>4. Cardinality(news) = IF loop[w].out.round THEN 1 ELSE 0
  BY FS_EmptySet, FS_Singleton
<1>5. /\ l \in Worker /\ l.pc = pc /\ l.r = loop[w].r /\ l.snap = loop[w].snap
  <2>1. pc \in Pc
    BY DEF Pc
  <2>2. QED BY <1>1, <2>1, Moved
<1>6. x.r = r /\ x.ver = loop[w].snap.ver /\ x.round = loop[w].snap.rounds + 1
  BY <1>2 DEF RoundFor
<1>7. /\ news \subseteq RoundId /\ news \cap history = {}
      /\ \A y \in news : y = x
      /\ loop[w].out.round => x \in news
  BY <1>2
<1>8. loop[w].out.st \in Status /\ loop[w].out.round \in BOOLEAN
  BY <1>1 DEF Outcome
<1>9. loop[w].out.st \notin {"none", "draft"} /\ loop[w].snap.ver # 0
  BY <1>1, <1>2 DEF Holds, Going
<1>10. /\ new \in Row /\ new.ver = row[r].ver /\ new.st = loop[w].out.st
       /\ new.rounds = row[r].rounds + Cardinality(news)
  <2>1. loop[w].snap.rounds + Cardinality(news) \in Nat /\ 0 \in 0..MaxErrors
    BY <1>1, <1>4, LoopAssumption DEF Row
  <2>2. QED BY <1>1, <1>2, <1>8, <2>1 DEF Row
<1> HIDE DEF pc, l, x, news, new
<1>11. /\ row' \in [Researches -> Row] /\ row'[r] = new
       /\ \A q \in Researches : q # r => row'[q] = row[q]
  BY <1>3, <1>10 DEF TypeOK
<1>12. \A q \in Researches : /\ row'[q].ver = row[q].ver
                             /\ Live(q)' => Live(q)
                             /\ row'[q].ver = 0 <=> row'[q].st \in {"none", "draft"}
  BY <1>2, <1>9, <1>10, <1>11 DEF Live, VersionsOpen
<1>13. /\ stale' \in [Workers -> SUBSET Column]
       /\ \A v \in Workers : /\ stale[v] \subseteq stale'[v]
                             /\ v # w /\ loop[v].r = r => "updated_at" \in stale'[v]
  <2>1. Others(w) \in SUBSET Workers /\ Column \in SUBSET Column
    BY DEF Others
  <2>2. QED BY <1>3, <2>1, Touched DEF Others, Column
<1>14. loop' \in [Workers -> Worker] /\ loop'[w] = l
       /\ \A v \in Workers : v # w => loop'[v] = loop[v]
  BY <1>3, <1>5 DEF TypeOK
<1>15. windowM' \in Nat /\ history' \subseteq RoundId /\ committed' \subseteq RoundId
       /\ history \subseteq history'
  BY <1>3, <1>4, <1>7 DEF TypeOK
<1>16. TypeOK'
  BY <1>3, <1>11, <1>13, <1>14, <1>15 DEF TypeOK
<1>17. ASSUME NEW v \in Workers PROVE Holds(loop[v], stale[v])'
  <2>1. CASE v = w
    <3>1. l.pc = "receipt" => RoundFor(l) \in history'
      BY <1>2, <1>3, <1>5, <1>7 DEF RoundFor, pc
    <3>2. l.pc \in {"receipt", "release"} /\ l.r \in Researches
      BY <1>5 DEF pc
    <3>3. l.snap.st = "running" /\ l.snap.ver # 0
      BY <1>2, <1>5, <1>9
    <3>4. QED BY <1>14, <2>1, <3>1, <3>2, <3>3 DEF Holds, Held, Going, RoundFor
  <2>2. CASE v # w
    <3>1. row'[loop[v].r] = row[loop[v].r] \/ "updated_at" \in stale'[v]
      BY <1>3, <1>13, <2>2
    <3>2. QED BY <1>13, <1>14, <1>15, <2>2, <3>1, OthersHold
  <2>3. QED BY <2>1, <2>2
<1>18. HistoryInv'
  <2>1. IsFiniteSet(history')
    <3>1. CASE loop[w].out.round
      BY <1>3, <3>1, FS_AddElement DEF HistoryInv, news
    <3>2. CASE ~loop[w].out.round
      BY <1>3, <3>2 DEF HistoryInv, news
    <3>3. QED BY <3>1, <3>2
  <2>2. committed' \subseteq history'
    BY <1>3 DEF HistoryInv
  <2>3. \A y \in history : y.r \in Researches
    BY DEF TypeOK, RoundId
  <2>4. \A y \in history' : Live(y.r)' => y \in committed'
    BY <1>3, <1>12, <2>3 DEF HistoryInv
  <2>5. \A y \in committed' : y.ver <= row'[y.r].ver
    <3>1. ASSUME NEW y \in committed PROVE y.ver <= row'[y.r].ver
      BY <1>12, <2>3, <3>1 DEF HistoryInv
    <3>2. ASSUME NEW y \in news PROVE y.ver <= row'[y.r].ver
      <4>1. y = x /\ x.r = r /\ x.ver = row[r].ver /\ row[r].ver \in Nat
        BY <1>1, <1>2, <1>6, <1>7, <3>2 DEF Row
      <4>2. QED BY <1>12, <4>1
    <3>3. QED BY <1>3, <3>1, <3>2
  <2>6. QED BY <2>1, <2>2, <2>4, <2>5 DEF HistoryInv
<1>19. MCountsRounds'
  <2>1. CASE loop[w].out.round
    <3>1. Cardinality(history \cup {x}) = Cardinality(history) + 1
      BY <1>2, <2>1, FS_AddElement DEF HistoryInv, x
    <3>2. QED BY <1>3, <1>4, <2>1, <3>1 DEF MCountsRounds, news
  <2>2. CASE ~loop[w].out.round
    BY <1>3, <1>4, <2>2 DEF MCountsRounds, news, TypeOK
  <2>3. QED BY <2>1, <2>2
<1>20. RoundsAgree'
  <2>1. ASSUME NEW q \in Researches, Live(q)'
        PROVE  {y.round : y \in {z \in RoundsOf(q)' : z.ver = row'[q].ver}} = 1..row'[q].rounds
    <3>1. {y.round : y \in {z \in RoundsOf(q) : z.ver = row[q].ver}} = 1..row[q].rounds
      BY <1>12, <2>1 DEF RoundsAgree
    <3>2. CASE q # r
      <4>1. RoundsOf(q)' = RoundsOf(q)
        BY <1>3, <1>6, <1>7, <3>2 DEF RoundsOf
      <4>2. QED BY <1>11, <3>1, <3>2, <4>1
    <3>3. CASE q = r /\ loop[w].out.round
      <4>1. RoundsOf(r)' = RoundsOf(r) \cup {x}
        BY <1>3, <1>6, <3>3 DEF RoundsOf, news
      <4>2. row[r].rounds \in Nat /\ x.ver = row'[r].ver /\ x.round = row[r].rounds + 1
        BY <1>1, <1>2, <1>6, <1>12 DEF Row
      <4>3. row'[r].rounds = row[r].rounds + 1
        BY <1>4, <1>10, <1>11, <3>3
      <4>4. {z \in RoundsOf(r)' : z.ver = row'[r].ver}
              = {z \in RoundsOf(r) : z.ver = row[r].ver} \cup {x}
        BY <1>12, <4>1, <4>2
      <4>5. {y.round : y \in {z \in RoundsOf(r)' : z.ver = row'[r].ver}}
              = (1..row[r].rounds) \cup {row[r].rounds + 1}
        BY <3>1, <3>3, <4>2, <4>4
      <4>6. \A n \in Nat : (1..n) \cup {n + 1} = 1..(n + 1)
        OBVIOUS
      <4>7. QED BY <3>3, <4>2, <4>3, <4>5, <4>6
    <3>4. CASE q = r /\ ~loop[w].out.round
      <4>1. RoundsOf(r)' = RoundsOf(r)
        BY <1>3, <3>4 DEF RoundsOf, news
      <4>2. row'[r].rounds = row[r].rounds
        BY <1>1, <1>2, <1>4, <1>10, <1>11, <3>4 DEF Row
      <4>3. QED BY <1>12, <3>1, <3>4, <4>1, <4>2
    <3>5. QED BY <3>2, <3>3, <3>4
  <2>2. QED BY <2>1 DEF RoundsAgree
<1>21. VersionsOpen' /\ ReceiptMeansCommitted'
  BY <1>3, <1>12, <1>15 DEF VersionsOpen, ReceiptMeansCommitted
<1>22. IsFiniteSet(attempts')
  BY <1>3
<1>23. QED BY <1>16, <1>17, <1>18, <1>19, <1>20, <1>21, <1>22 DEF WorkersHold

-----------------------------------------------------------------------------
(* The process and the user                                                *)

(* The process ends, and starts again with the tables it finds.             *)
LEMMA ProcessStep ==
  ASSUME Inv, (\E w \in Workers : Exit(w)) \/ Crash \/ Restart
  PROVE  Inv'
<1> USE DEF Inv
<1>1. /\ UNCHANGED <<row, attempts, committed, windowM, receipts, gate, history, tried>>
      /\ lease' \in Researches \cup {None} /\ crashes' \in 0..MaxCrashes /\ up' \in BOOLEAN
      /\ removed' \subseteq Researches
  <2>1. CASE \E w \in Workers : Exit(w)
    BY <2>1 DEF Exit, Stopped, ghosts, TypeOK
  <2>2. CASE Crash
    <3>1. crashes' \in 0..MaxCrashes
      BY <2>2, LoopAssumption DEF Crash, TypeOK
    <3>2. QED BY <2>2, <3>1 DEF Crash, Stopped, tables, ghosts, TypeOK
  <2>3. CASE Restart
    BY <2>3 DEF Restart, tables, ghosts, TypeOK
  <2>4. QED BY <2>1, <2>2, <2>3
<1>2. \/ UNCHANGED <<loop, stale>>
      \/ loop' = [w \in Workers |-> IdleWorker] /\ stale' = [w \in Workers |-> {}]
  BY DEF Exit, Crash, Restart, Stopped
<1>3. TypeOK'
  BY <1>1, <1>2, Idle DEF TypeOK
<1>4. ASSUME NEW v \in Workers PROVE Holds(loop[v], stale[v])'
  <2>1. CASE UNCHANGED <<loop, stale>>
    BY <1>1, <2>1, OthersHold
  <2>2. CASE loop' = [w \in Workers |-> IdleWorker]
    BY <2>2, Idle DEF Holds, Held, Going
  <2>3. QED BY <1>2, <2>1, <2>2
<1>5. VersionsOpen' /\ RoundsAgree' /\ HistoryInv' /\ MCountsRounds' /\ ReceiptMeansCommitted'
  BY <1>1 DEF VersionsOpen, RoundsAgree, RoundsOf, HistoryInv, MCountsRounds,
     ReceiptMeansCommitted, Live
<1>6. QED BY <1>1, <1>3, <1>4, <1>5 DEF WorkersHold

(* A command of the user writes the row of a live research: the version and *)
(* its rounds stay, or a new version opens without rounds.                  *)
LEMMA CommandStep ==
  ASSUME Inv, NEW c, NEW r \in Researches, NEW from, NEW new \in Row, Command(c, r, from, new),
         "none" \notin from, new.st \notin {"none", "draft"},
         \/ new.ver = row[r].ver /\ new.rounds = row[r].rounds /\ row[r].st # "draft"
         \/ new.ver = row[r].ver + 1 /\ new.rounds = 0,
         UNCHANGED <<up, crashes>>
  PROVE  Inv'
<1> USE DEF Inv
<1>1. /\ row' = [row EXCEPT ![r] = new] /\ Touch(r, Workers, Column) /\ row[r].st # "none"
      /\ tried' \subseteq tried
      /\ UNCHANGED <<attempts, committed, windowM, receipts, lease, gate, removed, loop, history>>
  BY DEF Command
<1>2. /\ row' \in [Researches -> Row] /\ row'[r] = new
      /\ \A q \in Researches : q # r => row'[q] = row[q]
      /\ \A q \in Researches : row[q].ver \in Nat
  BY <1>1 DEF TypeOK, Row
<1>3. \A q \in Researches : /\ row'[q].ver >= row[q].ver
                            /\ Live(q)' => Live(q)
                            /\ row'[q].ver = 0 <=> row'[q].st \in {"none", "draft"}
  BY <1>1, <1>2 DEF Live, VersionsOpen
<1>4. /\ stale' \in [Workers -> SUBSET Column]
      /\ \A v \in Workers : /\ stale[v] \subseteq stale'[v]
                            /\ loop[v].r = r => "updated_at" \in stale'[v]
  BY <1>1, Touched DEF Column
<1>5. TypeOK'
  BY <1>1, <1>2, <1>4 DEF TypeOK
<1>6. ASSUME NEW v \in Workers PROVE Holds(loop[v], stale[v])'
  <2>1. row'[loop[v].r] = row[loop[v].r] \/ "updated_at" \in stale'[v]
    BY <1>1, <1>4
  <2>2. QED BY <1>1, <1>4, <2>1, OthersHold
<1>7. RoundsAgree'
  <2>1. ASSUME NEW q \in Researches, Live(q)'
        PROVE  {x.round : x \in {y \in RoundsOf(q) : y.ver = row'[q].ver}} = 1..row'[q].rounds
    <3>1. {x.round : x \in {y \in RoundsOf(q) : y.ver = row[q].ver}} = 1..row[q].rounds
      BY <1>3, <2>1 DEF RoundsAgree
    <3>2. CASE row'[q].ver = row[q].ver /\ row'[q].rounds = row[q].rounds
      BY <3>1, <3>2
    <3>3. CASE row'[q].ver = row[q].ver + 1 /\ row'[q].rounds = 0
      <4>1. \A y \in RoundsOf(q) : y.ver <= row[q].ver /\ y.ver \in Nat
        BY DEF RoundsOf, HistoryInv, TypeOK, RoundId
      <4>2. {y \in RoundsOf(q) : y.ver = row'[q].ver} = {}
        BY <1>2, <3>3, <4>1
      <4>3. QED BY <3>3, <4>2
    <3>4. QED BY <1>2, <3>2, <3>3
  <2>2. QED BY <1>1, <2>1 DEF RoundsAgree, RoundsOf
<1>8. HistoryInv'
  <2>1. \A x \in history : x.r \in Researches /\ x.ver \in Nat
    BY DEF TypeOK, RoundId
  <2>2. \A x \in history : Live(x.r)' => Live(x.r)
    BY <1>3, <2>1
  <2>3. \A x \in committed : x.ver <= row'[x.r].ver
    <3>1. ASSUME NEW x \in committed PROVE x.ver <= row'[x.r].ver
      <4>1. x.r \in Researches /\ x.ver \in Nat /\ x.ver <= row[x.r].ver
        BY <2>1, <3>1 DEF HistoryInv
      <4>2. row'[x.r].ver \in Nat
        BY <1>2, <4>1 DEF Row
      <4>3. QED BY <1>2, <1>3, <4>1, <4>2
    <3>2. QED BY <3>1
  <2>4. QED BY <1>1, <2>2, <2>3 DEF HistoryInv
<1>9. VersionsOpen' /\ MCountsRounds' /\ ReceiptMeansCommitted' /\ IsFiniteSet(attempts')
  BY <1>1, <1>3 DEF VersionsOpen, MCountsRounds, ReceiptMeansCommitted
<1>10. QED BY <1>5, <1>6, <1>7, <1>8, <1>9 DEF WorkersHold

(* A row with another status, and one with a new version.                   *)
LEMMA RowsAre ==
  ASSUME NEW x \in Row, NEW s \in Status
  PROVE  /\ LET y == [x EXCEPT !.st = s]
            IN  y \in Row /\ y.st = s /\ y.ver = x.ver /\ y.rounds = x.rounds
         /\ x.ver < MaxVersion =>
            LET y == [x EXCEPT !.st = "running", !.ver = @ + 1, !.rounds = 0]
            IN  y \in Row /\ y.st = "running" /\ y.ver = x.ver + 1 /\ y.rounds = 0
         /\ LET y == [x EXCEPT !.st = "running", !.budget = @ + 1]
            IN  y \in Row /\ y.st = "running" /\ y.ver = x.ver /\ y.rounds = x.rounds
<1>1. "running" \in Status /\ x.budget + 1 \in Nat
  BY DEF Row, Status
<1>2. x.ver < MaxVersion => x.ver + 1 \in 0..MaxVersion
  BY LoopAssumption DEF Row
<1>3. LET y == [x EXCEPT !.st = s]
      IN  y \in Row /\ y.st = s /\ y.ver = x.ver /\ y.rounds = x.rounds
  BY DEF Row
<1>4. ASSUME x.ver < MaxVersion
      PROVE  LET y == [x EXCEPT !.st = "running", !.ver = @ + 1, !.rounds = 0]
             IN  y \in Row /\ y.st = "running" /\ y.ver = x.ver + 1 /\ y.rounds = 0
  <2> DEFINE y == [x EXCEPT !.st = "running", !.ver = @ + 1, !.rounds = 0]
  <2>1. y \in Row /\ y.st = "running" /\ y.ver = x.ver + 1 /\ y.rounds = 0
    BY <1>1, <1>2, <1>4 DEF Row
  <2>2. QED BY <2>1
<1>5. LET y == [x EXCEPT !.st = "running", !.budget = @ + 1]
      IN  y \in Row /\ y.st = "running" /\ y.ver = x.ver /\ y.rounds = x.rounds
  <2> DEFINE y == [x EXCEPT !.st = "running", !.budget = @ + 1]
  <2>1. y \in Row /\ y.st = "running" /\ y.ver = x.ver /\ y.rounds = x.rounds
    BY <1>1 DEF Row
  <2>2. QED BY <2>1
<1>6. QED BY <1>3, <1>4, <1>5

(* The commands of the user.                                                *)
LEMMA CommandsStep ==
  ASSUME Inv, NEW r \in Researches, UNCHANGED <<up, crashes>>,
         \/ ConfirmRun(r) \/ Pause(r) \/ Resume(r) \/ Approve(r) \/ Reject(r)
         \/ ConfirmPause(r) \/ ContinueIterate(r) \/ Reopen(r)
  PROVE  Inv'
<1>1. row[r] \in Row /\ (row[r].ver = 0 <=> row[r].st \in {"none", "draft"})
  BY DEF Inv, TypeOK, VersionsOpen
<1>2. {"running", "paused"} \subseteq Status
  BY DEF Status
<1>3. ASSUME NEW c, NEW from, NEW s \in {"running", "paused"}, "none" \notin from,
             "draft" \notin from, Command(c, r, from, [row[r] EXCEPT !.st = s])
      PROVE  Inv'
  <2> DEFINE new == [row[r] EXCEPT !.st = s]
  <2>1. new \in Row /\ new.st = s /\ new.ver = row[r].ver /\ new.rounds = row[r].rounds
    BY <1>1, <1>2, RowsAre
  <2>2. Command(c, r, from, new) /\ row[r].st # "draft"
    BY <1>3 DEF Command
  <2> HIDE DEF new
  <2>3. QED BY <1>3, <2>1, <2>2, CommandStep
<1>4. ASSUME NEW c, NEW from, "none" \notin from, row[r].ver < MaxVersion,
             Command(c, r, from, NextVersion(r))
      PROVE  Inv'
  <2> DEFINE new == NextVersion(r)
  <2>1. new \in Row /\ new.st = "running" /\ new.ver = row[r].ver + 1 /\ new.rounds = 0
    BY <1>1, <1>2, <1>4, RowsAre DEF NextVersion
  <2>2. Command(c, r, from, new)
    BY <1>4
  <2> HIDE DEF new
  <2>3. QED BY <1>4, <2>1, <2>2, CommandStep
<1>5. CASE ConfirmRun(r)
  <2>1. row[r].st \in {"draft"}
    BY <1>5 DEF ConfirmRun, Command
  <2>2. row[r].ver < MaxVersion
    BY <1>1, <2>1, LoopAssumption
  <2>3. QED BY <1>4, <1>5, <2>2 DEF ConfirmRun
<1>6. CASE Approve(r) \/ Reopen(r)
  BY <1>4, <1>6 DEF Approve, Reopen
<1>7. CASE Pause(r) \/ Resume(r) \/ Reject(r) \/ ConfirmPause(r)
  BY <1>3, <1>7 DEF Pause, Resume, Reject, ConfirmPause
<1>8. CASE ContinueIterate(r)
  <2> DEFINE new == [row[r] EXCEPT !.st = "running", !.budget = @ + 1]
  <2>1. new \in Row /\ new.st = "running" /\ new.ver = row[r].ver /\ new.rounds = row[r].rounds
    BY <1>1, <1>2, RowsAre
  <2>2. Command("continue_iterate", r, {"completed"}, new)
    BY <1>8 DEF ContinueIterate
  <2> HIDE DEF new
  <2>3. row[r].st # "draft"
    BY <2>2 DEF Command
  <2>4. QED BY <2>1, <2>2, <2>3, CommandStep
<1>9. QED BY <1>5, <1>6, <1>7, <1>8

(* A deletion takes the rounds of the research out of every table but the   *)
(* count, and the research does not come back.                              *)
LEMMA DeleteStep ==
  ASSUME Inv, NEW r \in Researches, Delete(r), UNCHANGED <<up, crashes>>
  PROVE  Inv'
<1> USE DEF Inv
<1> DEFINE new == [NewRow EXCEPT !.st = "none"]
<1>1. new \in Row /\ new.st = "none" /\ new.ver = 0
  BY Idle DEF NewRow, Row, Status
<1>2. /\ row' = [row EXCEPT ![r] = new] /\ Touch(r, Workers, Column)
      /\ attempts' = {a \in attempts : a.r # r}
      /\ committed' = {x \in committed : x.r # r}
      /\ receipts' = {x \in receipts : x.r # r}
      /\ removed' = removed \cup {r} /\ lease' \in {None, lease}
      /\ UNCHANGED <<windowM, gate, loop, history, tried>>
  BY DEF Delete, ghosts
<1> HIDE DEF new
<1>3. /\ row' \in [Researches -> Row] /\ row'[r] = new
      /\ \A q \in Researches : q # r => row'[q] = row[q]
  BY <1>1, <1>2 DEF TypeOK
<1>4. \A q \in Researches : /\ Live(q)' => Live(q) /\ q # r
                            /\ row'[q].ver = 0 <=> row'[q].st \in {"none", "draft"}
  BY <1>1, <1>3 DEF Live, VersionsOpen
<1>5. /\ stale' \in [Workers -> SUBSET Column]
      /\ \A v \in Workers : /\ stale[v] \subseteq stale'[v]
                            /\ loop[v].r = r => "updated_at" \in stale'[v]
  BY <1>2, Touched DEF Column
<1>6. TypeOK'
  BY <1>2, <1>3, <1>5 DEF TypeOK
<1>7. ASSUME NEW v \in Workers PROVE Holds(loop[v], stale[v])'
  <2>1. row'[loop[v].r] = row[loop[v].r] \/ "updated_at" \in stale'[v]
    BY <1>2, <1>5
  <2>2. QED BY <1>2, <1>5, <2>1, OthersHold
<1>8. RoundsAgree'
  <2>1. ASSUME NEW q \in Researches, Live(q)'
        PROVE  RoundsOf(q)' = RoundsOf(q) /\ row'[q] = row[q] /\ Live(q)
    BY <1>2, <1>3, <1>4, <2>1 DEF RoundsOf
  <2>2. QED BY <2>1 DEF RoundsAgree
<1>9. HistoryInv'
  <2>1. \A x \in history : x.r \in Researches
    BY DEF TypeOK, RoundId
  <2>2. \A x \in history : Live(x.r)' => x \in committed'
    BY <1>2, <1>4, <2>1 DEF HistoryInv
  <2>3. \A x \in committed' : x.ver <= row'[x.r].ver
    BY <1>2, <2>1, <1>3 DEF HistoryInv
  <2>4. QED BY <1>2, <2>2, <2>3 DEF HistoryInv
<1>10. VersionsOpen' /\ MCountsRounds' /\ ReceiptMeansCommitted'
  BY <1>2, <1>4 DEF VersionsOpen, MCountsRounds, ReceiptMeansCommitted
<1>11. IsFiniteSet(attempts')
  BY <1>2, FS_Subset
<1>12. QED BY <1>6, <1>7, <1>8, <1>9, <1>10, <1>11 DEF WorkersHold

(* A deletion that is refused, and the audit of send_dialogue.              *)
LEMMA OtherUserStep ==
  ASSUME Inv, SendDialogue \/ (\E r \in Researches : DeleteRefused(r)), UNCHANGED <<up, crashes>>
  PROVE  Inv'
<1> USE DEF Inv
<1>1. /\ UNCHANGED <<row, attempts, committed, windowM, receipts, lease, loop, stale, ghosts>>
      /\ gate' \in {"open", "duplicate_m", "lost_committed_receipt"}
      /\ removed' \subseteq Researches
  BY DEF SendDialogue, DeleteRefused, Audited, tables, TypeOK
<1>2. TypeOK' /\ IsFiniteSet(attempts')
  BY <1>1 DEF TypeOK, ghosts
<1>3. ASSUME NEW v \in Workers PROVE Holds(loop[v], stale[v])'
  BY <1>1, OthersHold DEF ghosts
<1>4. VersionsOpen' /\ RoundsAgree' /\ HistoryInv' /\ MCountsRounds' /\ ReceiptMeansCommitted'
  BY <1>1 DEF VersionsOpen, RoundsAgree, RoundsOf, HistoryInv, MCountsRounds,
     ReceiptMeansCommitted, Live, ghosts
<1>5. QED BY <1>2, <1>3, <1>4 DEF WorkersHold

-----------------------------------------------------------------------------
(* The theorems for every set of workers                                   *)

(* Nothing has been tried when the engine is first started.                 *)
LEMMA InitInv == Init => Inv
<1> SUFFICES ASSUME Init PROVE Inv
  OBVIOUS
<1> USE DEF Init
<1>1. TypeOK
  BY Idle, LoopAssumption DEF TypeOK
<1>2. WorkersHold
  BY Idle DEF WorkersHold, Holds, Held, Going
<1>3. VersionsOpen /\ ReceiptMeansCommitted
  BY DEF VersionsOpen, NewRow, ReceiptMeansCommitted
<1>4. HistoryInv /\ MCountsRounds /\ IsFiniteSet(attempts)
  BY FS_EmptySet DEF HistoryInv, MCountsRounds
<1>5. RoundsAgree
  <2>1. ASSUME NEW r \in Researches
        PROVE  {x.round : x \in {y \in RoundsOf(r) : y.ver = row[r].ver}} = 1..row[r].rounds
    <3>1. row[r].rounds = 0 /\ RoundsOf(r) = {}
      BY DEF NewRow, RoundsOf
    <3>2. QED BY <3>1
  <2>2. QED BY <2>1 DEF RoundsAgree
<1>6. QED BY <1>1, <1>2, <1>3, <1>4, <1>5 DEF Inv

(* A step of a worker keeps it.                                             *)
LEMMA WorkStep ==
  ASSUME Inv, NEW w \in Workers, Work(w)
  PROVE  Inv'
<1>1. UNCHANGED <<up, crashes>> /\ (Sweep(w) \/ Tick(w))
  BY DEF Work
<1>2. CASE Sweep(w)
  BY <1>1, <1>2, WakeStep, AcquireStep, AuditStep, ReleaseStep DEF Sweep
<1>3. CASE Commit(w)
  <2>1. loop[w].r \in Researches
    BY <1>3, Locals DEF Commit
  <2>2. QED BY <1>1, <1>3, <2>1, CommitStep
<1>4. CASE Tick(w)
  BY <1>1, <1>3, <1>4, LoadStep, EnterStep, RecoverStep, GiveUpStep, GatherStep, BuildStep,
     StopStep, RaiseStep, ReviewStep, SettleStep, ReplayStep, ConflictStep, BusyStep,
     WriteReceiptStep, FailLoadStep, FailSaveStep DEF Tick
<1>5. QED BY <1>1, <1>2, <1>4

(* Every step keeps it.                                                     *)
LEMMA NextInv == Inv /\ [Next]_vars => Inv'
<1> SUFFICES ASSUME Inv, [Next]_vars PROVE Inv'
  OBVIOUS
<1>1. CASE User
  BY <1>1, CommandsStep, DeleteStep, OtherUserStep DEF User, UserStep
<1>2. CASE UNCHANGED vars
  <2>1. UNCHANGED <<row, attempts, committed, windowM, receipts, lease, gate, removed, up, loop,
                    stale, crashes, history, tried>>
    BY <1>2 DEF vars
  <2>2. TypeOK' /\ IsFiniteSet(attempts')
    BY <2>1 DEF Inv, TypeOK
  <2>3. ASSUME NEW v \in Workers PROVE Holds(loop[v], stale[v])'
    BY <2>1, OthersHold
  <2>4. VersionsOpen' /\ RoundsAgree' /\ HistoryInv' /\ MCountsRounds' /\ ReceiptMeansCommitted'
    BY <2>1 DEF Inv, VersionsOpen, RoundsAgree, RoundsOf, HistoryInv, MCountsRounds,
       ReceiptMeansCommitted, Live
  <2>5. QED BY <2>2, <2>3, <2>4 DEF Inv, WorkersHold
<1>3. QED BY <1>1, <1>2, WorkStep, ProcessStep DEF Next

(* The invariant of every behaviour.                                        *)
THEOREM InvAlways == Spec => []Inv
BY InitInv, NextInv, PTL DEF Spec

(* The count of the data window is the number of rounds ever committed on   *)
(* it, however ticks are refused, repeated or cut short                     *)
(* (round_store.py:587).                                                    *)
THEOREM MCountsRoundsAlways == Spec => []MCountsRounds
<1>1. Inv => MCountsRounds
  BY DEF Inv
<1>2. QED BY <1>1, InvAlways, PTL


(* No receipt is given for a round that was not committed (loop.py:1017).   *)
THEOREM ReceiptMeansCommittedAlways == Spec => []ReceiptMeansCommitted
<1>1. Inv => ReceiptMeansCommitted
  BY DEF Inv
<1>2. QED BY <1>1, InvAlways, PTL

(* The rounds a live research holds are those of the table for its version, *)
(* without a gap (round_store.py:603).                                      *)
THEOREM RoundsAgreeAlways == Spec => [](TypeOK /\ RoundsAgree)
<1>1. Inv => TypeOK /\ RoundsAgree
  BY DEF Inv
<1>2. QED BY <1>1, InvAlways, PTL

(* What a step of a worker does to a research that does not run: its status *)
(* and its version stay.                                                    *)
LEMMA WorkersRespect ==
  ASSUME Inv, NEW w \in Workers, Work(w)
  PROVE  \A r \in Researches : row[r].st # "running" =>
            row'[r].st = row[r].st /\ row'[r].ver = row[r].ver
<1> DEFINE Respects == \A r \in Researches : row[r].st # "running" =>
                          row'[r].st = row[r].st /\ row'[r].ver = row[r].ver
           q == loop[w].r
<1>1. row \in [Researches -> Row] /\ Holds(loop[w], stale[w])
  BY DEF Inv, TypeOK, WorkersHold
<1>2. ASSUME row' = row PROVE Respects
  BY <1>2
<1>3. ASSUME NEW new, row' = [row EXCEPT ![q] = new],
             row[q].st = "running" \/ (new.st = row[q].st /\ new.ver = row[q].ver)
      PROVE  Respects
  BY <1>1, <1>3
<1>4. CASE Enter(w)
  <2>1. loop[w].pc = "enter"
    BY <1>4 DEF Enter
  <2>2. SaveFits(w) => row[q] = loop[w].snap
    BY <1>1, <2>1 DEF SaveFits, Holds, Held
  <2>3. CASE row' = row
    BY <1>2, <2>3
  <2>4. CASE SaveFits(w) /\ Saved(w, row[q])
    BY <1>3, <2>4 DEF Saved
  <2>5. ASSUME SaveFits(w), loop[w].snap.st = "running", NEW new, Saved(w, new) PROVE Respects
    BY <1>3, <2>2, <2>5 DEF Saved
  <2>6. QED BY <1>4, <2>3, <2>4, <2>5 DEF Enter, SaveOrFail
<1>5. CASE Commit(w)
  <2>1. row[q].st = "running"
    BY <1>5, CommitsNext
  <2>2. \E new : row' = [row EXCEPT ![q] = new]
    BY <1>5 DEF Commit
  <2>3. QED BY <1>3, <2>1, <2>2
<1>6. CASE Busy(w)
  <2>1. loop[w].pc = "finish"
    BY <1>6 DEF Busy
  <2>2. SaveFits(w) => row[q].st = "running"
    BY <1>1, <2>1 DEF SaveFits, Holds, Held, Going
  <2>3. row' = row \/ (SaveFits(w) /\ \E new : row' = [row EXCEPT ![q] = new])
    BY <1>6 DEF Busy, SaveOrFail, Saved
  <2>4. QED BY <1>2, <1>3, <2>2, <2>3
<1>7. CASE FailSave(w)
  <2>1. CASE row' = row
    BY <1>2, <2>1
  <2>2. ASSUME SaveFits(w), NEW same \in SameError, Saved(w, Failure(loop[w].snap, same))
        PROVE  Respects
    <3>1. row[q] = loop[w].snap /\ loop[w].snap \in Row /\ same \in BOOLEAN
      BY <1>1, <1>7, <2>2, Locals, LoopAssumption DEF FailSave, SaveFits, Holds, Held
    <3> DEFINE new == Failure(loop[w].snap, same)
    <3>2. row[q].st # "running" => new = row[q]
      BY <3>1, FailureIs
    <3>3. row' = [row EXCEPT ![q] = new]
      BY <2>2 DEF Saved
    <3> HIDE DEF new
    <3>4. QED BY <1>3, <3>2, <3>3
  <2>3. QED BY <1>7, <2>1, <2>2 DEF FailSave
<1>8. Enter(w) \/ Commit(w) \/ Busy(w) \/ FailSave(w) \/ row' = row
  BY DEF Work, Sweep, Tick, Wake, SweepEnds, Acquire, Queued, Audit, Release, Load, Recover,
     GiveUp, Gather, Build, Stop, Raise, Abort, Review, Settle, Replay, Conflict, WriteReceipt,
     FailLoad, tables
<1>9. QED BY <1>2, <1>4, <1>5, <1>6, <1>7, <1>8

(* Once the row says anything but running, no step of the loop changes the  *)
(* status or the version, and none brings a deleted research back           *)
(* (store.py:732, round_store.py:502).                                      *)
THEOREM LoopRespectsUserAlways == Spec => LoopRespectsUser
<1> DEFINE Respects == \A r \in Researches :
              loop' # loop /\ row[r].st # "running"
                => row'[r].st = row[r].st /\ row'[r].ver = row[r].ver
<1>1. Inv /\ [Next]_vars => [Respects]_vars
  <2> SUFFICES ASSUME Inv, Next PROVE Respects
    OBVIOUS
  <2>1. CASE \E w \in Workers : Work(w)
    BY <2>1, WorkersRespect
  <2>2. CASE (\E w \in Workers : up /\ Exit(w)) \/ Crash \/ Restart
    BY <2>2 DEF Exit, Crash, Restart, tables
  <2>3. CASE User
    <3>1. loop' = loop
      BY <2>3 DEF User, UserStep, SendDialogue, ConfirmRun, Pause, Resume, Approve, Reject,
         ConfirmPause, ContinueIterate, Reopen, Command, Delete, DeleteRefused
    <3>2. QED BY <3>1
  <2>4. QED BY <2>1, <2>2, <2>3 DEF Next
<1>2. QED BY <1>1, InvAlways, PTL DEF Spec, LoopRespectsUser


-----------------------------------------------------------------------------
(* One worker: the attempts                                                *)

(* A research that was deleted does not come back.                          *)
LEMMA NeverBack ==
  ASSUME Inv, NEW w \in Workers, Work(w)
  PROVE  \A r \in Researches : Live(r)' => Live(r)
  BY WorkersRespect DEF Live

(* What a step keeps that makes no attempt and commits no round.            *)
LEMMA NothingTried ==
  ASSUME Inv, OneInv, OneWorker, NEW w \in Workers, NEW l, loop'[w] = l,
         l.r \in Researches => Tries(l),
         UNCHANGED <<attempts, committed>>,
         \A r \in Researches : Live(r)' => Live(r)
  PROVE  OneInv'
<1>1. \A x : AttemptsAt(x)' = AttemptsAt(x)
  BY DEF AttemptsAt
<1>2. l.r \in Researches => Tries(l)'
  BY <1>1 DEF Tries, RoundFor
<1>3. WorkersTry'
  BY <1>2 DEF WorkersTry, OneWorker
<1>4. AllInOrder'
  BY <1>1 DEF OneInv, AllInOrder, InOrder, RoundId
<1>5. CommittedWasReviewed'
  BY <1>1 DEF OneInv, CommittedWasReviewed
<1>6. QED BY <1>3, <1>4, <1>5 DEF OneInv

\* The steps after which a worker is at no attempt and has no round to commit.
Leaves(w) ==
    \/ Wake(w) \/ SweepEnds(w) \/ Audit(w) \/ Release(w)
    \/ \E r \in Researches : Acquire(w, r) \/ Queued(w, r)
    \/ Load(w) \/ Enter(w) \/ Raise(w) \/ Abort(w) \/ Replay(w) \/ Conflict(w) \/ Busy(w)
    \/ Commit(w) \/ WriteReceipt(w) \/ FailLoad(w) \/ FailSave(w)

(* Where they leave it, and that they leave the attempts alone.             *)
LEMMA LeavesIs ==
  ASSUME Inv, NEW w \in Workers, Leaves(w)
  PROVE  /\ loop'[w].pc \notin {"build", "review", "settle", "finish"}
         /\ attempts' = attempts
         /\ ~Commit(w) => committed' = committed
<1>1. loop \in [Workers -> Worker]
  BY DEF Inv, TypeOK
<1>2. ASSUME NEW pc, pc \notin {"build", "review", "settle", "finish"}, Goto(w, pc)
      PROVE  loop'[w].pc \notin {"build", "review", "settle", "finish"}
  BY <1>1, <1>2 DEF Goto, Worker
<1>3. loop'[w].pc \notin {"build", "review", "settle", "finish"}
  <2>1. CASE Wake(w)
    BY <1>1, <2>1 DEF Wake, Worker
  <2>2. CASE \E r \in Researches : Acquire(w, r)
    BY <1>1, <2>2, Idle DEF Acquire, Worker
  <2>3. CASE \E r \in Researches : Queued(w, r)
    BY <1>1, <2>3 DEF Queued, Worker
  <2>4. CASE Release(w)
    BY <1>1, <2>4, Idle DEF Release, Worker
  <2>5. CASE SweepEnds(w) \/ Audit(w) \/ Raise(w) \/ Abort(w) \/ Replay(w) \/ Conflict(w)
             \/ WriteReceipt(w) \/ FailSave(w)
    BY <1>2, <2>5 DEF SweepEnds, Audit, Raise, Abort, Replay, Conflict, WriteReceipt, FailSave
  <2>6. CASE Load(w)
    <3>1. Goto(w, "release") \/ loop' = [loop EXCEPT ![w].pc = "enter", ![w].snap = row[loop[w].r]]
      BY <2>6 DEF Load
    <3>2. QED BY <1>1, <1>2, <3>1 DEF Worker
  <2>7. CASE FailLoad(w)
    <3>1. Goto(w, "release")
          \/ loop' = [loop EXCEPT ![w].pc = "fail_save", ![w].snap = row[loop[w].r]]
      BY <2>7 DEF FailLoad
    <3>2. QED BY <1>1, <1>2, <3>1 DEF Worker
  <2>8. CASE Enter(w) \/ Busy(w)
    <3>1. \E pc \in {"release", "fail", "decide"} : Goto(w, pc)
      BY <2>8 DEF Enter, Busy, SaveOrFail
    <3>2. QED BY <1>2, <3>1
  <2>9. CASE Commit(w)
    <3>1. \E pc \in {"release", "receipt"} : Goto(w, pc)
      BY <2>9 DEF Commit
    <3>2. QED BY <1>2, <3>1
  <2>10. QED BY <2>1, <2>2, <2>3, <2>4, <2>5, <2>6, <2>7, <2>8, <2>9 DEF Leaves
<1>4. attempts' = attempts /\ (~Commit(w) => committed' = committed)
  BY DEF Leaves, Wake, SweepEnds, Audit, Release, Acquire, Queued, Load, Enter, Raise, Abort,
     Replay, Conflict, Busy, Commit, WriteReceipt, FailLoad, FailSave, tables
<1>5. QED BY <1>3, <1>4

(* A worker that leaves a round, or commits one that has passed.            *)
LEMMA LeavesStep ==
  ASSUME Inv, OneInv, OneWorker, NEW w \in Workers, Work(w), Leaves(w)
  PROVE  OneInv'
<1>1. /\ loop'[w].pc \notin {"build", "review", "settle", "finish"}
      /\ attempts' = attempts /\ (~Commit(w) => committed' = committed)
  BY LeavesIs
<1>2. PICK l : l = loop'[w]
  OBVIOUS
<1>3. Tries(l)
  BY <1>1, <1>2 DEF Tries
<1>4. CASE ~Commit(w)
  BY <1>1, <1>2, <1>3, <1>4, NeverBack, NothingTried
<1>5. CASE Commit(w)
  <2>1. \A x : AttemptsAt(x)' = AttemptsAt(x)
    BY <1>1 DEF AttemptsAt
  <2>2. WorkersTry'
    <3>1. Tries(loop[w])'
      BY <1>1 DEF Tries
    <3>2. QED BY <3>1 DEF WorkersTry, OneWorker
  <2>3. AllInOrder'
    BY <2>1, NeverBack DEF OneInv, AllInOrder, InOrder, RoundId
  <2>4. CommittedWasReviewed'
    <3>1. /\ loop[w].pc = "finish" /\ Live(loop[w].r) /\ ThisRound(w) = RoundFor(loop[w])
          /\ committed' = committed \/ (loop[w].out.round /\ committed' = committed \cup {ThisRound(w)})
      BY <1>5, CommitsNext DEF Commit
    <3>2. loop[w].r \in Researches
      BY <3>1, Locals
    <3>3. loop[w].out.round => \E a \in AttemptsAt(ThisRound(w)) : a.passed
      BY <3>1, <3>2 DEF OneInv, WorkersTry, Tries
    <3>4. QED BY <2>1, <3>1, <3>3 DEF OneInv, CommittedWasReviewed
  <2>5. QED BY <2>2, <2>3, <2>4 DEF OneInv
<1>6. QED BY <1>4, <1>5

(* An attempt that has passed leads to the verdict of its round; without    *)
(* one, the next attempt is made, or none.                                  *)
LEMMA DecidesStep ==
  ASSUME Inv, OneInv, OneWorker, NEW w \in Workers, Work(w),
         Recover(w) \/ GiveUp(w) \/ Gather(w) \/ Build(w) \/ Stop(w) \/ Settle(w)
  PROVE  OneInv'
<1>1. loop \in [Workers -> Worker] /\ loop[w] \in Worker
  BY DEF Inv, TypeOK
<1>2. UNCHANGED <<attempts, committed>> /\ ThisRound(w) = RoundFor(loop[w])
  BY DEF Recover, GiveUp, Gather, Build, Stop, Settle, tables, ThisRound, RoundFor
<1>3. PICK l : l = loop'[w]
  OBVIOUS
<1>4. loop[w].pc \in {"decide", "build", "settle"} /\ loop[w].r \in Researches
  BY Locals DEF Recover, GiveUp, Gather, Build, Stop, Settle
<1>5. Tries(loop[w])
  BY <1>4 DEF OneInv, WorkersTry
<1>6. Tries(l)
  <2>1. CASE Recover(w)
    <3>1. l.pc = "settle" /\ RoundFor(l) = RoundFor(loop[w])
      BY <1>1, <1>3, <2>1 DEF Recover, Goto, Worker, RoundFor
    <3>2. QED BY <1>2, <2>1, <3>1 DEF Recover, Recovered, Tries
  <2>2. CASE GiveUp(w)
    <3>1. l.pc = "finish" /\ ~l.out.round
      BY <1>1, <1>3, <2>2 DEF GiveUp, Worker
    <3>2. QED BY <3>1 DEF Tries
  <2>3. CASE Gather(w)
    <3>1. l.pc = "build" /\ RoundFor(l) = RoundFor(loop[w]) /\ l.n = NextAttempt(w)
      BY <1>1, <1>3, <2>3 DEF Gather, Worker, RoundFor
    <3>2. \A a \in AttemptsAt(RoundFor(l)) : ~a.passed
      BY <1>2, <2>3, <3>1 DEF Gather, Recovered
    <3>3. l.n = Cardinality(AttemptsAt(RoundFor(l))) + 1
      BY <1>2, <3>1, <3>2, AttemptsCounted DEF NextAttempt
    <3>4. QED BY <3>1, <3>2, <3>3 DEF Tries
  <2>4. CASE Build(w)
    <3>1. l.pc = "review" /\ RoundFor(l) = RoundFor(loop[w]) /\ l.n = loop[w].n /\ l.r = loop[w].r
      BY <1>1, <1>3, <2>4 DEF Build, Goto, Worker, RoundFor
    <3>2. QED BY <1>5, <2>4, <3>1 DEF Build, Tries
  <2>5. CASE Stop(w)
    <3>1. PICK s : loop' = [loop EXCEPT ![w].pc = "finish", ![w].out = [NoOutcome EXCEPT !.st = s]]
      BY <2>5 DEF Stop
    <3>2. ~[NoOutcome EXCEPT !.st = s].round
      BY DEF NoOutcome
    <3>3. l.pc = "finish" /\ l.out = [NoOutcome EXCEPT !.st = s]
      BY <1>1, <1>3, <3>1 DEF Worker
    <3>4. QED BY <3>2, <3>3 DEF Tries
  <2>6. CASE Settle(w)
    <3>1. l.pc = "finish" /\ RoundFor(l) = RoundFor(loop[w]) /\ l.r = loop[w].r
      BY <1>1, <1>3, <2>6 DEF Settle, Worker, RoundFor
    <3>2. QED BY <1>5, <2>6, <3>1 DEF Settle, Tries
  <2>7. QED BY <2>1, <2>2, <2>3, <2>4, <2>5, <2>6
<1>7. QED BY <1>2, <1>3, <1>6, NeverBack, NothingTried

(* The attempt a worker makes is the next one, and recorded.                *)
LEMMA RecordedIs ==
  ASSUME Inv, OneInv, NEW w \in Workers, loop[w].pc = "review", Live(loop[w].r),
         NEW passed \in BOOLEAN
  PROVE  LET x == RoundFor(loop[w])
             a == [r |-> x.r, ver |-> x.ver, round |-> x.round, n |-> loop[w].n,
                   passed |-> passed]
         IN  /\ Reviewed(w, passed) = attempts \cup {a} /\ a \notin attempts
             /\ x \in RoundId /\ InOrder(x)
             /\ loop[w].n = Cardinality(AttemptsAt(x)) + 1 /\ loop[w].n \in 1..MaxFailures
             /\ \A b \in AttemptsAt(x) : ~b.passed
<1> DEFINE x == RoundFor(loop[w])
           a == [r |-> x.r, ver |-> x.ver, round |-> x.round, n |-> loop[w].n,
                 passed |-> passed]
<1>1. /\ loop[w] \in Worker /\ loop[w].r \in Researches /\ Holds(loop[w], stale[w])
      /\ loop[w].n \in 0..MaxFailures
  BY Locals DEF Inv, WorkersHold
<1>2. ThisRound(w) = x /\ x \in RoundId
  BY <1>1, RoundsAre DEF ThisRound, RoundFor, Going
<1>3. Tries(loop[w])
  BY <1>1 DEF OneInv, WorkersTry
<1>4. /\ loop[w].n = Cardinality(AttemptsAt(x)) + 1
      /\ \A b \in AttemptsAt(x) : ~b.passed
  BY <1>3 DEF Tries
<1>5. x.r = loop[w].r
  BY DEF RoundFor
<1>6. InOrder(x)
  BY <1>2, <1>5 DEF OneInv, AllInOrder
<1> HIDE DEF x
<1>7. Cardinality(AttemptsAt(x)) \in Nat
  BY AttemptsCounted
<1>8. \A b \in AttemptsAt(x) : b.n # loop[w].n
  <2>1. ASSUME NEW b \in AttemptsAt(x) PROVE b.n # loop[w].n
    <3>1. b.n \in 1..Cardinality(AttemptsAt(x))
      BY <1>6 DEF InOrder
    <3>2. QED BY <1>4, <1>7, <3>1
  <2>2. QED BY <2>1
<1>9. Reviewed(w, passed) = attempts \cup {a}
  BY <1>2, <1>8 DEF Reviewed
<1>10. a \notin attempts
  BY <1>8 DEF AttemptsAt
<1>11. loop[w].n \in 1..MaxFailures
  BY <1>1, <1>4, <1>7, LoopAssumption
<1>12. QED BY <1>2, <1>4, <1>6, <1>9, <1>10, <1>11 DEF x

(* The attempt at a live research: it is the next one at its round, and     *)
(* what follows it fits what it came to (subagent.py:1).                    *)
LEMMA TriedStep ==
  ASSUME Inv, OneInv, OneWorker, NEW w \in Workers, Work(w), Review(w), Live(loop[w].r)
  PROVE  OneInv'
<1>1. loop \in [Workers -> Worker] /\ loop[w].pc = "review" /\ loop[w].r \in Researches
  BY Locals DEF Inv, TypeOK, Review
<1>2. PICK passed \in BOOLEAN :
         /\ attempts' = Reviewed(w, passed)
         /\ \/ passed /\ Goto(w, "settle")
            \/ /\ ~passed /\ loop[w].n < MaxFailures
               /\ loop' = [loop EXCEPT ![w].pc = "build", ![w].n = @ + 1]
            \/ /\ ~passed /\ loop[w].n = MaxFailures
               /\ \E s \in {"running", "awaiting"} :
                     loop' = [loop EXCEPT ![w].pc = "finish",
                                          ![w].out = [NoOutcome EXCEPT !.st = s]]
  BY DEF Review
<1>3. PICK x : x = RoundFor(loop[w])
  OBVIOUS
<1>4. PICK a : a = [r |-> x.r, ver |-> x.ver, round |-> x.round, n |-> loop[w].n,
                    passed |-> passed]
  OBVIOUS
<1>5. /\ attempts' = attempts \cup {a} /\ a \notin attempts
      /\ x \in RoundId /\ InOrder(x)
      /\ loop[w].n = Cardinality(AttemptsAt(x)) + 1 /\ loop[w].n \in 1..MaxFailures
      /\ \A b \in AttemptsAt(x) : ~b.passed
  BY <1>1, <1>2, <1>3, <1>4, RecordedIs
<1>6. AttemptsAt(x)' = AttemptsAt(x) \cup {a} /\ a \notin AttemptsAt(x)
  BY <1>4, <1>5 DEF AttemptsAt
<1>7. \A y \in RoundId : y # x => AttemptsAt(y)' = AttemptsAt(y)
  <2>1. ASSUME NEW y \in RoundId, y # x PROVE AttemptsAt(y)' = AttemptsAt(y)
    <3>1. ~(a.r = y.r /\ a.ver = y.ver /\ a.round = y.round)
      BY <1>4, <1>5, <2>1 DEF RoundId
    <3>2. QED BY <1>5, <3>1 DEF AttemptsAt
  <2>2. QED BY <2>1
<1>8. /\ Cardinality(AttemptsAt(x)) \in Nat /\ IsFiniteSet(AttemptsAt(x))
      /\ Cardinality(AttemptsAt(x)') = Cardinality(AttemptsAt(x)) + 1
  BY <1>6, AttemptsCounted, FS_AddElement
<1>9. a.n = Cardinality(AttemptsAt(x)') /\ a.passed = passed
  BY <1>4, <1>5, <1>8
<1>10. InOrder(x)'
  <2>1. {b.n : b \in AttemptsAt(x)'} = {b.n : b \in AttemptsAt(x)} \cup {a.n}
    BY <1>6
  <2>2. {b.n : b \in AttemptsAt(x)} = 1..Cardinality(AttemptsAt(x))
    BY <1>5 DEF InOrder
  <2>3. {b.n : b \in AttemptsAt(x)'} = 1..Cardinality(AttemptsAt(x)')
    <3>1. PICK k \in Nat : k = Cardinality(AttemptsAt(x))
      BY <1>8
    <3>2. Cardinality(AttemptsAt(x)') = k + 1 /\ a.n = k + 1
      BY <1>8, <1>9, <3>1
    <3>3. 1..(k + 1) = (1..k) \cup {k + 1}
      OBVIOUS
    <3>4. QED BY <2>1, <2>2, <3>1, <3>2, <3>3
  <2>4. Cardinality(AttemptsAt(x)') <= MaxFailures
    BY <1>5, <1>8, LoopAssumption
  <2>5. \A b \in AttemptsAt(x)' : b.passed => b.n = Cardinality(AttemptsAt(x)')
    BY <1>5, <1>6, <1>9
  <2>6. QED BY <2>3, <2>4, <2>5 DEF InOrder
<1>11. AllInOrder'
  <2>1. ASSUME NEW y \in RoundId, Live(y.r)', y # x PROVE InOrder(y)'
    <3>1. InOrder(y)
      BY <2>1, NeverBack DEF OneInv, AllInOrder, RoundId
    <3>2. QED BY <1>7, <2>1, <3>1 DEF InOrder
  <2>2. QED BY <1>10, <2>1 DEF AllInOrder
<1>12. CommittedWasReviewed'
  <2>1. committed' = committed /\ \A y : AttemptsAt(y) \subseteq AttemptsAt(y)'
    BY <1>5 DEF Review, AttemptsAt
  <2>2. QED BY <2>1 DEF OneInv, CommittedWasReviewed
<1>13. PICK l : l = loop'[w]
  OBVIOUS
<1>14. RoundFor(l) = x /\ l.r = loop[w].r
  BY <1>1, <1>2, <1>3, <1>13 DEF Goto, Worker, RoundFor
<1>15. /\ l.pc \in {"build", "review"} => /\ l.n = Cardinality(AttemptsAt(x)') + 1
                                          /\ \A b \in AttemptsAt(x)' : ~b.passed
       /\ l.pc = "settle" \/ (l.pc = "finish" /\ l.out.round) =>
             \E b \in AttemptsAt(x)' : b.passed
  <2>1. CASE passed /\ Goto(w, "settle")
    <3>1. l.pc = "settle"
      BY <1>1, <1>13, <2>1 DEF Goto, Worker
    <3>2. QED BY <1>6, <1>9, <2>1, <3>1
  <2>2. CASE ~passed /\ loop' = [loop EXCEPT ![w].pc = "build", ![w].n = @ + 1]
    <3>1. l.pc = "build" /\ l.n = loop[w].n + 1
      BY <1>1, <1>13, <2>2 DEF Worker
    <3>2. \A b \in AttemptsAt(x)' : ~b.passed
      BY <1>5, <1>6, <1>9, <2>2
    <3>3. QED BY <1>5, <1>8, <3>1, <3>2
  <2>3. ASSUME NEW s, loop' = [loop EXCEPT ![w].pc = "finish",
                                           ![w].out = [NoOutcome EXCEPT !.st = s]]
        PROVE  <1>15
    <3>1. ~[NoOutcome EXCEPT !.st = s].round
      BY DEF NoOutcome
    <3>2. l.pc = "finish" /\ l.out = [NoOutcome EXCEPT !.st = s]
      BY <1>1, <1>13, <2>3 DEF Worker
    <3>3. QED BY <3>1, <3>2
  <2>4. QED BY <1>2, <2>1, <2>2, <2>3
<1>16. Tries(loop[w])'
  BY <1>13, <1>14, <1>15 DEF Tries
<1>17. QED BY <1>11, <1>12, <1>16 DEF OneInv, WorkersTry, OneWorker

(* An attempt at a research that was deleted in the meantime.               *)
LEMMA TriedInVainStep ==
  ASSUME Inv, OneInv, OneWorker, NEW w \in Workers, Work(w), Review(w), ~Live(loop[w].r)
  PROVE  OneInv'
<1>1. /\ loop \in [Workers -> Worker] /\ row' = row /\ committed' = committed
      /\ \E passed \in BOOLEAN : attempts' = Reviewed(w, passed)
  BY DEF Inv, TypeOK, Review
<1>2. /\ attempts \subseteq attempts'
      /\ \A a \in attempts' : a \in attempts \/ a.r = loop[w].r
  BY <1>1 DEF Reviewed, ThisRound
<1>3. loop'[w].r = loop[w].r
  BY <1>1 DEF Review, Goto, Worker
<1>4. WorkersTry'
  <2>1. Tries(loop[w])'
    BY <1>1, <1>3 DEF Tries, Live
  <2>2. QED BY <2>1 DEF WorkersTry, OneWorker
<1>5. AllInOrder'
  <2>1. ASSUME NEW y \in RoundId, Live(y.r)' PROVE InOrder(y)'
    <3>1. Live(y.r) /\ y.r # loop[w].r
      BY <1>1, <2>1 DEF Live
    <3>2. AttemptsAt(y)' = AttemptsAt(y)
      BY <1>2, <3>1 DEF AttemptsAt
    <3>3. InOrder(y)
      BY <2>1, <3>1 DEF OneInv, AllInOrder
    <3>4. QED BY <3>2, <3>3 DEF InOrder
  <2>2. QED BY <2>1 DEF AllInOrder
<1>6. CommittedWasReviewed'
  <2>1. \A y : AttemptsAt(y) \subseteq AttemptsAt(y)'
    BY <1>2 DEF AttemptsAt
  <2>2. QED BY <1>1, <2>1 DEF OneInv, CommittedWasReviewed
<1>7. QED BY <1>4, <1>5, <1>6 DEF OneInv

(* A step of the one worker.                                                *)
LEMMA OneWorkStep ==
  ASSUME Inv, OneInv, OneWorker, NEW w \in Workers, Work(w)
  PROVE  OneInv'
<1>1. Sweep(w) \/ Tick(w)
  BY DEF Work
<1>2. \/ Leaves(w) \/ Review(w)
      \/ Recover(w) \/ GiveUp(w) \/ Gather(w) \/ Build(w) \/ Stop(w) \/ Settle(w)
  BY <1>1 DEF Sweep, Tick, Leaves
<1>3. QED BY <1>2, LeavesStep, TriedStep, TriedInVainStep, DecidesStep

(* A deletion takes the attempts of the research away with its rounds.      *)
LEMMA OneDeleteStep ==
  ASSUME Inv, OneInv, NEW r \in Researches, Delete(r)
  PROVE  OneInv'
<1>1. /\ row \in [Researches -> Row] /\ row' = [row EXCEPT ![r] = [NewRow EXCEPT !.st = "none"]]
      /\ attempts' = {a \in attempts : a.r # r} /\ committed' = {x \in committed : x.r # r}
      /\ loop' = loop /\ committed \subseteq RoundId
  BY DEF Inv, TypeOK, Delete
<1>2. \A q \in Researches : Live(q)' => Live(q) /\ q # r
  BY <1>1 DEF Live, NewRow
<1>3. \A y : y.r # r => AttemptsAt(y)' = AttemptsAt(y)
  BY <1>1 DEF AttemptsAt
<1>4. WorkersTry'
  <2>1. ASSUME NEW v \in Workers, loop[v].r \in Researches,
               row'[loop[v].r].st # "none"
        PROVE  Tries(loop[v])'
    <3>1. PICK y : y = RoundFor(loop[v])
      OBVIOUS
    <3>2. y.r = loop[v].r
      BY <3>1 DEF RoundFor
    <3>3. Live(loop[v].r) /\ loop[v].r # r
      BY <1>2, <2>1 DEF Live
    <3>4. AttemptsAt(y)' = AttemptsAt(y)
      BY <1>3, <3>2, <3>3
    <3>5. Tries(loop[v])
      BY <2>1 DEF OneInv, WorkersTry
    <3>6. QED BY <1>1, <3>1, <3>3, <3>4, <3>5 DEF Tries, RoundFor
  <2>2. QED BY <1>1, <2>1 DEF WorkersTry, Tries, Live
<1>5. AllInOrder'
  <2>1. ASSUME NEW y \in RoundId, Live(y.r)' PROVE InOrder(y)'
    <3>1. Live(y.r) /\ AttemptsAt(y)' = AttemptsAt(y)
      BY <1>2, <1>3, <2>1 DEF RoundId
    <3>2. InOrder(y)
      BY <2>1, <3>1 DEF OneInv, AllInOrder
    <3>3. QED BY <3>1, <3>2 DEF InOrder
  <2>2. QED BY <2>1 DEF AllInOrder
<1>6. CommittedWasReviewed'
  BY <1>1, <1>3 DEF OneInv, CommittedWasReviewed
<1>7. QED BY <1>4, <1>5, <1>6 DEF OneInv

(* A step that leaves the workers, the attempts and the rounds alone.       *)
LEMMA NobodyTries ==
  ASSUME OneInv, UNCHANGED <<attempts, committed, loop>>,
         \A r \in Researches : Live(r)' => Live(r)
  PROVE  OneInv'
<1>1. \A x : AttemptsAt(x)' = AttemptsAt(x)
  BY DEF AttemptsAt
<1>2. WorkersTry'
  <2>1. ASSUME NEW v \in Workers, loop[v].r \in Researches PROVE Tries(loop[v])'
    <3>1. Tries(loop[v])
      BY <2>1 DEF OneInv, WorkersTry
    <3>2. QED BY <1>1, <2>1, <3>1 DEF Tries, RoundFor
  <2>2. QED BY <2>1 DEF WorkersTry
<1>3. AllInOrder'
  BY <1>1 DEF OneInv, AllInOrder, InOrder, RoundId
<1>4. CommittedWasReviewed'
  BY <1>1 DEF OneInv, CommittedWasReviewed
<1>5. QED BY <1>2, <1>3, <1>4 DEF OneInv

(* A step of the user.                                                      *)
LEMMA OneUserStep ==
  ASSUME Inv, OneInv, User
  PROVE  OneInv'
<1>1. row \in [Researches -> Row]
  BY DEF Inv, TypeOK
<1>2. ASSUME NEW r \in Researches, NEW c, NEW from, NEW new, "none" \notin from,
             Command(c, r, from, new)
      PROVE  OneInv'
  <2>1. /\ UNCHANGED <<attempts, committed, loop>>
        /\ row' = [row EXCEPT ![r] = new] /\ row[r].st # "none"
    BY <1>2 DEF Command
  <2>2. \A q \in Researches : Live(q)' => Live(q)
    BY <1>1, <2>1 DEF Live
  <2>3. QED BY <2>1, <2>2, NobodyTries
<1>3. CASE \E r \in Researches : Delete(r)
  BY <1>3, OneDeleteStep
<1>4. CASE SendDialogue \/ \E r \in Researches : DeleteRefused(r)
  <2>1. UNCHANGED <<row, attempts, committed, loop>>
    BY <1>4 DEF SendDialogue, DeleteRefused, tables
  <2>2. QED BY <2>1, NobodyTries DEF Live
<1>5. CASE \E r \in Researches : ConfirmRun(r) \/ Pause(r) \/ Resume(r) \/ Approve(r)
                                  \/ Reject(r)
  BY <1>2, <1>5 DEF ConfirmRun, Pause, Resume, Approve, Reject
<1>6. CASE \E r \in Researches : ConfirmPause(r) \/ ContinueIterate(r) \/ Reopen(r)
  BY <1>2, <1>6 DEF ConfirmPause, ContinueIterate, Reopen
<1>7. QED BY <1>3, <1>4, <1>5, <1>6 DEF User, UserStep

(* The process ends or starts: no worker holds a round.                     *)
LEMMA OneProcessStep ==
  ASSUME Inv, OneInv, (\E w \in Workers : up /\ Exit(w)) \/ Crash \/ Restart
  PROVE  OneInv'
<1>1. UNCHANGED <<row, attempts, committed>>
  BY DEF Exit, Crash, Restart, tables
<1>2. CASE Restart
  BY <1>1, <1>2, NobodyTries DEF Restart, Live
<1>3. CASE Stopped
  <2>1. \A x : AttemptsAt(x)' = AttemptsAt(x)
    BY <1>1 DEF AttemptsAt
  <2>2. WorkersTry'
    BY <1>3, LoopAssumption DEF Stopped, WorkersTry, IdleWorker
  <2>3. AllInOrder' /\ CommittedWasReviewed'
    BY <1>1, <2>1 DEF OneInv, AllInOrder, InOrder, CommittedWasReviewed, Live
  <2>4. QED BY <2>2, <2>3 DEF OneInv
<1>4. QED BY <1>2, <1>3 DEF Exit, Crash

(* No attempt has been made when the engine is first started.               *)
LEMMA InitOne == Init => OneInv
<1> SUFFICES ASSUME Init PROVE OneInv
  OBVIOUS
<1>1. \A x : AttemptsAt(x) = {}
  BY DEF Init, AttemptsAt
<1>2. WorkersTry
  BY LoopAssumption DEF Init, WorkersTry, IdleWorker
<1>3. AllInOrder
  <2>1. ASSUME NEW x PROVE InOrder(x)
    BY <1>1, FS_EmptySet, LoopAssumption DEF InOrder
  <2>2. QED BY <2>1 DEF AllInOrder
<1>4. CommittedWasReviewed
  BY DEF Init, CommittedWasReviewed
<1>5. QED BY <1>2, <1>3, <1>4 DEF OneInv

(* Every step keeps what one worker does of its attempts.                   *)
LEMMA OneNext == OneWorker /\ Inv /\ OneInv /\ [Next]_vars => OneInv'
<1> SUFFICES ASSUME OneWorker, Inv, OneInv, [Next]_vars PROVE OneInv'
  OBVIOUS
<1>1. CASE UNCHANGED vars
  BY <1>1, NobodyTries DEF vars, Live
<1>2. QED BY <1>1, OneWorkStep, OneUserStep, OneProcessStep DEF Next

(* Of a live research the attempts at a round are in order.                 *)
LEMMA InOrderMeans == Inv /\ OneInv => AttemptsInOrder
<1> SUFFICES ASSUME Inv, OneInv, NEW a \in attempts, Live(a.r)
             PROVE  LET all == AttemptsAt([r |-> a.r, ver |-> a.ver, round |-> a.round])
                    IN /\ {b.n : b \in all} = 1..Cardinality(all)
                       /\ Cardinality(all) <= MaxFailures
                       /\ a.passed => a.n = Cardinality(all)
  BY DEF AttemptsInOrder
<1>1. PICK x : x = [r |-> a.r, ver |-> a.ver, round |-> a.round]
  OBVIOUS
<1>2. x \in RoundId /\ x.r = a.r
  BY <1>1 DEF Inv, TypeOK, Attempt, RoundId
<1>3. InOrder(x)
  BY <1>2 DEF OneInv, AllInOrder
<1>4. a \in AttemptsAt(x)
  BY <1>1 DEF AttemptsAt
<1>5. QED BY <1>1, <1>3, <1>4 DEF InOrder

(* With the one worker that serve starts: what is committed passed its      *)
(* review beforehand, and what has a receipt was committed (loop.py:1043).  *)
THEOREM RoundsAreEarnedAlways == OneWorker => (Spec => []RoundsAreEarned)
<1> SUFFICES ASSUME OneWorker PROVE Spec => []RoundsAreEarned
  OBVIOUS
<1>1. Inv /\ OneInv => RoundsAreEarned
  BY DEF Inv, OneInv, RoundsAreEarned
<1>2. Inv /\ OneInv /\ [Next]_vars => OneInv'
  BY OneNext
<1>3. QED BY <1>1, <1>2, InitOne, InvAlways, PTL DEF Spec

(* With the one worker that serve starts: rows, rounds and attempts agree,  *)
(* no attempt is numbered twice or made after one that passed, and no more  *)
(* than MaxFailures are made at a round (subagent.py:1).                    *)
THEOREM RecordsAgreeAlways == OneWorker => (Spec => []RecordsAgree)
<1> SUFFICES ASSUME OneWorker PROVE Spec => []RecordsAgree
  OBVIOUS
<1>1. Inv /\ OneInv => RecordsAgree
  BY InOrderMeans DEF Inv, RecordsAgree
<1>2. Inv /\ OneInv /\ [Next]_vars => OneInv'
  BY OneNext
<1>3. QED BY <1>1, <1>2, InitOne, InvAlways, PTL DEF Spec
=============================================================================
