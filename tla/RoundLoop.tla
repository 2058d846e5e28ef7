----------------------------- MODULE RoundLoop -----------------------------
(***************************************************************************)
(* How the engine's loop takes a running research through its rounds,      *)
(* while the user goes on pausing, reopening and deleting it over HTTP,    *)
(* and while the process may die between any two SQLite transactions.      *)
(*                                                                         *)
(* Sources: engine/main.py (serve, advance_running_research),              *)
(* engine/research/loop.py (_run_once_bound), engine/review/subagent.py    *)
(* (run_review_gate), engine/research/round_store.py (the round commit,    *)
(* receipts, the lease), engine/research/run_errors.py,                    *)
(* engine/research/removal.py and the audit of dialogue_rollout.py.        *)
(*                                                                         *)
(* serve runs one worker; a second one stands for a duplicate tick.  A     *)
(* step is one transaction, or one call of the builder or of the reviewer. *)
(*                                                                         *)
(* Abstractions.  All researches use one data window.  A command of the    *)
(* user is one step: module CommandJournal shows that the journal makes it *)
(* one.  A compare-and-set needs to know only which columns changed since  *)
(* the worker read them (stale).  A candidate is named by the attempt that *)
(* tried it, so committed_candidate adds nothing to committed_round, and   *)
(* window_round_ledger is written and deleted with committed_round.        *)
(* current_action is left out: writing it touches updated_at.              *)
(***************************************************************************)
EXTENDS Integers, FiniteSets

CONSTANTS
    Researches,    \* research ids
    Workers,       \* threads that tick researches
    None,          \* no research
    Commands,      \* what the user and the environment may do
    MaxFailures,   \* MAX_CONSECUTIVE_REVIEW_FAILURES
    MaxErrors,     \* max_consecutive_run_errors()
    Budget,        \* implementation_trial_budget of a new research
    MaxBudget,     \* bound: the budget that continue_iterate may reach
    MaxVersion,    \* bound: versions the user opens
    MaxCrashes,    \* bound: crashes of the process
    SameError,     \* may a failure repeat, or change, its message
    SecretGate     \* what secret_gate, or an unknown revision, may answer

Status == {"none", "draft", "running", "paused", "awaiting", "completed",
           "ended"}
CommandName == {"confirm_run", "pause", "resume", "approve", "reject",
                "confirm_pause", "continue_iterate", "reopen", "delete",
                "delete_busy", "send_dialogue", "db_busy"}
Column == {"updated_at", "revision"}
Pc == {"idle", "next", "audit", "load", "enter", "decide", "build", "review",
       "settle", "finish", "receipt", "fail", "fail_save", "release"}

ASSUME LoopAssumption ==
    /\ None \notin Researches
    /\ Commands \subseteq CommandName
    /\ MaxFailures \in Nat \ {0} /\ MaxErrors \in Nat \ {0}
    /\ Budget \in Nat /\ MaxBudget \in Nat /\ MaxVersion \in Nat \ {0}
    /\ MaxCrashes \in Nat
    /\ SameError \subseteq BOOLEAN
    /\ SecretGate \subseteq {"ok", "wait", "pause"}

VARIABLES
    row,        \* table researches: status, current version, its rounds, ...
    attempts,   \* table review_attempts
    committed,  \* tables committed_round and window_round_ledger
    windowM,    \* data_window_round_counts: rounds tried on the window
    receipts,   \* table round_receipt
    lease,      \* table compute_lease
    gate,       \* table dialogue_write_gate: "open" or the first reason
    removed,    \* in memory: ids whose deletion began
    up,         \* whether the engine runs
    loop,       \* what each worker is doing
    stale,      \* columns of its research changed since the worker read them
    crashes,    \* crashes so far
    history,    \* every round ever committed, deleted researches included
    tried       \* researches built for since the user last set them running

tables == <<row, attempts, committed, windowM, receipts, lease, gate>>
ghosts == <<history, tried>>
vars == <<row, attempts, committed, windowM, receipts, lease, gate, removed,
          up, loop, stale, crashes, history, tried>>

-----------------------------------------------------------------------------
(* Records *)

\* errs counts the run failures in a row that had the stored message; a
\* pause of the tick for another reason stores another message.
Row == [st: Status, ver: 0..MaxVersion, rounds: Nat, budget: Nat,
        errs: 0..MaxErrors]
NewRow == [st |-> "draft", ver |-> 0, rounds |-> 0, budget |-> Budget,
           errs |-> 0]

RoundId == [r: Researches, ver: 1..MaxVersion, round: Nat \ {0}]
Attempt == [r: Researches, ver: 1..MaxVersion, round: Nat \ {0},
            n: 1..MaxFailures, passed: BOOLEAN]

\* What a tick decided: the status, whether a round goes with it, and
\* whether it gives up on the round for its failed attempts.
Outcome == [st: Status, round: BOOLEAN, exhausted: BOOLEAN]
NoOutcome == [st |-> "none", round |-> FALSE, exhausted |-> FALSE]

\* The local variables of a tick: the row it loaded and the attempt number.
Worker == [pc: Pc, todo: SUBSET Researches, r: Researches \cup {None},
           snap: Row, n: 0..MaxFailures, out: Outcome]
IdleWorker == [pc |-> "idle", todo |-> {}, r |-> None, snap |-> NewRow,
               n |-> 0, out |-> NoOutcome]

Live(r) == row[r].st # "none"
RoundsOf(r) == {x \in committed : x.r = r}

\* The round a worker is working on, and the attempts made at it.
ThisRound(w) == [r |-> loop[w].r, ver |-> loop[w].snap.ver,
                 round |-> loop[w].snap.rounds + 1]
AttemptsAt(x) ==
    {a \in attempts : a.r = x.r /\ a.ver = x.ver /\ a.round = x.round}
FailuresAt(x) == Cardinality({a \in AttemptsAt(x) : ~a.passed})

-----------------------------------------------------------------------------
(* Steps shared by the actions *)

\* Another write: every other worker on r now holds old columns.
Touch(r, others, columns) ==
    stale' = [w \in Workers |->
                IF w \in others /\ loop[w].r = r THEN stale[w] \cup columns
                                                 ELSE stale[w]]
Others(w) == Workers \ {w}

Goto(w, pc) == loop' = [loop EXCEPT ![w].pc = pc]

\* abort_if_removed, or the row is gone when it is loaded again.
Gone(w) == loop[w].r \in removed \/ ~Live(loop[w].r)

\* store.save of the worker: it compares updated_at only.
SaveFits(w) == "updated_at" \notin stale[w] /\ Live(loop[w].r)
Saved(w, new) ==
    /\ row' = [row EXCEPT ![loop[w].r] = new]
    /\ Touch(loop[w].r, Others(w), {"updated_at"})

-----------------------------------------------------------------------------
(* The sweep of serve and the lease *)

Running == {r \in Researches : row[r].st = "running"}

Wake(w) ==
    /\ loop[w].pc = "idle"
    /\ Running # {}
    /\ loop' = [loop EXCEPT ![w].pc = "next", ![w].todo = Running]
    /\ UNCHANGED <<tables, removed, stale, ghosts>>

SweepEnds(w) ==
    /\ loop[w].pc = "next"
    /\ loop[w].todo = {}
    /\ Goto(w, "idle")
    /\ UNCHANGED <<tables, removed, stale, ghosts>>

\* try_acquire_worker: the lease is free, or this research has it already.
Acquire(w, r) ==
    /\ loop[w].pc = "next"
    /\ r \in loop[w].todo
    /\ lease \in {None, r}
    /\ lease' = r
    /\ loop' = [loop EXCEPT ![w] = [IdleWorker EXCEPT
                   !.pc = "audit", !.r = r, !.todo = loop[w].todo \ {r}]]
    /\ UNCHANGED <<row, attempts, committed, windowM, receipts, gate, removed,
                   stale, ghosts>>

Queued(w, r) ==
    /\ loop[w].pc = "next"
    /\ r \in loop[w].todo
    /\ lease \notin {None, r}
    /\ loop' = [loop EXCEPT ![w].todo = @ \ {r}]
    /\ UNCHANGED <<tables, removed, stale, ghosts>>

\* Slip: the lease stays with the research that was ticked.
ReleaseForgotten(w) ==
    /\ loop[w].pc = "release"
    /\ loop' = [loop EXCEPT ![w] = [IdleWorker EXCEPT !.pc = "next",
                                               !.todo = loop[w].todo]]
    /\ stale' = [stale EXCEPT ![w] = {}]
    /\ UNCHANGED <<tables, removed, ghosts>>

Release(w) ==
    /\ loop[w].pc = "release"
    /\ lease' = IF lease = loop[w].r THEN None ELSE lease
    /\ loop' = [loop EXCEPT ![w] = [IdleWorker EXCEPT !.pc = "next",
                                               !.todo = loop[w].todo]]
    /\ stale' = [stale EXCEPT ![w] = {}]
    /\ UNCHANGED <<row, attempts, committed, windowM, receipts, gate, removed,
                   ghosts>>

\* audit_and_trip: the first fault it sees closes the gate for good.
MissesReceipt == \E x \in committed : x \notin receipts
CountsTwice == committed # {} /\ windowM > Cardinality(committed)
Audited ==
    IF gate # "open" THEN gate
    ELSE IF CountsTwice THEN "duplicate_m"
    ELSE IF MissesReceipt THEN "lost_committed_receipt"
    ELSE "open"

Audit(w) ==
    /\ loop[w].pc = "audit"
    /\ gate' = Audited
    /\ Goto(w, "load")
    /\ UNCHANGED <<row, attempts, committed, windowM, receipts, lease, removed,
                   stale, ghosts>>

-----------------------------------------------------------------------------
(* The head of _run_once_bound: load, back-fill, secrets, revision *)

\* _backfill_receipts: every round the research holds has a receipt.
Backfilled(r) == receipts \cup RoundsOf(r)

\* A row that is gone is a cancellation.  The research is loaded with its
\* updated_at, and rounds it holds without a receipt get one.
Load(w) ==
    LET r == loop[w].r IN
    /\ loop[w].pc = "load"
    /\ IF Gone(w)
       THEN /\ Goto(w, "release")
            /\ UNCHANGED <<receipts, stale>>
       ELSE /\ receipts' = Backfilled(r)
            /\ stale' = [stale EXCEPT ![w] = {}]
            /\ loop' = [loop EXCEPT ![w].pc = "enter", ![w].snap = row[r]]
    /\ UNCHANGED <<row, attempts, committed, windowM, lease, gate, removed,
                   ghosts>>

\* A write of the tick outside the round commit.  A lost compare-and-set is
\* ConcurrentWrite: a run failure, unless the research was removed.
SaveOrFail(w, new) ==
    \/ /\ SaveFits(w)
       /\ Saved(w, new)
       /\ Goto(w, "release")
    \/ /\ ~SaveFits(w)
       /\ Goto(w, IF Gone(w) THEN "release" ELSE "fail")
       /\ UNCHANGED <<row, stale>>

\* Only a running research goes on, when its revisions are known and the
\* secrets it needs are there.  Otherwise the tick sets current_action idle
\* (it may be already), waits or pauses.  The revision is read on its own,
\* after the row.
Enter(w) ==
    LET r == loop[w].r
        snap == loop[w].snap
    IN
    /\ loop[w].pc = "enter"
    /\ \/ /\ snap.st # "running"
          /\ \/ SaveOrFail(w, row[r])
             \/ Goto(w, "release") /\ UNCHANGED <<row, stale>>
       \/ /\ snap.st = "running"
          /\ "wait" \in SecretGate
          /\ Goto(w, "release")
          /\ UNCHANGED <<row, stale>>
       \/ /\ snap.st = "running"
          /\ "pause" \in SecretGate
          /\ SaveOrFail(w, [snap EXCEPT !.st = "paused", !.errs = 0])
       \/ /\ snap.st = "running"
          /\ "ok" \in SecretGate
          /\ Goto(w, "decide")
          /\ stale' = [stale EXCEPT ![w] = @ \ {"revision"}]
          /\ UNCHANGED row
    /\ UNCHANGED <<attempts, committed, windowM, receipts, lease, gate,
                   removed, ghosts>>

-----------------------------------------------------------------------------
(* One round: recover it, give it up, or build and review attempts *)

\* persist_action: store the new action against the updated_at the tick
\* holds; it may raise ConcurrentWrite instead (Raise).
Emit(w) ==
    /\ SaveFits(w)
    /\ Touch(loop[w].r, Others(w), {"updated_at"})

\* Slip: a tick does not ask for an attempt that passed.
RecoversNothing(w) == FALSE

\* An attempt that passed is never made again.
Recovered(w) == \E a \in AttemptsAt(ThisRound(w)) : a.passed

Recover(w) ==
    /\ loop[w].pc = "decide"
    /\ Recovered(w)
    /\ Goto(w, "settle")
    /\ UNCHANGED <<tables, removed, stale, ghosts>>

\* The failures of earlier ticks and of earlier processes count.
Exhausted(w) == FailuresAt(ThisRound(w)) >= MaxFailures

\* Paused for the failed attempts, or ended when the time is used up too.
GiveUp(w) ==
    /\ loop[w].pc = "decide"
    /\ ~Recovered(w)
    /\ Exhausted(w)
    /\ \E s \in {"paused", "ended"} :
          loop' = [loop EXCEPT
                     ![w].pc = "finish",
                     ![w].out = [st |-> s, round |-> FALSE,
                                 exhausted |-> s = "paused"]]
    /\ UNCHANGED <<tables, removed, stale, ghosts>>

\* Slip: a tick numbers its attempts from one again.
NumbersAfresh(w) == 1

NextAttempt(w) == FailuresAt(ThisRound(w)) + 1

Gather(w) ==
    /\ loop[w].pc = "decide"
    /\ ~Recovered(w)
    /\ ~Exhausted(w)
    /\ ~Gone(w)
    /\ Emit(w) \/ UNCHANGED stale   \* the action may be "gather" already
    /\ loop' = [loop EXCEPT ![w].pc = "build", ![w].n = NextAttempt(w)]
    /\ UNCHANGED <<tables, removed, ghosts>>

\* The builder, or its retry: freeze, plan, simulate and verify an attempt.
\* plan_candidate proposes none beyond the trial budget.
Build(w) ==
    /\ loop[w].pc = "build"
    /\ loop[w].snap.rounds < loop[w].snap.budget
    /\ ~Gone(w)
    /\ Emit(w)
    /\ Goto(w, "review")
    /\ tried' = tried \cup {loop[w].r}
    /\ UNCHANGED <<tables, removed, history>>

\* CandidateStop: the planner ends the search, or asks for a confirmation
\* when there is a failed round to show as evidence.
Stop(w) ==
    /\ loop[w].pc = "build"
    /\ \E s \in {"paused", "ended", "completed"} \cup
                (IF loop[w].snap.rounds > 0 THEN {"awaiting"} ELSE {}) :
          loop' = [loop EXCEPT
                     ![w].pc = "finish",
                     ![w].out = [NoOutcome EXCEPT !.st = s]]
    /\ tried' = tried \cup {loop[w].r}
    /\ UNCHANGED <<tables, removed, stale, history>>

\* Where the tick raises: the builder, the coverage floor, or a
\* persist_action that lost its compare-and-set.
Raise(w) ==
    /\ \/ loop[w].pc \in {"build", "settle"} /\ ~Gone(w)
       \/ loop[w].pc = "decide" /\ ~Recovered(w) /\ ~Exhausted(w)
                                /\ ~Gone(w) /\ ~SaveFits(w)
    /\ Goto(w, "fail")
    /\ tried' = IF loop[w].pc = "build" THEN tried \cup {loop[w].r} ELSE tried
    /\ UNCHANGED <<tables, removed, stale, history>>

\* abort_if_removed at the next persist_action or at the commit.
Abort(w) ==
    /\ loop[w].pc \in {"decide", "build", "settle", "finish"}
    /\ Gone(w)
    /\ Goto(w, "release")
    /\ UNCHANGED <<tables, removed, stale, ghosts>>

\* record_review_attempt: the first row of an attempt id stays.
Reviewed(w, passed) ==
    LET x == ThisRound(w) IN
    IF \E a \in AttemptsAt(x) : a.n = loop[w].n
    THEN attempts
    ELSE attempts \cup {[r |-> x.r, ver |-> x.ver, round |-> x.round,
                         n |-> loop[w].n, passed |-> passed]}

\* run_review_gate: a failed attempt is retried until MaxFailures of the
\* round are written; the last one continues the run, or asks the user when
\* the reviewer found that the economic logic drifted.
Review(w) ==
    /\ loop[w].pc = "review"
    /\ \E passed \in BOOLEAN :
          /\ attempts' = Reviewed(w, passed)
          /\ \/ passed /\ Goto(w, "settle")
             \/ /\ ~passed
                /\ loop[w].n < MaxFailures
                /\ loop' = [loop EXCEPT ![w].pc = "build", ![w].n = @ + 1]
             \/ /\ ~passed
                /\ loop[w].n = MaxFailures
                /\ \E s \in {"running", "awaiting"} :
                      loop' = [loop EXCEPT
                                 ![w].pc = "finish",
                                 ![w].out = [NoOutcome EXCEPT !.st = s]]
    /\ UNCHANGED <<row, committed, windowM, receipts, lease, gate, removed,
                   stale, ghosts>>

\* What follows an accepted round: coverage or the next change needs the
\* user; everything passed, or a stop; time is up; or, once the action
\* "iterate" is stored, another round while the trial budget lasts.
BudgetLasts(w) == loop[w].snap.rounds + 1 < loop[w].snap.budget

Settle(w) ==
    /\ loop[w].pc = "settle"
    /\ ~Gone(w)
    /\ \E s \in {"awaiting", "completed", "ended", "running"} :
          /\ \/ Emit(w) /\ (s = "running" => BudgetLasts(w))
             \/ UNCHANGED stale /\ s # "running"
          /\ loop' = [loop EXCEPT
                        ![w].pc = "finish",
                        ![w].out = [st |-> s, round |-> TRUE,
                                    exhausted |-> FALSE]]
    /\ UNCHANGED <<tables, removed, ghosts>>

-----------------------------------------------------------------------------
(* The round commit, its receipt, and a tick that failed *)

\* RoundReplay: the round is in committed_round already.
Replays(w) == loop[w].out.round /\ ThisRound(w) \in committed

Replay(w) ==
    /\ loop[w].pc = "finish"
    /\ ~Gone(w)
    /\ Replays(w)
    /\ receipts' = receipts \cup RoundsOf(loop[w].r)
    /\ Goto(w, "release")
    /\ UNCHANGED <<row, attempts, committed, windowM, lease, gate, removed,
                   stale, ghosts>>

\* Slip: the commit compares neither column.
CommitsBlindly(w) == Live(loop[w].r)

\* The transaction compares updated_at and revision.
CommitFits(w) == stale[w] = {} /\ Live(loop[w].r)

\* Slip: the count is stored before the compare-and-set can refuse it.
ConflictCounted(w) ==
    /\ loop[w].pc = "finish"
    /\ ~Gone(w)
    /\ ~Replays(w)
    /\ ~CommitFits(w)
    /\ windowM' = IF loop[w].out.round THEN windowM + 1 ELSE windowM
    /\ Goto(w, "release")
    /\ UNCHANGED <<row, attempts, committed, receipts, lease, gate, removed,
                   stale, ghosts>>

\* Slip: a refused commit is taken for a commit.
ConflictReceipted(w) ==
    /\ loop[w].pc = "finish"
    /\ ~Gone(w)
    /\ ~Replays(w)
    /\ ~CommitFits(w)
    /\ Goto(w, IF loop[w].out.round THEN "receipt" ELSE "release")
    /\ UNCHANGED <<tables, removed, stale, ghosts>>

\* ConcurrentWrite: the result of the tick is dropped.
Conflict(w) ==
    /\ loop[w].pc = "finish"
    /\ ~Gone(w)
    /\ ~Replays(w)
    /\ ~CommitFits(w)
    /\ Goto(w, "release")
    /\ UNCHANGED <<tables, removed, stale, ghosts>>

\* The database stayed busy for LOCAL_COMMIT_ATTEMPTS: pause the research.
Busy(w) ==
    /\ loop[w].pc = "finish"
    /\ "db_busy" \in Commands
    /\ ~Gone(w)
    /\ SaveOrFail(w, [loop[w].snap EXCEPT !.st = "paused", !.errs = 0])
    /\ UNCHANGED <<attempts, committed, windowM, receipts, lease, gate,
                   removed, ghosts>>

\* Slip: the round and its count are stored, then the process dies before
\* the transaction that stores the research.
CommitInTwo(w) ==
    /\ loop[w].pc = "finish"
    /\ loop[w].out.round
    /\ ~Gone(w)
    /\ ~Replays(w)
    /\ CommitFits(w)
    /\ committed' = committed \cup {ThisRound(w)}
    /\ windowM' = windowM + 1
    /\ history' = history \cup {ThisRound(w)}
    /\ Goto(w, "receipt")
    /\ UNCHANGED <<row, attempts, receipts, lease, gate, removed, stale, tried>>

\* One transaction: status, round, ledger, count and event; the run errors
\* are cleared.  A tick without a round leaves the tables of rounds alone.
Commit(w) ==
    LET r == loop[w].r
        out == loop[w].out
        new == IF out.round THEN {ThisRound(w)} ELSE {}
    IN
    /\ loop[w].pc = "finish"
    /\ ~Gone(w)
    /\ ~Replays(w)
    /\ CommitFits(w)
    /\ row' = [row EXCEPT ![r] =
                 [loop[w].snap EXCEPT !.st = out.st, !.errs = 0,
                                      !.rounds = @ + Cardinality(new)]]
    /\ committed' = committed \cup new
    /\ windowM' = windowM + Cardinality(new)
    /\ history' = history \cup new
    /\ Touch(r, Others(w), Column)
    /\ Goto(w, IF out.round THEN "receipt" ELSE "release")
    /\ UNCHANGED <<attempts, receipts, lease, gate, removed, tried>>

\* Slip: the receipt is left to the next tick.
ReceiptPostponed(w) ==
    /\ loop[w].pc = "receipt"
    /\ Goto(w, "release")
    /\ UNCHANGED <<tables, removed, stale, ghosts>>

\* write_round_receipt, in a transaction of its own.
WriteReceipt(w) ==
    /\ loop[w].pc = "receipt"
    /\ receipts' = receipts \cup {ThisRound(w)}
    /\ Goto(w, "release")
    /\ UNCHANGED <<row, attempts, committed, windowM, lease, gate, removed,
                   stale, ghosts>>

\* Slip: the count of failures starts again at every tick.
FailureUncounted(before, same) == [before EXCEPT !.errs = 1]

\* apply_run_failure: count identical failures of a running research and
\* pause it at the limit.
Failure(before, same) ==
    LET count == IF same /\ before.errs < MaxErrors THEN before.errs + 1
                 ELSE IF same THEN MaxErrors ELSE 1
    IN IF before.st # "running" THEN before
       ELSE [before EXCEPT !.errs = count,
                           !.st = IF count >= MaxErrors THEN "paused" ELSE @]

FailLoad(w) ==
    /\ loop[w].pc = "fail"
    /\ IF Live(loop[w].r)
       THEN /\ loop' = [loop EXCEPT ![w].pc = "fail_save",
                                   ![w].snap = row[loop[w].r]]
            /\ stale' = [stale EXCEPT ![w] = {}]
       ELSE Goto(w, "release") /\ UNCHANGED stale
    /\ UNCHANGED <<tables, removed, ghosts>>

FailSave(w) ==
    /\ loop[w].pc = "fail_save"
    /\ \/ /\ SaveFits(w)
          /\ \E same \in SameError : Saved(w, Failure(loop[w].snap, same))
       \/ ~Live(loop[w].r) /\ UNCHANGED <<row, stale>>
    /\ Goto(w, "release")
    /\ UNCHANGED <<attempts, committed, windowM, receipts, lease, gate,
                   removed, ghosts>>

-----------------------------------------------------------------------------
(* The process *)

Stopped ==
    /\ up' = FALSE
    /\ loop' = [w \in Workers |-> IdleWorker]
    /\ stale' = [w \in Workers |-> {}]
    /\ removed' = {}

\* A failure that cannot be stored, because the row changed again, leaves
\* serve: the lease is released on the way out and the process ends.
Exit(w) ==
    /\ loop[w].pc = "fail_save"
    /\ ~SaveFits(w) /\ Live(loop[w].r)
    /\ Stopped
    /\ lease' = IF lease = loop[w].r THEN None ELSE lease
    /\ UNCHANGED <<row, attempts, committed, windowM, receipts, gate, crashes,
                   ghosts>>

Crash ==
    /\ up
    /\ crashes < MaxCrashes
    /\ crashes' = crashes + 1
    /\ Stopped
    /\ UNCHANGED <<tables, ghosts>>

\* Nothing of the loop is repaired at start-up, the lease included.
Restart ==
    /\ ~up
    /\ up' = TRUE
    /\ UNCHANGED <<tables, removed, loop, stale, crashes, ghosts>>

-----------------------------------------------------------------------------
(* The user, over HTTP *)

\* A journaled command: a new row, a new updated_at and a new revision.
Command(c, r, from, new) ==
    /\ c \in Commands
    /\ row[r].st \in from
    /\ row' = [row EXCEPT ![r] = new]
    /\ Touch(r, Workers, Column)
    /\ tried' = IF new.st = "running" THEN tried \ {r} ELSE tried
    /\ UNCHANGED <<attempts, committed, windowM, receipts, lease, gate,
                   removed, loop, history>>

NextVersion(r) == [row[r] EXCEPT !.st = "running", !.ver = @ + 1,
                                 !.rounds = 0]

ConfirmRun(r) == Command("confirm_run", r, {"draft"}, NextVersion(r))
Pause(r) ==
    Command("pause", r, {"running"}, [row[r] EXCEPT !.st = "paused"])
Resume(r) ==
    Command("resume", r, {"paused"}, [row[r] EXCEPT !.st = "running"])
Approve(r) == /\ row[r].ver < MaxVersion
              /\ Command("approve", r, {"awaiting"}, NextVersion(r))
Reject(r) ==
    Command("reject", r, {"awaiting"}, [row[r] EXCEPT !.st = "running"])
ConfirmPause(r) ==
    Command("confirm_pause", r, {"awaiting"}, [row[r] EXCEPT !.st = "paused"])
ContinueIterate(r) ==
    /\ row[r].budget < MaxBudget
    /\ row[r].rounds >= row[r].budget
    /\ Command("continue_iterate", r, {"completed"},
               [row[r] EXCEPT !.st = "running", !.budget = @ + 1])
Reopen(r) == /\ row[r].ver < MaxVersion
             /\ Command("reopen", r, {"awaiting", "paused", "completed",
                                      "ended"}, NextVersion(r))

\* store.delete: mark the id removed, then delete its rows of every table
\* but the count of the window.
Delete(r) ==
    /\ "delete" \in Commands
    /\ Live(r)
    /\ removed' = removed \cup {r}
    /\ row' = [row EXCEPT ![r] = [NewRow EXCEPT !.st = "none"]]
    /\ attempts' = {a \in attempts : a.r # r}
    /\ committed' = {x \in committed : x.r # r}
    /\ receipts' = {x \in receipts : x.r # r}
    /\ lease' = IF lease = r THEN None ELSE lease
    /\ Touch(r, Workers, Column)
    /\ UNCHANGED <<windowM, gate, loop, ghosts>>

\* The transaction is refused, the id stays marked.
DeleteRefused(r) ==
    /\ "delete_busy" \in Commands
    /\ Live(r)
    /\ removed' = removed \cup {r}
    /\ UNCHANGED <<tables, loop, stale, ghosts>>

\* send_dialogue runs the audit of the loop on a connection of its own.
SendDialogue ==
    /\ "send_dialogue" \in Commands
    /\ gate' = Audited
    /\ UNCHANGED <<row, attempts, committed, windowM, receipts, lease, removed,
                   loop, stale, ghosts>>

-----------------------------------------------------------------------------
(* The specification *)

Init ==
    /\ row = [r \in Researches |-> NewRow]
    /\ attempts = {}
    /\ committed = {}
    /\ windowM = 0
    /\ receipts = {}
    /\ lease = None
    /\ gate = "open"
    /\ removed = {}
    /\ up = TRUE
    /\ loop = [w \in Workers |-> IdleWorker]
    /\ stale = [w \in Workers |-> {}]
    /\ crashes = 0
    /\ history = {}
    /\ tried = {}

Tick(w) ==
    \/ Load(w) \/ Enter(w) \/ Recover(w) \/ GiveUp(w) \/ Gather(w)
    \/ Build(w) \/ Stop(w) \/ Raise(w) \/ Abort(w) \/ Review(w) \/ Settle(w)
    \/ Replay(w) \/ Conflict(w) \/ Busy(w) \/ Commit(w) \/ WriteReceipt(w)
    \/ FailLoad(w) \/ FailSave(w)

Sweep(w) ==
    \/ Wake(w) \/ SweepEnds(w) \/ Audit(w) \/ Release(w)
    \/ \E r \in Researches : Acquire(w, r) \/ Queued(w, r)

Work(w) == up /\ (Sweep(w) \/ Tick(w)) /\ UNCHANGED <<up, crashes>>

UserStep(r) ==
    \/ ConfirmRun(r) \/ Pause(r) \/ Resume(r) \/ Approve(r) \/ Reject(r)
    \/ ConfirmPause(r) \/ ContinueIterate(r) \/ Reopen(r) \/ Delete(r)
    \/ DeleteRefused(r)

User == /\ up
        /\ SendDialogue \/ \E r \in Researches : UserStep(r)
        /\ UNCHANGED <<up, crashes>>

Next ==
    \/ \E w \in Workers : Work(w) \/ (up /\ Exit(w))
    \/ User
    \/ Crash
    \/ Restart

Spec == Init /\ [][Next]_vars

\* serve sweeps for ever, calls of the builder and of the reviewer return or
\* raise (they have timeouts), and the desktop restarts a dead engine.  The
\* user, and crashes, are under no obligation.
FairSpec == /\ Spec
            /\ \A w \in Workers : WF_vars(Work(w) \/ (up /\ Exit(w)))
            /\ WF_vars(Restart)

-----------------------------------------------------------------------------
(* Properties *)

TypeOK ==
    /\ row \in [Researches -> Row]
    /\ attempts \subseteq Attempt
    /\ committed \subseteq RoundId
    /\ windowM \in Nat
    /\ receipts \subseteq RoundId
    /\ lease \in Researches \cup {None}
    /\ gate \in {"open", "duplicate_m", "lost_committed_receipt"}
    /\ removed \subseteq Researches
    /\ up \in BOOLEAN
    /\ loop \in [Workers -> Worker]
    /\ stale \in [Workers -> SUBSET Column]
    /\ crashes \in 0..MaxCrashes
    /\ history \subseteq RoundId
    /\ tried \subseteq Researches

\* The count M of the data window, which the statistics of every later
\* judgement use, is the number of rounds that were ever committed on it:
\* no crash, replay, duplicate tick or dropped tick counts one twice.
MCountsRounds == windowM = Cardinality(history)

\* The rounds a research holds are those of committed_round for its current
\* version, numbered without a gap: no round is lost or replaced when a tick
\* and a command of the user collide.
RoundsAgree ==
    \A r \in Researches : Live(r) =>
        {x.round : x \in {y \in RoundsOf(r) : y.ver = row[r].ver}}
          = 1..row[r].rounds

\* A round is committed with a review that passed it, recorded beforehand,
\* whatever tick or process did the review.
CommittedWasReviewed ==
    \A x \in committed : \E a \in AttemptsAt(x) : a.passed

\* Of a live research: the attempts at a round are numbered without a gap across ticks, deaths
\* and resumptions, there are at most MaxFailures of them, and nothing
\* follows one that passed: it is not built and reviewed again even when its
\* commit was refused or the process died before it.
AttemptsInOrder ==
    \A a \in {b \in attempts : Live(b.r)} :
        LET all == AttemptsAt([r |-> a.r, ver |-> a.ver, round |-> a.round])
        IN /\ {b.n : b \in all} = 1..Cardinality(all)
           /\ Cardinality(all) <= MaxFailures
           /\ a.passed => a.n = Cardinality(all)

\* A receipt is only ever given for a round that was committed.
ReceiptMeansCommitted == receipts \subseteq history

\* A round is earned before it counts: what is committed passed its review
\* (loop.py:1043), and what has a receipt was committed (loop.py:1017).
RoundsAreEarned == CommittedWasReviewed /\ ReceiptMeansCommitted

\* The loop never overrides the user: once the row says anything but
\* running, no step of a worker changes its status or its version, and none
\* brings a deleted research back.
LoopRespectsUser ==
    [][\A r \in Researches :
          loop' # loop /\ row[r].st # "running"
            => row'[r].st = row[r].st /\ row'[r].ver = row[r].ver]_vars

\* While the engine stays up, every running research gets its turn of the
\* one compute worker again and again, until it runs no longer.
Served(r) == \E w \in Workers : loop[w].pc = "load" /\ loop[w].r = r
                                   /\ r \notin removed
EveryRunningServed ==
    \A r \in Researches :
        (up /\ row[r].st = "running")
          ~> (row[r].st # "running" \/ Served(r) \/ ~up)

\* When the user leaves it alone a run stops, for a reason the research
\* shows: bounded attempts, rounds and failures leave it no way to spin.
EveryRunStops ==
    \A r \in Researches : (row[r].st = "running") ~> (row[r].st # "running")

\* A run moves on until it stops: it has its turns, and they come to an end.
RunsMoveOn == EveryRunningServed /\ EveryRunStops

\* A committed round gets its receipt, or its research is deleted.
EveryRoundHasReceipt ==
    \A r \in Researches :
        (RoundsOf(r) # {}) ~> (RoundsOf(r) \subseteq receipts)

\* The gate closes for a receipt that is lost, not for one that is about to
\* be written (settings-config-v1.md).
TripMeansLost == gate = "lost_committed_receipt" => MissesReceipt

\* The gate closes for a round that was counted twice.
TripMeansDuplicate ==
    gate = "duplicate_m" => windowM > Cardinality(history)

\* A research that was paused "and can be resumed" makes an attempt, when it
\* is resumed, before it pauses for the same reason again.
ResumeMeansATry ==
    \A w \in Workers :
        loop[w].pc = "finish" /\ loop[w].out.exhausted
          => loop[w].r \in tried

\* The rows, the rounds and the attempts of a research agree.
RecordsAgree == TypeOK /\ RoundsAgree /\ AttemptsInOrder
=============================================================================
