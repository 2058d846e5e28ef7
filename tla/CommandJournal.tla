-------------------------- MODULE CommandJournal --------------------------
(***************************************************************************)
(* The command journal of one research: how an HTTP worker of the engine   *)
(* turns a desktop command into at most one change of the research.        *)
(*                                                                         *)
(* Sources: engine/research/command_journal.py (receipts, revisions,       *)
(* remote claims), engine/main.py (handle, _dispatch, _save, _confirm_run),*)
(* engine/research/store.py (compare-and-set writes, start-up recovery),   *)
(* engine/research/dialogue_rollout.py (write gate, open-version guard).   *)
(*                                                                         *)
(* Every request is served by a thread of its own.  A step of a thread is  *)
(* one SQLite statement or transaction, or the remote market-data call;    *)
(* the per-research lock is held by confirm_run only.  A crash loses the   *)
(* threads and the lock and keeps the tables.                              *)
(*                                                                         *)
(* Abstractions.  A payload hash is the request itself.  updated_at is a   *)
(* stamp, fresh at every write (it has microseconds), and the state        *)
(* snapshot hash is that stamp, which the state JSON contains.  "idle"     *)
(* stands for awaiting_confirm, paused, completed and ended: module        *)
(* ResearchLifecycle tells them apart.  Requests carry no reply_to.        *)
(***************************************************************************)
EXTENDS Integers, FiniteSets

CONSTANTS
    Thread,       \* worker threads of the loopback server
    Command,      \* command ids that clients allocate
    Request,      \* the requests clients may send, retries included
    NoCommand,    \* a legacy request has no envelope
    NoRequest,    \* a thread that serves nothing
    Nobody,       \* the lock is free
    Found,        \* what the store holds at first: "absent", or the status
                  \* of a research written before the journal existed
    MaxStimuli,   \* bound: requests, loop writes, crashes and CLI calls
    CliMayRun     \* whether "alphaloop status" runs beside the engine

Kind == {"create", "delete", "dialogue", "pause", "resume", "iterate",
         "reopen", "confirm"}
Status == {"draft", "running", "idle"}
ReceiptStatus == {"none", "pending", "committed", "unknown",
                  "revision_conflict"}
Outcome == {"none", "ok", "failed", "conflict"}
Reply == Outcome \cup {"pending", "unknown", "payload", "error", "view"}
GateReason == {"open", "audit", "unauthorized_resend",
               "duplicate_open_version"}

RequestShape == [cmd: Command \cup {NoCommand}, kind: Kind, expected: Nat,
                 auth: BOOLEAN]

ASSUME RequestAssumption ==
    /\ Request \subseteq RequestShape
    /\ NoRequest \notin Request
    /\ NoCommand \notin Command
    /\ Nobody \notin Thread
    /\ \A q \in Request : /\ q.kind = "create" => q.cmd \in Command
                          /\ q.kind = "delete" => q.cmd = NoCommand
ASSUME FoundAssumption == Found \subseteq Status \cup {"absent"}
ASSUME BoundAssumption == MaxStimuli \in Nat /\ CliMayRun \in BOOLEAN

VARIABLES
    head,        \* the row of table researches
    events,      \* the rows of table research_event
    receipt,     \* table command_receipt, by command id
    openClaims,  \* table version_open_claim: the command ids it holds
    gate,        \* table dialogue_write_gate: "open" or the first reason
    lock,        \* the per-research confirm_run lock
    thread,      \* the request each worker thread serves, and how far it is
    probes,      \* remote probes sent for each command id (observed outside)
    billed,      \* commands whose probe may have been billed
    boosted,     \* commands whose trial budget increment was stored
    answers,     \* what clients were told (observed outside)
    stimuli      \* external events so far

table == <<head, events, receipt, openClaims, gate>>
observed == <<probes, billed, boosted>>
vars == <<head, events, receipt, openClaims, gate, lock, thread, probes,
          billed, boosted, answers, stimuli>>

-----------------------------------------------------------------------------
(* Records *)

Head == [live: BOOLEAN, rev: Nat, seq: Nat, stamp: Nat, status: Status,
         versions: Nat, creator: Command \cup {NoCommand}]

\* A row of research_event.  cmd and expected are the journaled command that
\* appended it (NoCommand and 0 for a legacy or loop write).
Event == [seq: Nat, kind: Kind \cup {"confirm_failed", "round"},
          cmd: Command \cup {NoCommand}, expected: Nat, rev: Nat]

Receipt == [status: ReceiptStatus, payload: Request \cup {NoRequest},
            outcome: Outcome, budget: {0, 1}, revision: Nat]
NoReceipt == [status |-> "none", payload |-> NoRequest, outcome |-> "none",
              budget |-> 0, revision |-> 0]

GenericPc == {"dispatch", "boost", "open", "write"}
ConfirmPc == {"c_load", "c_check", "c_conflict", "c_bind", "c_claim",
              "c_probe", "c_wait", "c_open", "c_commit", "c_fail_keep",
              "c_fail_drop", "c_fail_note"}
LegacyPc == {"l_load", "l_probe", "l_wait", "l_save", "l_fail", "l_reload",
             "l_write"}
Pc == {"idle"} \cup GenericPc \cup ConfirmPc \cup LegacyPc

\* What a handler holds in local variables: the research it loaded (before)
\* and the head it bound its remote claim to.
ThreadState == [pc: Pc, req: Request \cup {NoRequest}, stamp: Nat,
                status: Status, bound: Nat, boundVersions: Nat]
IdleThread == [pc |-> "idle", req |-> NoRequest, stamp |-> 0,
               status |-> "draft", bound |-> 0, boundVersions |-> 0]

Legacy(q) == q.cmd = NoCommand
HasUnknown == \E c \in Command : receipt[c].status = "unknown"
                                   /\ receipt[c].budget > 0

\* Slip: the handlers transition without the state machine's guard.
AcceptsAnyStatus(kind) == Status

\* Where the state machine accepts a command, and where it may lead; none
\* means the handler raises before it writes.
Accepts(kind) ==
    CASE kind = "dialogue" -> Status
      [] kind = "pause"    -> {"running"}
      [] kind \in {"resume", "iterate", "reopen"} -> {"idle"}
      [] kind = "confirm"  -> {"draft"}
      [] OTHER             -> {}
After(kind, status) ==
    {s \in Status :
        /\ status \in Accepts(kind)
        /\ CASE kind = "dialogue" -> \/ s = status
                                     \/ {s, status} = {"running", "idle"}
             [] kind = "pause"    -> s = "idle"
             [] OTHER             -> s = "running"}

OpensVersion(kind) == kind \in {"confirm", "reopen"}

-----------------------------------------------------------------------------
(* Steps shared by the handlers *)

\* The thread answers its client and is done.
Answer(t, a) ==
    /\ thread' = [thread EXCEPT ![t] = IdleThread]
    /\ answers' = answers \cup {[req |-> thread[t].req, ans |-> a]}

Goto(t, pc) == thread' = [thread EXCEPT ![t].pc = pc] /\ UNCHANGED answers

Unlock(t) == lock' = IF lock = t THEN Nobody ELSE lock

\* Close new dialogue writes; the first reason sticks.
Trip(reason) == gate' = IF gate = "open" THEN reason ELSE gate

\* The row after one compare-and-set write that bumps the revision.
Bumped(status, opens) ==
    [live |-> head.live, rev |-> head.rev + 1, seq |-> head.seq + 1,
     stamp |-> head.stamp + 1, status |-> status,
     versions |-> head.versions + (IF opens THEN 1 ELSE 0),
     creator |-> head.creator]
Row(kind, q) ==
    [seq |-> head.seq + 1, kind |-> kind, cmd |-> q.cmd,
     expected |-> q.expected, rev |-> head.rev + 1]
LegacyRow(kind) ==
    [seq |-> head.seq + 1, kind |-> kind, cmd |-> NoCommand,
     expected |-> 0, rev |-> head.rev + 1]

\* Slips: the conflict reports the revision before; it frees the budget.
ConflictedOffByOne(q, keep) ==
    [status |-> "revision_conflict", payload |-> q, outcome |-> "conflict",
     budget |-> 0, revision |-> head.rev - 1]
ConflictedFreesBudget(q, keep) ==
    [status |-> "revision_conflict", payload |-> q, outcome |-> "conflict",
     budget |-> 0, revision |-> head.rev]

\* _mark_conflict: the row becomes a revision conflict, whatever it was.
Conflicted(q, keep) ==
    [status |-> "revision_conflict",
     payload |-> IF receipt[q.cmd].status = "none" THEN q
                 ELSE receipt[q.cmd].payload,
     outcome |-> "conflict",
     budget |-> IF keep THEN receipt[q.cmd].budget ELSE 0,
     revision |-> head.rev]

\* _upsert_committed: a new row reserves nothing unless told to, an existing
\* row keeps what it reserved unless told otherwise.
Committed(q, outcome, budget, rev) ==
    [status |-> "committed",
     payload |-> IF receipt[q.cmd].status = "none" THEN q
                 ELSE receipt[q.cmd].payload,
     outcome |-> outcome, budget |-> budget, revision |-> rev]

\* What a receipt that answers for itself says to a request of the same id.
Stored(r) ==
    CASE r.status = "committed"         -> r.outcome
      [] r.status = "pending"           -> "pending"
      [] r.status = "unknown"           -> "unknown"
      [] r.status = "revision_conflict" -> "conflict"
      [] OTHER                          -> "error"

\* Slip: only updated_at is compared, as legacy writes do.
MatchesStampOnly(t, q, bound) == head.stamp = thread[t].stamp

\* CommandJournal.commit.  bound: the claim's snapshot is compared again.
\* failure: the remote call failed and after records that.
Matches(t, q, bound) ==
    /\ head.rev = q.expected
    /\ head.stamp = thread[t].stamp
    /\ bound => /\ head.stamp = thread[t].bound
                /\ head.versions = thread[t].boundVersions

CommitReplays(t, q, bound, failure) ==
    \/ /\ receipt[q.cmd].status # "none"
       /\ receipt[q.cmd].payload # q
       /\ Answer(t, "payload")
    \/ /\ receipt[q.cmd].payload = q
       /\ \/ receipt[q.cmd].status \in {"committed", "unknown",
                                        "revision_conflict"}
          \/ receipt[q.cmd].status = "pending" /\ ~bound /\ ~failure
       /\ Answer(t, Stored(receipt[q.cmd]))

\* Slip: the transaction relies on the look prepare had at the receipt.
ProceedsUnchecked(q, bound, failure) == TRUE

CommitProceeds(q, bound, failure) ==
    \/ receipt[q.cmd].status = "none"
    \/ /\ receipt[q.cmd].payload = q
       /\ receipt[q.cmd].status = "pending"
       /\ bound \/ failure

\* Slip: a refusal is answered and not recorded.
ConflictsUnrecorded(t, q, bound, failure, keep) ==
    /\ CommitProceeds(q, bound, failure)
    /\ head.live /\ ~Matches(t, q, bound)
    /\ Answer(t, "conflict")
    /\ UNCHANGED receipt

CommitConflicts(t, q, bound, failure, keep) ==
    /\ CommitProceeds(q, bound, failure)
    /\ head.live
    /\ ~Matches(t, q, bound)
    /\ receipt' = [receipt EXCEPT ![q.cmd] = Conflicted(q, keep)]
    /\ Answer(t, "conflict")

\* The compare and set, the event and the receipt: one transaction.
Applied(t, q, status) ==
    /\ head' = Bumped(status, OpensVersion(q.kind))
    /\ events' = events \cup {Row(q.kind, q)}
    /\ receipt' = [receipt EXCEPT ![q.cmd] =
                     Committed(q, "ok", @.budget, head.rev + 1)]
    /\ Answer(t, "ok")

\* Slip: nothing is compared again inside the transaction.
AppliesUnchecked(t, q, bound, status) == head.live /\ Applied(t, q, status)

CommitApplies(t, q, bound, status) ==
    /\ CommitProceeds(q, bound, FALSE)
    /\ head.live
    /\ Matches(t, q, bound)
    /\ Applied(t, q, status)

FailureNoted(t, q, keep) ==
    /\ head' = Bumped(head.status, FALSE)
    /\ events' = events \cup {Row("confirm_failed", q)}
    /\ receipt' = [receipt EXCEPT ![q.cmd] =
                     Committed(q, "failed", IF keep THEN 1 ELSE 0,
                               head.rev + 1)]
    /\ Answer(t, "failed")

CommitRecordsFailure(t, q, keep) ==
    /\ CommitProceeds(q, TRUE, TRUE)
    /\ head.live
    /\ Matches(t, q, TRUE)
    /\ FailureNoted(t, q, keep)

-----------------------------------------------------------------------------
(* Receiving a request: handle and CommandJournal.prepare *)

CanPrompt == stimuli < MaxStimuli
Prompt == stimuli' = stimuli + 1

Serve(t, q, pc) ==
    thread' = [thread EXCEPT ![t] = [IdleThread EXCEPT !.pc = pc, !.req = q]]
AnswerNow(q, a) == /\ answers' = answers \cup {[req |-> q, ans |-> a]}
                   /\ UNCHANGED thread

\* A legacy request, and create_draft, go straight to the dispatcher.
PrepareLegacy(t, q) ==
    /\ Legacy(q) \/ q.kind = "create"
    /\ Serve(t, q, "dispatch")
    /\ UNCHANGED <<gate, answers>>

\* Slip: nobody asks whether a remote call is unknown.
PrepareFreshUnchecked(t, q) ==
    /\ ~Legacy(q) /\ q.kind # "create"
    /\ receipt[q.cmd].status = "none"
    /\ Serve(t, q, "dispatch") /\ UNCHANGED <<gate, answers>>

\* No receipt yet.  A confirmation is refused while an unknown remote call
\* is on the books, unless the client authorises another one.
PrepareFresh(t, q) ==
    /\ ~Legacy(q) /\ q.kind # "create"
    /\ receipt[q.cmd].status = "none"
    /\ IF q.kind = "confirm" /\ ~q.auth /\ HasUnknown
       THEN Trip("unauthorized_resend") /\ AnswerNow(q, "unknown")
       ELSE Serve(t, q, "dispatch") /\ UNCHANGED <<gate, answers>>

PrepareKnown(t, q) ==
    /\ ~Legacy(q) /\ q.kind # "create"
    /\ receipt[q.cmd].status # "none"
    /\ IF receipt[q.cmd].payload # q
       THEN AnswerNow(q, "payload") /\ UNCHANGED gate
       ELSE /\ AnswerNow(q, Stored(receipt[q.cmd]))
            /\ IF receipt[q.cmd].status = "unknown"
               THEN Trip("unauthorized_resend")
               ELSE UNCHANGED gate

Prepare(t, q) ==
    /\ thread[t].pc = "idle"
    /\ CanPrompt /\ Prompt
    /\ PrepareLegacy(t, q) \/ PrepareFresh(t, q) \/ PrepareKnown(t, q)
    /\ UNCHANGED <<head, events, receipt, openClaims, lock, observed>>

-----------------------------------------------------------------------------
(* create_draft and delete_research: one transaction each *)

CreateReceipt(q, rev) ==
    [status |-> "committed", payload |-> q, outcome |-> "ok", budget |-> 0,
     revision |-> rev]

Create(t) ==
    LET q == thread[t].req IN
    /\ thread[t].pc = "dispatch" /\ q.kind = "create"
    /\ \/ /\ receipt[q.cmd].status # "none"
          /\ Answer(t, IF receipt[q.cmd].payload # q THEN "payload"
                       ELSE Stored(receipt[q.cmd]))
          /\ UNCHANGED <<head, events, receipt>>
       \/ /\ receipt[q.cmd].status = "none" /\ head.live
          /\ IF head.creator = q.cmd
             THEN /\ receipt' = [receipt EXCEPT
                                   ![q.cmd] = CreateReceipt(q, head.rev)]
                  /\ Answer(t, "ok")
             ELSE Answer(t, "error") /\ UNCHANGED receipt
          /\ UNCHANGED <<head, events>>
       \/ /\ receipt[q.cmd].status = "none" /\ ~head.live
          /\ head' = [live |-> TRUE, rev |-> 0, seq |-> 1,
                      stamp |-> head.stamp + 1, status |-> "draft",
                      versions |-> 0, creator |-> q.cmd]
          /\ events' = events \cup {[seq |-> 1, kind |-> "create",
                                     cmd |-> q.cmd, expected |-> 0,
                                     rev |-> 0]}
          /\ receipt' = [receipt EXCEPT ![q.cmd] = CreateReceipt(q, 0)]
          /\ Answer(t, "ok")
    /\ UNCHANGED <<openClaims, gate, lock, observed, stimuli>>

\* SQLiteStore.delete keeps version_open_claim and the write gate.  What
\* clients were told about the deleted research is forgotten with it.
Delete(t) ==
    /\ thread[t].pc = "dispatch" /\ thread[t].req.kind = "delete"
    /\ thread' = [thread EXCEPT ![t] = IdleThread]
    /\ IF head.live
       THEN /\ head' = [head EXCEPT !.live = FALSE]
            /\ events' = {}
            /\ receipt' = [c \in Command |-> NoReceipt]
            /\ answers' = {}
            /\ probes' = [c \in Command |-> 0]
            /\ billed' = {} /\ boosted' = {}
       ELSE UNCHANGED <<head, events, receipt, answers, probes, billed,
                        boosted>>
    /\ UNCHANGED <<openClaims, gate, lock, stimuli>>

-----------------------------------------------------------------------------
(* The writes that load, compute and save without a lock *)

Generic(q) == q.kind \in {"dialogue", "pause", "resume", "iterate", "reopen"}

NextPc(kind) == CASE kind = "iterate" -> "boost"
                  [] kind = "reopen"  -> "open"
                  [] OTHER            -> "write"

\* send_dialogue first audits the store, which may close the gate, and is
\* refused once the gate is closed.  The audit is modelled by its outcome.
Load(t) ==
    LET q == thread[t].req IN
    /\ thread[t].pc = "dispatch" /\ Generic(q)
    /\ IF q.kind = "dialogue" /\ head.live
       THEN gate' \in {gate, IF gate = "open" THEN "audit" ELSE gate}
       ELSE UNCHANGED gate
    /\ IF head.live /\ After(q.kind, head.status) # {}
                    /\ (q.kind = "dialogue" => gate' = "open")
       THEN /\ thread' = [thread EXCEPT ![t] =
                            [@ EXCEPT !.pc = NextPc(q.kind),
                                      !.stamp = head.stamp,
                                      !.status = head.status]]
            /\ UNCHANGED answers
       ELSE Answer(t, "error")
    /\ UNCHANGED <<head, events, receipt, openClaims, lock, observed,
                   stimuli>>

\* continue_iterate stores the raised trial budget before the journal looks
\* at the expected revision: a save on updated_at alone, no revision bump.
Boost(t) ==
    LET q == thread[t].req IN
    /\ thread[t].pc = "boost"
    /\ IF head.live /\ head.stamp = thread[t].stamp
       THEN /\ head' = [head EXCEPT !.stamp = @ + 1]
            /\ thread' = [thread EXCEPT ![t] =
                            [@ EXCEPT !.pc = "write",
                                      !.stamp = head.stamp + 1]]
            /\ boosted' = IF Legacy(q) THEN boosted ELSE boosted \cup {q.cmd}
            /\ UNCHANGED answers
       ELSE Answer(t, "error") /\ UNCHANGED <<head, boosted>>
    /\ UNCHANGED <<events, receipt, openClaims, gate, lock, probes, billed,
                   stimuli>>

\* version_open_guard around the transition only: the claim row is stored
\* before the journal's commit and outlives its refusal.
Open(t) ==
    LET q == thread[t].req IN
    /\ thread[t].pc = "open"
    /\ IF ~Legacy(q) /\ q.cmd \in openClaims
       THEN /\ Trip("duplicate_open_version")
            /\ Answer(t, "error")
            /\ UNCHANGED openClaims
       ELSE /\ openClaims' = IF Legacy(q) THEN openClaims
                             ELSE openClaims \cup {q.cmd}
            /\ Goto(t, "write")
            /\ UNCHANGED gate
    /\ UNCHANGED <<head, events, receipt, lock, observed, stimuli>>

\* _save for a request with an envelope: CommandJournal.commit.
Write(t) ==
    LET q == thread[t].req IN
    /\ thread[t].pc = "write" /\ ~Legacy(q)
    /\ \/ /\ CommitReplays(t, q, FALSE, FALSE)
          /\ UNCHANGED <<head, events, receipt>>
       \/ /\ CommitConflicts(t, q, FALSE, FALSE, FALSE)
          /\ UNCHANGED <<head, events>>
       \/ \E s \in After(q.kind, thread[t].status) :
             CommitApplies(t, q, FALSE, s)
       \/ /\ CommitProceeds(q, FALSE, FALSE) /\ ~head.live
          /\ Answer(t, "error")
          /\ UNCHANGED <<head, events, receipt>>
    /\ UNCHANGED <<openClaims, gate, lock, observed, stimuli>>

\* save_with_event: compare and set on updated_at, one event, no receipt.
SaveWithEvent(t, kind, status, opens) ==
    IF head.live /\ head.stamp = thread[t].stamp
    THEN /\ head' = Bumped(status, opens)
         /\ events' = events \cup {LegacyRow(kind)}
         /\ Answer(t, "ok")
    ELSE /\ Answer(t, "error")
         /\ UNCHANGED <<head, events>>

LegacyWrite(t) ==
    LET q == thread[t].req IN
    /\ thread[t].pc = "write" /\ Legacy(q)
    /\ \E s \in After(q.kind, thread[t].status) :
          SaveWithEvent(t, q.kind, s, OpensVersion(q.kind))
    /\ UNCHANGED <<receipt, openClaims, gate, lock, observed, stimuli>>

-----------------------------------------------------------------------------
(* confirm_run with an envelope: claim, probe outside the transaction,     *)
(* commit.  The per-research lock is held from the first step to the last. *)

\* Slip: a path that answers without leaving the lock.
DoneKeepsLock(t, a) == Answer(t, a) /\ UNCHANGED lock

Done(t, a) == Answer(t, a) /\ Unlock(t)

\* Slip: the receipt is not looked at again under the lock.
ConfirmLockBlind(t) ==
    /\ thread[t].pc = "dispatch"
    /\ thread[t].req.kind = "confirm" /\ ~Legacy(thread[t].req)
    /\ lock = Nobody
    /\ Goto(t, "c_load") /\ lock' = t
    /\ UNCHANGED <<table, observed, stimuli>>

ConfirmLock(t) ==
    LET q == thread[t].req
        r == receipt[q.cmd]
    IN
    /\ thread[t].pc = "dispatch" /\ q.kind = "confirm" /\ ~Legacy(q)
    /\ lock = Nobody
    /\ IF r.status = "none"
       THEN Goto(t, "c_load") /\ lock' = t /\ UNCHANGED gate
       ELSE /\ Answer(t, IF r.payload # q THEN "payload" ELSE Stored(r))
            /\ IF r.payload = q /\ r.status = "unknown"
               THEN Trip("unauthorized_resend") ELSE UNCHANGED gate
            /\ UNCHANGED lock
    /\ UNCHANGED <<head, events, receipt, openClaims, observed, stimuli>>

ConfirmLoad(t) ==
    /\ thread[t].pc = "c_load"
    /\ IF head.live
       THEN /\ thread' = [thread EXCEPT ![t] =
                            [@ EXCEPT !.pc = "c_check", !.stamp = head.stamp,
                                      !.status = head.status]]
            /\ UNCHANGED <<answers, lock>>
       ELSE Done(t, "error")
    /\ UNCHANGED <<head, events, receipt, openClaims, gate, observed,
                   stimuli>>

\* revision_of is a second read.  The run gate (universe, family, source)
\* may refuse; it looks at the draft's settings, not at its status.
ConfirmCheck(t) ==
    /\ thread[t].pc = "c_check"
    /\ \/ ~head.live /\ Done(t, "error")
       \/ /\ head.live /\ head.rev # thread[t].req.expected
          /\ Goto(t, "c_conflict") /\ UNCHANGED lock
       \/ /\ head.live /\ head.rev = thread[t].req.expected
          /\ \/ thread[t].status = "running" /\ Done(t, "view")
             \/ thread[t].status # "running" /\ Done(t, "error")
             \/ /\ thread[t].status # "running"
                /\ Goto(t, "c_bind") /\ UNCHANGED lock
    /\ UNCHANGED <<head, events, receipt, openClaims, gate, observed,
                   stimuli>>

\* record_revision_conflict
ConfirmConflict(t) ==
    LET q == thread[t].req
        r == receipt[q.cmd]
    IN
    /\ thread[t].pc = "c_conflict"
    /\ \/ ~head.live /\ Done(t, "error") /\ UNCHANGED receipt
       \/ /\ head.live /\ r.status # "none" /\ r.payload # q
          /\ Done(t, "payload") /\ UNCHANGED receipt
       \/ /\ head.live
          /\ r.status = "none" \/ r.payload = q
          /\ IF r.status = "committed" THEN UNCHANGED receipt
             ELSE receipt' = [receipt EXCEPT ![q.cmd] = Conflicted(q, FALSE)]
          /\ Done(t, "conflict")
    /\ UNCHANGED <<head, events, openClaims, gate, observed, stimuli>>

\* research_head: the snapshot and version the remote claim is bound to.
ConfirmBind(t) ==
    /\ thread[t].pc = "c_bind"
    /\ IF head.live
       THEN /\ thread' = [thread EXCEPT ![t] =
                            [@ EXCEPT !.pc = "c_claim", !.bound = head.stamp,
                                      !.boundVersions = head.versions]]
            /\ UNCHANGED <<answers, lock>>
       ELSE Done(t, "error")
    /\ UNCHANGED <<head, events, receipt, openClaims, gate, observed,
                   stimuli>>

\* claim_remote: one transaction; it does not look at the researches row.
ConfirmClaim(t) ==
    LET q == thread[t].req
        r == receipt[q.cmd]
    IN
    /\ thread[t].pc = "c_claim"
    /\ IF r.status = "none"
       THEN /\ receipt' = [receipt EXCEPT ![q.cmd] =
                             [status |-> "pending", payload |-> q,
                              outcome |-> "none", budget |-> 1,
                              revision |-> q.expected]]
            /\ Goto(t, "c_probe")
            /\ UNCHANGED <<lock, gate>>
       ELSE /\ Done(t, IF r.payload # q THEN "payload" ELSE Stored(r))
            /\ IF r.payload = q /\ r.status = "unknown"
               THEN Trip("unauthorized_resend") ELSE UNCHANGED gate
            /\ UNCHANGED receipt
    /\ UNCHANGED <<head, events, openClaims, observed, stimuli>>

\* The market-data request leaves the process.
ConfirmProbe(t) ==
    /\ thread[t].pc = "c_probe"
    /\ probes' = [probes EXCEPT ![thread[t].req.cmd] = @ + 1]
    /\ billed' = billed \cup {thread[t].req.cmd}
    /\ Goto(t, "c_wait")
    /\ UNCHANGED <<table, lock, boosted, stimuli>>

\* It returns a runnable universe, a market-data failure (its budget stays
\* reserved), a failure of the pool, another known error, or it raises
\* something the handler does not catch.
ConfirmProbed(t) ==
    /\ thread[t].pc = "c_wait"
    /\ \/ /\ \E pc \in {"c_open", "c_fail_keep"} : Goto(t, pc)
          /\ UNCHANGED <<lock, billed>>
       \/ /\ \E pc \in {"c_fail_drop", "c_fail_note"} : Goto(t, pc)
          /\ billed' = billed \ {thread[t].req.cmd}
          /\ UNCHANGED lock
       \/ Done(t, "error") /\ UNCHANGED billed
    /\ UNCHANGED <<table, probes, boosted, stimuli>>

\* version_open_guard around transition and commit.
ConfirmOpen(t) ==
    LET c == thread[t].req.cmd IN
    /\ thread[t].pc = "c_open"
    /\ IF c \in openClaims
       THEN /\ Trip("duplicate_open_version") /\ Done(t, "error")
            /\ UNCHANGED openClaims
       ELSE /\ openClaims' = openClaims \cup {c}
            /\ Goto(t, "c_commit")
            /\ UNCHANGED <<gate, lock>>
    /\ UNCHANGED <<head, events, receipt, observed, stimuli>>

\* Any exception inside the guard gives the claim row back.
ConfirmCommit(t) ==
    LET q == thread[t].req
        Refused == openClaims' = openClaims \ {q.cmd}
    IN
    /\ thread[t].pc = "c_commit"
    /\ \/ /\ After("confirm", thread[t].status) = {}
          /\ Answer(t, "error") /\ Refused
          /\ UNCHANGED <<head, events, receipt>>
       \/ /\ After("confirm", thread[t].status) # {}
          /\ \/ /\ CommitReplays(t, q, TRUE, FALSE)
                /\ openClaims' = IF receipt[q.cmd].status = "committed"
                                    /\ receipt[q.cmd].outcome = "ok"
                                 THEN openClaims ELSE openClaims \ {q.cmd}
                /\ UNCHANGED <<head, events, receipt>>
             \/ /\ CommitConflicts(t, q, TRUE, FALSE, TRUE) /\ Refused
                /\ UNCHANGED <<head, events>>
             \/ /\ CommitApplies(t, q, TRUE, "running")
                /\ UNCHANGED openClaims
             \/ /\ CommitProceeds(q, TRUE, FALSE) /\ ~head.live
                /\ Answer(t, "error") /\ Refused
                /\ UNCHANGED <<head, events, receipt>>
    /\ Unlock(t)
    /\ UNCHANGED <<gate, observed, stimuli>>

\* _journal_confirm_failure, first two branches: the notice is a write.
ConfirmFail(t, keep) ==
    LET q == thread[t].req IN
    /\ thread[t].pc = IF keep THEN "c_fail_keep" ELSE "c_fail_drop"
    /\ \/ /\ CommitReplays(t, q, TRUE, TRUE)
          /\ UNCHANGED <<head, events, receipt>>
       \/ /\ CommitConflicts(t, q, TRUE, TRUE, keep)
          /\ UNCHANGED <<head, events>>
       \/ CommitRecordsFailure(t, q, keep)
       \/ /\ CommitProceeds(q, TRUE, TRUE) /\ ~head.live
          /\ Answer(t, "error")
          /\ UNCHANGED <<head, events, receipt>>
    /\ Unlock(t)
    /\ UNCHANGED <<openClaims, gate, observed, stimuli>>

\* record_remote_failure writes over the receipt whatever its status is.
ConfirmFailNote(t) ==
    LET q == thread[t].req IN
    /\ thread[t].pc = "c_fail_note"
    /\ IF head.live
       THEN /\ receipt' = [receipt EXCEPT ![q.cmd] =
                             Committed(q, "failed", 0, head.rev)]
            /\ Answer(t, "failed")
       ELSE Answer(t, "error") /\ UNCHANGED receipt
    /\ Unlock(t)
    /\ UNCHANGED <<head, events, openClaims, gate, observed, stimuli>>

-----------------------------------------------------------------------------
(* confirm_run of a legacy client: two separate writes around the probe,   *)
(* no receipt, no look at unknown remote calls.                            *)

LegacyLock(t) ==
    /\ thread[t].pc = "dispatch"
    /\ thread[t].req.kind = "confirm" /\ Legacy(thread[t].req)
    /\ lock = Nobody
    /\ lock' = t
    /\ Goto(t, "l_load")
    /\ UNCHANGED <<table, observed, stimuli>>

LegacyLoad(t) ==
    /\ thread[t].pc = "l_load"
    /\ \/ ~head.live /\ Done(t, "error")
       \/ head.live /\ head.status = "running" /\ Done(t, "view")
       \/ head.live /\ head.status # "running" /\ Done(t, "error")
       \/ /\ head.live /\ head.status # "running"
          /\ thread' = [thread EXCEPT ![t] =
                          [@ EXCEPT !.pc = "l_probe", !.stamp = head.stamp,
                                    !.status = head.status]]
          /\ UNCHANGED <<answers, lock>>
    /\ UNCHANGED <<table, observed, stimuli>>

LegacyProbe(t) ==
    /\ thread[t].pc = "l_probe"
    /\ Goto(t, "l_wait")
    /\ UNCHANGED <<table, lock, observed, stimuli>>

LegacyProbed(t) ==
    /\ thread[t].pc = "l_wait"
    /\ \/ \E pc \in {"l_save", "l_fail"} : Goto(t, pc) /\ UNCHANGED lock
       \/ Done(t, "error")
    /\ UNCHANGED <<table, observed, stimuli>>

\* The failure notice is saved, then the error is raised again.
LegacyFail(t) ==
    /\ thread[t].pc = "l_fail"
    /\ IF head.live /\ head.stamp = thread[t].stamp
       THEN /\ head' = Bumped(head.status, FALSE)
            /\ events' = events \cup {LegacyRow("confirm_failed")}
       ELSE UNCHANGED <<head, events>>
    /\ Done(t, "error")
    /\ UNCHANGED <<receipt, openClaims, gate, observed, stimuli>>

\* store.save: the probed universe, compare and set on updated_at only.
LegacySave(t) ==
    /\ thread[t].pc = "l_save"
    /\ IF head.live /\ head.stamp = thread[t].stamp
       THEN /\ head' = [head EXCEPT !.stamp = @ + 1]
            /\ Goto(t, "l_reload") /\ UNCHANGED lock
       ELSE Done(t, "error") /\ UNCHANGED head
    /\ UNCHANGED <<events, receipt, openClaims, gate, observed, stimuli>>

LegacyReload(t) ==
    /\ thread[t].pc = "l_reload"
    /\ IF head.live /\ After("confirm", head.status) # {}
       THEN /\ thread' = [thread EXCEPT ![t] =
                            [@ EXCEPT !.pc = "l_write", !.stamp = head.stamp,
                                      !.status = head.status]]
            /\ UNCHANGED <<answers, lock>>
       ELSE Done(t, "error")
    /\ UNCHANGED <<table, observed, stimuli>>

LegacyOpen(t) ==
    /\ thread[t].pc = "l_write"
    /\ SaveWithEvent(t, "confirm", "running", TRUE)
    /\ Unlock(t)
    /\ UNCHANGED <<receipt, openClaims, gate, observed, stimuli>>

-----------------------------------------------------------------------------
(* Other writers of the same row, crashes, and the CLI *)

\* The research loop runs in its own thread; both of its writes are one
\* compare and set.  commit_round_decision appends an event, store.save
\* (the shown action, a run failure, and setting the action of a research
\* that was paused meanwhile to idle) bumps updated_at alone.
LoopCommit ==
    /\ CanPrompt /\ Prompt
    /\ head.live /\ head.status = "running"
    /\ \E s \in {"running", "idle"} : head' = Bumped(s, FALSE)
    /\ events' = events \cup {LegacyRow("round")}
    /\ UNCHANGED <<receipt, openClaims, gate, lock, thread, observed,
                   answers>>

LoopSave ==
    /\ CanPrompt /\ Prompt
    /\ head.live /\ head.status # "draft"
    /\ \E s \in {head.status, "idle"} :
          head' = [head EXCEPT !.stamp = @ + 1, !.status = s]
    /\ UNCHANGED <<events, receipt, openClaims, gate, lock, thread, observed,
                   answers>>

\* Slip: start-up drops the claims it finds.
RecoveredDropped == [c \in Command |-> IF receipt[c].status = "pending"
                                      THEN NoReceipt ELSE receipt[c]]

\* SQLiteStore.__init__ runs _recover_pending_receipts.
Recovered == [c \in Command |->
                IF receipt[c].status = "pending"
                THEN [receipt[c] EXCEPT !.status = "unknown"]
                ELSE receipt[c]]

\* Slip: a store is opened while the old threads still run.
RestartInPlace ==
    /\ CanPrompt /\ Prompt
    /\ receipt' = Recovered
    /\ UNCHANGED <<head, events, openClaims, gate, lock, thread, observed,
                   answers>>

\* The process dies, and the next one opens the store.
Restart ==
    /\ CanPrompt /\ Prompt
    /\ thread' = [t \in Thread |-> IdleThread]
    /\ lock' = Nobody
    /\ receipt' = Recovered
    /\ UNCHANGED <<head, events, openClaims, gate, observed, answers>>

\* "alphaloop status" opens the same store while the engine serves.
CliStatus ==
    /\ CliMayRun
    /\ CanPrompt /\ Prompt
    /\ receipt' = Recovered
    /\ UNCHANGED <<head, events, openClaims, gate, lock, thread, observed,
                   answers>>

-----------------------------------------------------------------------------
\* _migrate_command_journal gives a research of an older release revision 0,
\* no events and no create command.
FirstHead(found) ==
    [live |-> found # "absent", rev |-> 0, seq |-> 0, stamp |-> 0,
     status |-> IF found = "absent" THEN "draft" ELSE found,
     versions |-> IF found \in {"running", "idle"} THEN 1 ELSE 0,
     creator |-> NoCommand]

Init ==
    /\ \E found \in Found : head = FirstHead(found)
    /\ events = {}
    /\ receipt = [c \in Command |-> NoReceipt]
    /\ openClaims = {}
    /\ gate = "open"
    /\ lock = Nobody
    /\ thread = [t \in Thread |-> IdleThread]
    /\ probes = [c \in Command |-> 0]
    /\ billed = {}
    /\ boosted = {}
    /\ answers = {}
    /\ stimuli = 0

GenericStep(t) == Load(t) \/ Boost(t) \/ Open(t) \/ Write(t) \/ LegacyWrite(t)
ConfirmStep(t) ==
    \/ ConfirmLock(t) \/ ConfirmLoad(t) \/ ConfirmCheck(t)
    \/ ConfirmConflict(t) \/ ConfirmBind(t) \/ ConfirmClaim(t)
    \/ ConfirmProbe(t) \/ ConfirmProbed(t) \/ ConfirmOpen(t)
    \/ ConfirmCommit(t) \/ ConfirmFail(t, TRUE) \/ ConfirmFail(t, FALSE)
    \/ ConfirmFailNote(t)
LegacyStep(t) ==
    \/ LegacyLock(t) \/ LegacyLoad(t) \/ LegacyProbe(t) \/ LegacyProbed(t)
    \/ LegacyFail(t) \/ LegacySave(t) \/ LegacyReload(t) \/ LegacyOpen(t)

ThreadStep(t) ==
    Create(t) \/ Delete(t) \/ GenericStep(t) \/ ConfirmStep(t) \/ LegacyStep(t)

Next ==
    \/ \E t \in Thread : \E q \in Request : Prepare(t, q)
    \/ \E t \in Thread : ThreadStep(t)
    \/ LoopCommit \/ LoopSave \/ Restart \/ CliStatus

Spec == Init /\ [][Next]_vars

\* A worker thread runs; market-data calls have timeouts, so they return.
FairSpec == Spec /\ \A t \in Thread : WF_vars(ThreadStep(t))

-----------------------------------------------------------------------------
(* Properties *)

\* The tables and the threads hold what the code stores in them.
TypeOK ==
    /\ head \in Head
    /\ events \subseteq Event
    /\ receipt \in [Command -> Receipt]
    /\ openClaims \subseteq Command
    /\ gate \in GateReason
    /\ lock \in Thread \cup {Nobody}
    /\ thread \in [Thread -> ThreadState]
    /\ probes \in [Command -> Nat]
    /\ billed \subseteq Command
    /\ boosted \subseteq Command
    /\ answers \subseteq [req: Request, ans: Reply]
    /\ stimuli \in Nat

\* A journaled command changes the research at most once, however often and
\* from however many threads it is sent, with or without a crash in between.
AppliedOnce ==
    \A e, f \in events : e.cmd # NoCommand /\ e.cmd = f.cmd => e = f

\* A command that was journaled against a revision applied to exactly that
\* revision, so of two clients that saw the same revision one wins.
StaleNeverApplies ==
    \A e \in events :
        e.cmd # NoCommand /\ e.kind # "create" => e.rev = e.expected + 1

\* The event log and the receipts tell the same story: an event that names a
\* command has its committed receipt, and a receipt that reports a write
\* names the revision of that command's event.
ReceiptMatchesLog ==
    /\ \A e \in events : e.cmd # NoCommand =>
          /\ receipt[e.cmd].status = "committed"
          /\ receipt[e.cmd].revision = e.rev
    /\ \A c \in Command : receipt[c].status = "committed"
                            /\ receipt[c].outcome = "ok" =>
          \E e \in events : e.cmd = c /\ e.rev = receipt[c].revision

\* Within the life of a research two clients of the same command never hold
\* different final answers.
Final == {"ok", "failed", "conflict"}
OneFinalAnswer ==
    \A a, b \in answers :
        /\ a.req = b.req /\ a.req.cmd # NoCommand
        /\ a.ans \in Final /\ b.ans \in Final
        => a.ans = b.ans

\* One command id is probed once, whatever is replayed or restarted.
ProbedOnce == \A c \in Command : probes[c] <= 1

\* A probe that may have been billed stays reserved in its receipt, through
\* conflicts, failures, restarts and replays.
BilledIsReserved == \A c \in billed : receipt[c].budget = 1

\* Confirming is idempotent across clients: one version is opened by
\* confirmation, whatever mix of clients, retries and crashes sends it.
OneConfirmedVersion ==
    Cardinality({e \in events : e.kind = "confirm"}) <= 1

\* A refused command leaves no trace: its trial budget was not raised.
StaleLeavesNoTrace ==
    \A c \in boosted : receipt[c].status # "revision_conflict"

\* The gate says "this command already opened a version" only when one did.
DuplicateOpenIsReal ==
    gate = "duplicate_open_version" =>
        \E e \in events : e.cmd # NoCommand /\ OpensVersion(e.kind)

\* A remote claim is called unknown only when the handler that made it is
\* gone; one that is pending has a handler that will settle it.
Claimed == {"c_probe", "c_wait", "c_open", "c_commit", "c_fail_keep",
            "c_fail_drop", "c_fail_note"}
UnknownMeansLost ==
    \A c \in Command : receipt[c].status = "unknown" =>
        \A t \in Thread : ~(thread[t].pc \in Claimed /\ thread[t].req.cmd = c)
PendingIsInFlight ==
    \A c \in Command : receipt[c].status = "pending" =>
        \E t \in Thread : thread[t].pc \in Claimed /\ thread[t].req.cmd = c

\* While the outcome of a remote call is unknown, no client sends another
\* one without authorising it.
Probes(t) == thread[t].pc \in {"c_probe", "l_probe"}
                /\ thread'[t].pc \in {"c_wait", "l_wait"}
ResendIsAuthorized ==
    [][\A t \in Thread : Probes(t) /\ HasUnknown => thread[t].req.auth]_vars

\* The journal implements the command log: the tables decide a command when
\* its receipt is committed or marked a conflict.
Decided(r) == IF r.status \in {"committed", "revision_conflict"}
              THEN r.outcome ELSE "open"
Log == INSTANCE CommandLog WITH
          Payload <- Request, alive <- head.live, rev <- head.rev,
          verdict <- [c \in Command |-> Decided(receipt[c])]
ImplementsLog == Log!LogSpec

\* Every request is answered, unless the process dies first: no handler
\* path keeps the confirm_run lock.
EveryRequestAnswered ==
    \A t \in Thread : thread[t].pc # "idle" ~> thread[t].pc = "idle"

\* Every answer is true: the receipts tell what the log says, no command has
\* two final answers, and unknown is said only of a claim whose handler died.
AnswersAreTrue == ReceiptMatchesLog /\ OneFinalAnswer /\ UnknownMeansLost

\* A probe is spent once and paid for once: see its two parts above.
ProbeIsSpentOnce == ProbedOnce /\ BilledIsReserved

\* A draft is confirmed once, whoever sends it how often: one version opened,
\* no probe spent twice or forgotten (main.py:1170).
ConfirmedOnce == ProbeIsSpentOnce /\ OneConfirmedVersion
=============================================================================
