----------------------- MODULE CommandJournalProofs -----------------------
(***************************************************************************)
(* For every set of threads, commands and requests: what the journal       *)
(* promises its clients.                                                   *)
(*                                                                         *)
(*   JournalInv    a command applies once, to the revision its client saw. *)
(*     Neither is inductive: an event says nothing about the next commit.  *)
(*     LoggedIsCommitted carries them: a command with an event has a       *)
(*     committed receipt, which CommandJournal.commit does not commit      *)
(*     again.                                                              *)
(*   HandlerInv    what a handler can rely on between two of its steps:    *)
(*     the lock, and the receipt of the command it confirms.               *)
(*   RowInv        one version is opened by confirmation.                  *)
(*   AnswerInv     receipts, log and answers agree; the journal implements *)
(*     the command log.                                                    *)
(*   SpendInv      one probe for a command, and its budget stays reserved. *)
(*   ResendInv     no second probe while the outcome of one is unknown.    *)
(*                                                                         *)
(* The proofs of the last four sort the actions into a few kinds of steps, *)
(* show that each action is of one kind, and that each kind keeps the      *)
(* invariant.                                                              *)
(***************************************************************************)
EXTENDS CommandJournal, FiniteSetTheorems, TLAPS

-----------------------------------------------------------------------------
(* Types *)

TablesOK ==
    /\ head \in Head
    /\ events \subseteq Event
    /\ receipt \in [Command -> Receipt]
    /\ openClaims \subseteq Command
    /\ gate \in GateReason
    /\ lock \in Thread \cup {Nobody}
    /\ probes \in [Command -> Nat]
    /\ billed \subseteq Command
    /\ boosted \subseteq Command
    /\ stimuli \in Nat

\* A busy thread serves a request, and confirm_run's journaled path serves
\* one with a command id: the handlers index tables by both.
ThreadsOK ==
    /\ thread \in [Thread -> ThreadState]
    /\ answers \subseteq [req: Request, ans: Reply]
    /\ \A t \in Thread : thread[t].pc # "idle" => thread[t].req \in Request
    /\ \A t \in Thread :
          thread[t].pc \in ConfirmPc => thread[t].req.cmd \in Command

\* An idle worker thread is well typed, whatever its fields default to.
LEMMA IdleThreadOK == IdleThread \in ThreadState /\ IdleThread.pc = "idle"
  BY DEF IdleThread, ThreadState, Pc, Status

\* Answering a client leaves the threads well formed.
LEMMA AnswerOK ==
  ASSUME ThreadsOK, NEW t \in Thread, thread[t].pc # "idle",
         NEW a \in Reply, Answer(t, a)
  PROVE  ThreadsOK'
<1>1. thread[t].req \in Request BY DEF ThreadsOK
<1>2. answers' \subseteq [req: Request, ans: Reply]
  BY <1>1 DEF Answer, ThreadsOK
<1>3. /\ thread' \in [Thread -> ThreadState]
      /\ \A u \in Thread : u # t => thread'[u] = thread[u]
      /\ thread'[t].pc = "idle"
  BY IdleThreadOK DEF Answer, ThreadsOK
<1>4. QED BY <1>2, <1>3 DEF ThreadsOK, ConfirmPc

\* Moving on to the next step of a handler does too.
LEMMA GotoOK ==
  ASSUME ThreadsOK, NEW t \in Thread, thread[t].pc # "idle",
         NEW pc \in Pc, pc \in ConfirmPc => thread[t].req.cmd \in Command,
         Goto(t, pc)
  PROVE  ThreadsOK'
<1>1. thread[t] \in ThreadState /\ thread[t].req \in Request
  BY DEF ThreadsOK
<1>2. /\ thread' \in [Thread -> ThreadState]
      /\ \A u \in Thread : u # t => thread'[u] = thread[u]
      /\ thread'[t].pc = pc /\ thread'[t].req = thread[t].req
  BY <1>1 DEF Goto, ThreadsOK, ThreadState
<1>3. QED BY <1>1, <1>2 DEF ThreadsOK, Goto

\* So does taking note of what was read.
LEMMA NoteOK ==
  ASSUME ThreadsOK, NEW t \in Thread, thread[t].pc # "idle",
         UNCHANGED answers,
         NEW new \in ThreadState, new.req = thread[t].req,
         new.pc \in ConfirmPc => thread[t].req.cmd \in Command,
         thread' = [thread EXCEPT ![t] = new]
  PROVE  ThreadsOK'
<1>1. thread[t].req \in Request BY DEF ThreadsOK
<1>2. /\ thread' \in [Thread -> ThreadState]
      /\ \A u \in Thread : u # t => thread'[u] = thread[u]
      /\ thread'[t] = new
  BY DEF ThreadsOK
<1>3. QED BY <1>1, <1>2 DEF ThreadsOK

TypeInv == TablesOK /\ ThreadsOK

\* A request that names a command has its fields in range.
LEMMA RequestOK ==
  ASSUME NEW q \in Request
  PROVE  /\ q \in RequestShape /\ q.kind \in Kind /\ q.expected \in Nat
         /\ q.cmd \in Command \cup {NoCommand}
         /\ ~Legacy(q) => q.cmd \in Command
         /\ q.kind = "create" => q.cmd \in Command
  BY RequestAssumption DEF RequestShape, Legacy

\* Every step of the state machine stays within the three statuses.
LEMMA AfterOK ==
  ASSUME NEW k, NEW s \in Status
  PROVE  After(k, s) \subseteq Status
  BY DEF After

\* What a stored receipt answers is an answer.
LEMMA StoredOK ==
  ASSUME NEW r \in Receipt
  PROVE  Stored(r) \in Reply
  BY DEF Stored, Receipt, Reply, Outcome, ReceiptStatus

\* The rows that a write puts into the tables.
LEMMA RowsOK ==
  ASSUME TablesOK, NEW q \in Request, NEW s \in Status, NEW b \in BOOLEAN,
         NEW k \in Kind \cup {"confirm_failed", "round"}
  PROVE  /\ Bumped(s, b) \in Head
         /\ Row(k, q) \in Event
         /\ LegacyRow(k) \in Event
<1>1. head \in Head /\ head.rev \in Nat /\ head.seq \in Nat
      /\ head.stamp \in Nat /\ head.versions \in Nat
      /\ head.live \in BOOLEAN /\ head.creator \in Command \cup {NoCommand}
  BY DEF TablesOK, Head
<1>2. Bumped(s, b) \in Head
  BY <1>1 DEF Bumped, Head
<1>3. Row(k, q) \in Event BY <1>1, RequestOK DEF Row, Event
<1>4. LegacyRow(k) \in Event BY <1>1 DEF LegacyRow, Event
<1>5. QED BY <1>2, <1>3, <1>4

\* The receipts that a conflict and a commit leave.
LEMMA ReceiptsOK ==
  ASSUME TablesOK, NEW q \in Request, q.cmd \in Command
  PROVE  /\ \A keep \in BOOLEAN : Conflicted(q, keep) \in Receipt
         /\ \A o \in Outcome, b \in {0, 1}, n \in Nat :
               Committed(q, o, b, n) \in Receipt
         /\ receipt[q.cmd] \in Receipt /\ receipt[q.cmd].budget \in {0, 1}
<1>1. receipt[q.cmd] \in Receipt BY DEF TablesOK
<1>2. /\ receipt[q.cmd].budget \in {0, 1}
      /\ receipt[q.cmd].payload \in Request \cup {NoRequest}
  BY <1>1 DEF Receipt
<1>3. head.rev \in Nat BY DEF TablesOK, Head
<1>4. \A keep \in BOOLEAN : Conflicted(q, keep) \in Receipt
  BY <1>2, <1>3 DEF Conflicted, Receipt, ReceiptStatus, Outcome
<1>5. \A o \in Outcome, b \in {0, 1}, n \in Nat :
         Committed(q, o, b, n) \in Receipt
  BY <1>2 DEF Committed, Receipt, ReceiptStatus
<1>6. QED BY <1>1, <1>2, <1>4, <1>5

-----------------------------------------------------------------------------
(* CommandJournal.commit keeps the types *)

JournalTyped == /\ head' \in Head
                /\ events' \subseteq Event
                /\ receipt' \in [Command -> Receipt]

\* Each of the outcomes of CommandJournal.commit keeps rows and receipts
\* typed, and the thread that called it answers its client.
LEMMA CommitOK ==
  ASSUME TypeInv, NEW t \in Thread, thread[t].pc # "idle",
         thread[t].req.cmd \in Command,
         NEW bound \in BOOLEAN, NEW failure \in BOOLEAN, NEW keep \in BOOLEAN
  PROVE  LET q == thread[t].req IN
         /\ CommitReplays(t, q, bound, failure) => ThreadsOK'
         /\ CommitConflicts(t, q, bound, failure, keep) =>
               ThreadsOK' /\ receipt' \in [Command -> Receipt]
         /\ \A s \in Status : CommitApplies(t, q, bound, s) =>
               ThreadsOK' /\ JournalTyped
         /\ CommitRecordsFailure(t, q, keep) => ThreadsOK' /\ JournalTyped
<1> DEFINE q == thread[t].req
<1>q. q \in Request /\ q.cmd \in Command BY DEF TypeInv, ThreadsOK
<1>r. /\ receipt \in [Command -> Receipt] /\ receipt[q.cmd] \in Receipt
      /\ \A k \in BOOLEAN : Conflicted(q, k) \in Receipt
      /\ \A o \in Outcome, b \in {0, 1}, n \in Nat :
            Committed(q, o, b, n) \in Receipt
      /\ receipt[q.cmd].budget \in {0, 1}
  BY <1>q, ReceiptsOK DEF TypeInv, TablesOK
<1>h. head.status \in Status /\ head.rev + 1 \in Nat /\ events \subseteq Event
  BY DEF TypeInv, TablesOK, Head
<1>a. \A a \in Reply : Answer(t, a) => ThreadsOK'
  BY AnswerOK DEF TypeInv
<1>o. {"payload", "conflict", "ok", "failed"} \subseteq Reply
      /\ {"ok", "failed"} \subseteq Outcome
  BY DEF Reply, Outcome
<1> HIDE DEF q
<1>1. CommitReplays(t, q, bound, failure) => ThreadsOK'
  BY <1>r, <1>a, <1>o, StoredOK DEF CommitReplays
<1>2. CommitConflicts(t, q, bound, failure, keep) =>
        ThreadsOK' /\ receipt' \in [Command -> Receipt]
  <2>1. SUFFICES ASSUME CommitConflicts(t, q, bound, failure, keep)
                 PROVE  ThreadsOK' /\ receipt' \in [Command -> Receipt]
    OBVIOUS
  <2>2. receipt' = [receipt EXCEPT ![q.cmd] = Conflicted(q, keep)]
    BY <2>1 DEF CommitConflicts
  <2>3. QED BY <1>r, <1>a, <1>o, <2>1, <2>2 DEF CommitConflicts
<1>3. ASSUME NEW s \in Status, CommitApplies(t, q, bound, s)
      PROVE  ThreadsOK' /\ JournalTyped
  <2>1. /\ head' = Bumped(s, OpensVersion(q.kind))
        /\ events' = events \cup {Row(q.kind, q)}
        /\ receipt' = [receipt EXCEPT ![q.cmd] =
             Committed(q, "ok", receipt[q.cmd].budget, head.rev + 1)]
        /\ ThreadsOK'
    BY <1>3, <1>a, <1>o DEF CommitApplies, Applied
  <2>2. /\ head' \in Head
        /\ Row(q.kind, q) \in Event
    <3>1. OpensVersion(q.kind) \in BOOLEAN BY DEF OpensVersion
    <3>2. TablesOK /\ q.kind \in Kind BY <1>q, RequestOK DEF TypeInv
    <3>3. Bumped(s, OpensVersion(q.kind)) \in Head
      BY <3>1, <3>2, <1>q, RowsOK, Zenon
    <3>4. Row(q.kind, q) \in Event
      BY <3>2, <1>q, <1>3, RowsOK
    <3>5. QED BY <2>1, <3>3, <3>4
  <2>3. QED BY <2>1, <2>2, <1>r, <1>h, <1>o DEF JournalTyped
<1>4. ASSUME CommitRecordsFailure(t, q, keep)
      PROVE  ThreadsOK' /\ JournalTyped
  <2>1. /\ head' = Bumped(head.status, FALSE)
        /\ events' = events \cup {Row("confirm_failed", q)}
        /\ receipt' = [receipt EXCEPT ![q.cmd] =
             Committed(q, "failed", IF keep THEN 1 ELSE 0, head.rev + 1)]
        /\ ThreadsOK'
    BY <1>4, <1>a, <1>o DEF CommitRecordsFailure, FailureNoted
  <2>2. /\ head' \in Head
        /\ Row("confirm_failed", q) \in Event
    BY <2>1, <1>q, <1>h, RowsOK DEF TypeInv
  <2>3. QED BY <2>1, <2>2, <1>r, <1>h, <1>o DEF JournalTyped
<1>5. QED BY <1>1, <1>2, <1>3, <1>4 DEF q

\* store.save_with_event, the legacy write.
LEMMA SaveWithEventOK ==
  ASSUME TypeInv, NEW t \in Thread, thread[t].pc # "idle",
         NEW k \in Kind, NEW s \in Status, NEW b \in BOOLEAN,
         SaveWithEvent(t, k, s, b)
  PROVE  /\ ThreadsOK' /\ head' \in Head /\ events' \subseteq Event
<1>1. ThreadsOK'
  BY AnswerOK DEF SaveWithEvent, TypeInv, Reply, Outcome
<1>2. thread[t].req \in Request BY DEF TypeInv, ThreadsOK
<1>3. Bumped(s, b) \in Head /\ LegacyRow(k) \in Event
  BY <1>2, RowsOK DEF TypeInv
<1>4. QED BY <1>1, <1>3 DEF SaveWithEvent, TypeInv, TablesOK

-----------------------------------------------------------------------------
(* Every step keeps the types *)

\* The ways in which a busy thread moves.
LEMMA MovesOK ==
  ASSUME TypeInv, NEW t \in Thread, thread[t].pc # "idle"
  PROVE  /\ \A a \in Reply : Answer(t, a) => ThreadsOK'
         /\ \A a \in Reply : Done(t, a) => ThreadsOK'
         /\ \A pc \in Pc \ ConfirmPc : Goto(t, pc) => ThreadsOK'
         /\ \A pc \in ConfirmPc : thread[t].req.cmd \in Command =>
               (Goto(t, pc) => ThreadsOK')
         /\ \A a \in Reply : Done(t, a) => lock' \in Thread \cup {Nobody}
         /\ Unlock(t) => lock' \in Thread \cup {Nobody}
<1>1. ThreadsOK /\ lock \in Thread \cup {Nobody} BY DEF TypeInv, TablesOK
<1>2. \A a \in Reply : Answer(t, a) => ThreadsOK' BY <1>1, AnswerOK
<1>3. Unlock(t) => lock' \in Thread \cup {Nobody} BY <1>1 DEF Unlock
<1>4. \A pc \in Pc : (pc \in ConfirmPc => thread[t].req.cmd \in Command)
                        /\ Goto(t, pc) => ThreadsOK'
  BY <1>1, GotoOK
<1>5. ConfirmPc \subseteq Pc BY DEF Pc
<1>6. QED BY <1>2, <1>3, <1>4, <1>5 DEF Done

\* Closing the gate keeps its type.
LEMMA TripOK ==
  ASSUME TypeInv, NEW reason \in GateReason, Trip(reason)
  PROVE  gate' \in GateReason
  BY DEF Trip, TypeInv, TablesOK

\* Receiving a request keeps the types.
LEMMA PrepareTypes ==
  ASSUME TypeInv, NEW t \in Thread, NEW q \in Request, Prepare(t, q)
  PROVE  TypeInv'
<1>1. \A a \in Reply : AnswerNow(q, a) => ThreadsOK'
  BY DEF AnswerNow, TypeInv, ThreadsOK
<1>2. ASSUME Serve(t, q, "dispatch"), UNCHANGED answers PROVE ThreadsOK'
  <2>1. [IdleThread EXCEPT !.pc = "dispatch", !.req = q] \in ThreadState
    BY DEF IdleThread, ThreadState, Pc, GenericPc, Status
  <2>2. /\ thread' \in [Thread -> ThreadState]
        /\ \A u \in Thread : u # t => thread'[u] = thread[u]
        /\ thread'[t].pc = "dispatch" /\ thread'[t].req = q
    BY <1>2, <2>1 DEF Serve, TypeInv, ThreadsOK, IdleThread
  <2>3. QED BY <1>2, <2>2 DEF TypeInv, ThreadsOK, ConfirmPc
<1>3. \A r \in Receipt : Stored(r) \in Reply BY StoredOK
<1>4. Trip("unauthorized_resend") => gate' \in GateReason
  BY TripOK DEF GateReason
<1>5. gate' \in GateReason /\ ThreadsOK'
  <2>1. {"unknown", "payload"} \subseteq Reply BY DEF Reply, Outcome
  <2>2. ~Legacy(q) => receipt[q.cmd] \in Receipt
    BY RequestOK DEF TypeInv, TablesOK
  <2>3. gate \in GateReason BY DEF TypeInv, TablesOK
  <2>4. CASE PrepareLegacy(t, q) BY <2>4, <1>2, <2>3 DEF PrepareLegacy
  <2>5. CASE PrepareFresh(t, q)
    BY <2>5, <1>1, <1>2, <1>4, <2>1, <2>3 DEF PrepareFresh
  <2>6. CASE PrepareKnown(t, q)
    BY <2>6, <1>1, <1>3, <1>4, <2>1, <2>2, <2>3 DEF PrepareKnown
  <2>7. QED BY <2>4, <2>5, <2>6 DEF Prepare
<1>6. stimuli' \in Nat BY DEF Prepare, Prompt, TypeInv, TablesOK
<1>7. QED BY <1>5, <1>6 DEF Prepare, TypeInv, TablesOK, observed

\* create_draft and delete_research keep the types.
LEMMA CreateDeleteTypes ==
  ASSUME TypeInv, NEW t \in Thread, Create(t) \/ Delete(t)
  PROVE  TypeInv'
<1> DEFINE q == thread[t].req
<1>1. thread[t].pc # "idle" BY DEF Create, Delete
<1>2. q \in Request BY <1>1 DEF TypeInv, ThreadsOK
<1>3. CASE Create(t)
  <2>1. q.cmd \in Command /\ receipt[q.cmd] \in Receipt
    BY <1>2, <1>3, RequestOK DEF Create, TypeInv, TablesOK
  <2>2. ThreadsOK'
    BY <1>1, <1>3, <2>1, MovesOK, StoredOK DEF Create, Reply, Outcome
  <2>3. /\ \A n \in Nat : CreateReceipt(q, n) \in Receipt
        /\ head.rev \in Nat /\ head.stamp + 1 \in Nat
    BY <1>2 DEF CreateReceipt, Receipt, ReceiptStatus, Outcome, TypeInv,
                TablesOK, Head
  <2>4. receipt' \in [Command -> Receipt]
    BY <1>3, <2>3 DEF Create, TypeInv, TablesOK
  <2>5. head' \in Head
    <3> DEFINE new == [live |-> TRUE, rev |-> 0, seq |-> 1,
                       stamp |-> head.stamp + 1, status |-> "draft",
                       versions |-> 0, creator |-> q.cmd]
    <3>1. new \in Head BY <2>1, <2>3 DEF Head, Status
    <3>2. head' = head \/ head' = new BY <1>3 DEF Create
    <3>3. QED BY <3>1, <3>2 DEF TypeInv, TablesOK
  <2>6. events' \subseteq Event
    BY <1>3, <2>1 DEF Create, TypeInv, TablesOK, Event, Kind
  <2>7. QED
    BY <1>3, <2>2, <2>4, <2>5, <2>6 DEF Create, TypeInv, TablesOK, observed
<1>4. CASE Delete(t)
  <2>1. /\ thread' \in [Thread -> ThreadState]
        /\ \A u \in Thread : u # t => thread'[u] = thread[u]
        /\ thread'[t].pc = "idle"
    BY <1>4, IdleThreadOK DEF Delete, TypeInv, ThreadsOK
  <2>2. ThreadsOK'
    BY <1>4, <2>1 DEF Delete, TypeInv, ThreadsOK, ConfirmPc
  <2>3. NoReceipt \in Receipt
    BY DEF NoReceipt, Receipt, ReceiptStatus, Outcome
  <2>4. head' \in Head
    BY <1>4 DEF Delete, TypeInv, TablesOK, Head
  <2>5. QED
    BY <1>4, <2>2, <2>3, <2>4 DEF Delete, TypeInv, TablesOK, observed
<1>5. QED BY <1>3, <1>4

\* What a handler may note: the stamp and status of the row it read.
LEMMA LoadedOK ==
  ASSUME TypeInv, NEW t \in Thread, thread[t].pc # "idle", NEW pc \in Pc,
         pc \in ConfirmPc => thread[t].req.cmd \in Command,
         UNCHANGED answers,
         thread' = [thread EXCEPT ![t] =
                      [@ EXCEPT !.pc = pc, !.stamp = head.stamp,
                                !.status = head.status]]
  PROVE  ThreadsOK'
<1>1. thread[t] \in ThreadState /\ head.stamp \in Nat /\ head.status \in Status
  BY DEF TypeInv, ThreadsOK, TablesOK, Head
<1> DEFINE new == [thread[t] EXCEPT !.pc = pc, !.stamp = head.stamp,
                                    !.status = head.status]
<1>2. /\ new \in ThreadState /\ new.pc = pc /\ new.req = thread[t].req
  BY <1>1 DEF ThreadState
<1>3. thread' = [thread EXCEPT ![t] = new]
  BY DEF TypeInv, ThreadsOK
<1> HIDE DEF new
<1>4. QED BY <1>2, <1>3, NoteOK DEF TypeInv

\* The writes without a lock keep the types.
LEMMA GenericTypes ==
  ASSUME TypeInv, NEW t \in Thread, GenericStep(t)
  PROVE  TypeInv'
<1> DEFINE q == thread[t].req
<1>1. thread[t].pc # "idle"
  BY DEF GenericStep, Load, Boost, Open, Write, LegacyWrite
<1>2. /\ q \in Request /\ q.kind \in Kind
      /\ ~Legacy(q) => q.cmd \in Command
  BY <1>1, RequestOK DEF TypeInv, ThreadsOK
<1>3. /\ thread[t] \in ThreadState /\ thread[t].status \in Status
      /\ head.stamp \in Nat /\ head.status \in Status
  BY DEF TypeInv, ThreadsOK, ThreadState, TablesOK, Head
<1>4. CASE Load(t)
  <2>1. NextPc(q.kind) \in Pc /\ NextPc(q.kind) \notin ConfirmPc
    BY DEF NextPc, Pc, GenericPc, ConfirmPc
  <2>2. ThreadsOK'
    BY <1>1, <1>4, <2>1, LoadedOK, MovesOK DEF Load, Reply
  <2>3. gate' \in GateReason
    BY <1>4 DEF Load, TypeInv, TablesOK, GateReason
  <2>4. QED BY <1>4, <2>2, <2>3 DEF Load, TypeInv, TablesOK, observed
<1>5. CASE Boost(t)
  <2>1. CASE head.live /\ head.stamp = thread[t].stamp
    <3> DEFINE new == [thread[t] EXCEPT !.pc = "write",
                                        !.stamp = head.stamp + 1]
    <3>1. head.stamp + 1 \in Nat BY <1>3
    <3>2. [head EXCEPT !.stamp = head.stamp + 1] \in Head
      BY <3>1 DEF TypeInv, TablesOK, Head
    <3>3. /\ new \in ThreadState /\ new.req = thread[t].req
          /\ new.pc = "write"
      BY <1>3, <3>1 DEF ThreadState, Pc, GenericPc
    <3>4. thread' = [thread EXCEPT ![t] = new] /\ UNCHANGED answers
      BY <1>5, <2>1 DEF Boost
    <3> HIDE DEF new
    <3>5. "write" \notin ConfirmPc BY DEF ConfirmPc
    <3>6. ThreadsOK' BY <1>1, <3>3, <3>4, <3>5, NoteOK DEF TypeInv
    <3>7. boosted' \subseteq Command
      BY <1>2, <1>5, <2>1 DEF Boost, TypeInv, TablesOK
    <3>8. head' \in Head BY <1>5, <2>1, <3>2 DEF Boost
    <3>9. QED BY <1>5, <3>6, <3>7, <3>8 DEF Boost, TypeInv, TablesOK
  <2>2. CASE ~(head.live /\ head.stamp = thread[t].stamp)
    <3>1. ThreadsOK' BY <1>1, <1>5, <2>2, MovesOK DEF Boost, Reply
    <3>2. QED BY <1>5, <2>2, <3>1 DEF Boost, TypeInv, TablesOK
  <2>3. QED BY <2>1, <2>2
<1>6. CASE Open(t)
  <2>1. ThreadsOK'
    BY <1>1, <1>6, MovesOK DEF Open, Reply, Pc, GenericPc, ConfirmPc
  <2>2. gate' \in GateReason
    BY <1>6, TripOK DEF Open, GateReason, TypeInv, TablesOK
  <2>3. QED BY <1>2, <1>6, <2>1, <2>2 DEF Open, TypeInv, TablesOK, observed
<1>7. CASE Write(t)
  <2>1. q.cmd \in Command BY <1>2, <1>7 DEF Write
  <2>2. After(q.kind, thread[t].status) \subseteq Status BY <1>3, AfterOK
  <2>3. ThreadsOK' /\ JournalTyped
    <3>1. CASE CommitReplays(t, q, FALSE, FALSE)
               /\ UNCHANGED <<head, events, receipt>>
      BY <1>1, <2>1, <3>1, CommitOK DEF JournalTyped, TypeInv, TablesOK
    <3>2. CASE CommitConflicts(t, q, FALSE, FALSE, FALSE)
               /\ UNCHANGED <<head, events>>
      BY <1>1, <2>1, <3>2, CommitOK DEF JournalTyped, TypeInv, TablesOK
    <3>3. CASE \E s \in After(q.kind, thread[t].status) :
                  CommitApplies(t, q, FALSE, s)
      BY <1>1, <2>1, <2>2, <3>3, CommitOK
    <3>4. CASE Answer(t, "error") /\ UNCHANGED <<head, events, receipt>>
      BY <1>1, <3>4, MovesOK DEF JournalTyped, TypeInv, TablesOK, Reply
    <3>5. QED BY <1>7, <3>1, <3>2, <3>3, <3>4 DEF Write
  <2>4. QED BY <1>7, <2>3 DEF Write, JournalTyped, TypeInv, TablesOK, observed
<1>8. CASE LegacyWrite(t)
  <2>1. PICK s \in After(q.kind, thread[t].status) :
           SaveWithEvent(t, q.kind, s, OpensVersion(q.kind))
    BY <1>8 DEF LegacyWrite
  <2>2. s \in Status /\ OpensVersion(q.kind) \in BOOLEAN
    BY <1>3, AfterOK DEF OpensVersion
  <2>3. ThreadsOK' /\ head' \in Head /\ events' \subseteq Event
    BY <1>1, <1>2, <2>1, <2>2, SaveWithEventOK, Zenon
  <2>4. QED BY <1>8, <2>3 DEF LegacyWrite, TypeInv, TablesOK, observed
<1>9. QED BY <1>4, <1>5, <1>6, <1>7, <1>8 DEF GenericStep

\* The first half of a journaled confirmation, up to its remote claim.
LEMMA ConfirmClaimTypes ==
  ASSUME TypeInv, NEW t \in Thread,
         \/ ConfirmLock(t) \/ ConfirmLoad(t) \/ ConfirmCheck(t)
         \/ ConfirmConflict(t) \/ ConfirmBind(t) \/ ConfirmClaim(t)
  PROVE  TypeInv'
<1> DEFINE q == thread[t].req
<1>1. thread[t].pc # "idle"
  BY DEF ConfirmLock, ConfirmLoad, ConfirmCheck, ConfirmConflict, ConfirmBind,
         ConfirmClaim
<1>2. q \in Request BY <1>1 DEF TypeInv, ThreadsOK
<1>3. q.cmd \in Command
  BY <1>2, RequestOK DEF ConfirmLock, ConfirmLoad, ConfirmCheck,
     ConfirmConflict, ConfirmBind, ConfirmClaim, TypeInv, ThreadsOK, ConfirmPc
<1>4. /\ receipt \in [Command -> Receipt] /\ receipt[q.cmd] \in Receipt
      /\ Stored(receipt[q.cmd]) \in Reply
      /\ Conflicted(q, FALSE) \in Receipt
      /\ lock \in Thread \cup {Nobody} /\ gate \in GateReason
  BY <1>2, <1>3, StoredOK, ReceiptsOK DEF TypeInv, TablesOK
<1>5. \A a \in Reply :
         Done(t, a) => ThreadsOK' /\ lock' \in Thread \cup {Nobody}
  BY <1>1, MovesOK
<1>6. \A pc \in ConfirmPc : Goto(t, pc) => ThreadsOK'
  BY <1>1, <1>3, MovesOK
<1>7. {"error", "view", "payload", "conflict"} \subseteq Reply
      /\ ConfirmPc \subseteq Pc
  BY DEF Reply, Outcome, Pc
<1>8. Trip("unauthorized_resend") => gate' \in GateReason
  BY TripOK DEF GateReason
<1> HIDE DEF q
<1>9. CASE ConfirmLock(t)
  <2>1. \A a \in Reply : Answer(t, a) => ThreadsOK' BY <1>1, MovesOK
  <2>2. ThreadsOK' /\ gate' \in GateReason /\ lock' \in Thread \cup {Nobody}
    BY <1>4, <1>6, <1>7, <1>8, <1>9, <2>1 DEF ConfirmLock, ConfirmPc, q
  <2>3. QED BY <1>9, <2>2 DEF ConfirmLock, TypeInv, TablesOK, observed
<1>10. CASE ConfirmLoad(t)
  <2>1. ThreadsOK' /\ lock' \in Thread \cup {Nobody}
    <3>1. CASE head.live
      BY <1>1, <1>3, <1>4, <1>7, <1>10, <3>1, LoadedOK
      DEF ConfirmLoad, ConfirmPc, q
    <3>2. CASE ~head.live BY <1>5, <1>7, <1>10, <3>2 DEF ConfirmLoad
    <3>3. QED BY <3>1, <3>2
  <2>2. QED BY <1>10, <2>1 DEF ConfirmLoad, TypeInv, TablesOK, observed
<1>11. CASE ConfirmCheck(t)
  <2>1. ThreadsOK' /\ lock' \in Thread \cup {Nobody}
    BY <1>4, <1>5, <1>6, <1>7, <1>11 DEF ConfirmCheck, ConfirmPc
  <2>2. QED BY <1>11, <2>1 DEF ConfirmCheck, TypeInv, TablesOK, observed
<1>12. CASE ConfirmConflict(t)
  <2>1. ThreadsOK' /\ lock' \in Thread \cup {Nobody}
    BY <1>5, <1>7, <1>12 DEF ConfirmConflict
  <2>2. receipt' \in [Command -> Receipt]
    BY <1>3, <1>4, <1>12 DEF ConfirmConflict, q
  <2>3. QED BY <1>12, <2>1, <2>2 DEF ConfirmConflict, TypeInv, TablesOK, observed
<1>13. CASE ConfirmBind(t)
  <2>1. ThreadsOK' /\ lock' \in Thread \cup {Nobody}
    <3>1. CASE head.live
      <4> DEFINE new == [thread[t] EXCEPT !.pc = "c_claim",
                            !.bound = head.stamp,
                            !.boundVersions = head.versions]
      <4>1. head.stamp \in Nat /\ head.versions \in Nat
            /\ thread[t] \in ThreadState
        BY DEF TypeInv, TablesOK, ThreadsOK, Head
      <4>2. /\ new \in ThreadState /\ new.pc = "c_claim"
            /\ new.req = thread[t].req
        BY <4>1 DEF ThreadState, Pc, ConfirmPc
      <4>3. thread' = [thread EXCEPT ![t] = new]
            /\ UNCHANGED <<answers, lock>>
        BY <1>13, <3>1 DEF ConfirmBind
      <4> HIDE DEF new
      <4>4. QED BY <1>1, <1>3, <1>4, <4>2, <4>3, NoteOK DEF TypeInv, q
    <3>2. CASE ~head.live BY <1>5, <1>7, <1>13, <3>2 DEF ConfirmBind
    <3>3. QED BY <3>1, <3>2
  <2>2. QED BY <1>13, <2>1 DEF ConfirmBind, TypeInv, TablesOK, observed
<1>14. CASE ConfirmClaim(t)
  <2>1. ThreadsOK' /\ gate' \in GateReason /\ lock' \in Thread \cup {Nobody}
    BY <1>4, <1>5, <1>6, <1>7, <1>8, <1>14 DEF ConfirmClaim, ConfirmPc, q
  <2>2. [status |-> "pending", payload |-> q, outcome |-> "none",
         budget |-> 1, revision |-> q.expected] \in Receipt
    BY <1>2, RequestOK DEF Receipt, ReceiptStatus, Outcome, q
  <2>3. receipt' \in [Command -> Receipt]
    BY <1>3, <1>4, <1>14, <2>2 DEF ConfirmClaim, q
  <2>4. QED BY <1>14, <2>1, <2>3 DEF ConfirmClaim, TypeInv, TablesOK, observed
<1>15. QED BY <1>9, <1>10, <1>11, <1>12, <1>13, <1>14

\* The second half: the probe, and the commit or the failure.
LEMMA ConfirmSettleTypes ==
  ASSUME TypeInv, NEW t \in Thread,
         \/ ConfirmProbe(t) \/ ConfirmProbed(t) \/ ConfirmOpen(t)
         \/ ConfirmCommit(t) \/ ConfirmFail(t, TRUE) \/ ConfirmFail(t, FALSE)
         \/ ConfirmFailNote(t)
  PROVE  TypeInv'
<1> DEFINE q == thread[t].req
<1>1. thread[t].pc \in ConfirmPc /\ thread[t].pc # "idle"
  BY DEF ConfirmProbe, ConfirmProbed, ConfirmOpen, ConfirmCommit, ConfirmFail,
         ConfirmFailNote, ConfirmPc
<1>2. q \in Request /\ q.cmd \in Command BY <1>1 DEF TypeInv, ThreadsOK
<1>3. /\ receipt \in [Command -> Receipt] /\ receipt[q.cmd] \in Receipt
      /\ \A o \in Outcome, b \in {0, 1}, n \in Nat :
            Committed(q, o, b, n) \in Receipt
  BY <1>2, ReceiptsOK DEF TypeInv, TablesOK
<1>4. \A a \in Reply :
         Done(t, a) => ThreadsOK' /\ lock' \in Thread \cup {Nobody}
  BY <1>1, MovesOK
<1>5. \A a \in Reply : Answer(t, a) => ThreadsOK' BY <1>1, MovesOK
<1>6. \A pc \in ConfirmPc : Goto(t, pc) => ThreadsOK'
  BY <1>1, <1>2, MovesOK
<1>7. Unlock(t) => lock' \in Thread \cup {Nobody} BY <1>1, MovesOK
<1>8. {"error", "failed"} \subseteq Reply /\ "failed" \in Outcome
  BY DEF Reply, Outcome
<1>9. /\ lock \in Thread \cup {Nobody} /\ gate \in GateReason
      /\ openClaims \subseteq Command /\ head.rev \in Nat
      /\ thread[t].status \in Status /\ head \in Head /\ events \subseteq Event
  BY DEF TypeInv, TablesOK, ThreadsOK, ThreadState, Head
<1> HIDE DEF q
<1>10. CASE ConfirmProbe(t)
  <2>1. ThreadsOK' BY <1>6, <1>10 DEF ConfirmProbe, ConfirmPc
  <2>2. probes' \in [Command -> Nat] /\ billed' \subseteq Command
    BY <1>2, <1>10 DEF ConfirmProbe, TypeInv, TablesOK, q
  <2>3. QED BY <1>10, <2>1, <2>2 DEF ConfirmProbe, TypeInv, TablesOK, table
<1>11. CASE ConfirmProbed(t)
  <2>1. ThreadsOK' /\ lock' \in Thread \cup {Nobody}
    BY <1>4, <1>6, <1>8, <1>9, <1>11 DEF ConfirmProbed, ConfirmPc
  <2>2. billed' \subseteq Command
    BY <1>11 DEF ConfirmProbed, TypeInv, TablesOK
  <2>3. QED BY <1>11, <2>1, <2>2 DEF ConfirmProbed, TypeInv, TablesOK, table
<1>12. CASE ConfirmOpen(t)
  <2>1. ThreadsOK' /\ lock' \in Thread \cup {Nobody}
    BY <1>4, <1>6, <1>8, <1>9, <1>12 DEF ConfirmOpen, ConfirmPc
  <2>2. gate' \in GateReason BY <1>9, <1>12, TripOK DEF ConfirmOpen, GateReason
  <2>3. QED
    BY <1>2, <1>9, <1>12, <2>1, <2>2 DEF ConfirmOpen, TypeInv, TablesOK, observed, q
<1>13. CASE ConfirmCommit(t)
  <2>1. ThreadsOK' /\ JournalTyped
    <3>1. CASE CommitReplays(t, q, TRUE, FALSE)
               /\ UNCHANGED <<head, events, receipt>>
      BY <1>1, <1>2, <1>3, <1>9, <3>1, CommitOK DEF JournalTyped, q
    <3>2. CASE CommitConflicts(t, q, TRUE, FALSE, TRUE)
               /\ UNCHANGED <<head, events>>
      BY <1>1, <1>2, <1>9, <3>2, CommitOK DEF JournalTyped, q
    <3>3. CASE CommitApplies(t, q, TRUE, "running")
      <4>1. "running" \in Status BY DEF Status
      <4>2. QED BY <1>1, <1>2, <3>3, <4>1, CommitOK DEF q
    <3>4. CASE Answer(t, "error") /\ UNCHANGED <<head, events, receipt>>
      BY <1>3, <1>5, <1>8, <1>9, <3>4 DEF JournalTyped
    <3>5. QED BY <1>13, <3>1, <3>2, <3>3, <3>4 DEF ConfirmCommit, q
  <2>2. openClaims' \subseteq Command
    BY <1>9, <1>13 DEF ConfirmCommit
  <2>3. lock' \in Thread \cup {Nobody} BY <1>7, <1>13 DEF ConfirmCommit
  <2>4. QED
    BY <1>13, <2>1, <2>2, <2>3
    DEF ConfirmCommit, JournalTyped, TypeInv, TablesOK, observed
<1>14. ASSUME NEW keep \in BOOLEAN, ConfirmFail(t, keep) PROVE TypeInv'
  <2>1. ThreadsOK' /\ JournalTyped
    <3>1. CASE CommitReplays(t, q, TRUE, TRUE)
               /\ UNCHANGED <<head, events, receipt>>
      BY <1>1, <1>2, <1>3, <1>9, <3>1, CommitOK DEF JournalTyped, q
    <3>2. CASE CommitConflicts(t, q, TRUE, TRUE, keep)
               /\ UNCHANGED <<head, events>>
      BY <1>1, <1>2, <1>9, <3>2, CommitOK DEF JournalTyped, q
    <3>3. CASE CommitRecordsFailure(t, q, keep)
      BY <1>1, <1>2, <3>3, CommitOK DEF q
    <3>4. CASE Answer(t, "error") /\ UNCHANGED <<head, events, receipt>>
      BY <1>3, <1>5, <1>8, <1>9, <3>4 DEF JournalTyped
    <3>5. QED BY <1>14, <3>1, <3>2, <3>3, <3>4 DEF ConfirmFail, q
  <2>2. lock' \in Thread \cup {Nobody} BY <1>7, <1>14 DEF ConfirmFail
  <2>3. QED
    BY <1>14, <2>1, <2>2
    DEF ConfirmFail, JournalTyped, TypeInv, TablesOK, observed
<1>15. CASE ConfirmFailNote(t)
  <2>1. ThreadsOK' BY <1>5, <1>8, <1>15 DEF ConfirmFailNote
  <2>2. receipt' \in [Command -> Receipt]
    BY <1>3, <1>8, <1>9, <1>15 DEF ConfirmFailNote, q
  <2>3. lock' \in Thread \cup {Nobody} BY <1>7, <1>15 DEF ConfirmFailNote
  <2>4. QED
    BY <1>15, <2>1, <2>2, <2>3 DEF ConfirmFailNote, TypeInv, TablesOK, observed
<1>16. QED BY <1>10, <1>11, <1>12, <1>13, <1>14, <1>15

\* A legacy confirmation keeps the types.
LEMMA LegacyTypes ==
  ASSUME TypeInv, NEW t \in Thread, LegacyStep(t)
  PROVE  TypeInv'
<1>1. thread[t].pc # "idle"
  BY DEF LegacyStep, LegacyLock, LegacyLoad, LegacyProbe, LegacyProbed,
         LegacyFail, LegacySave, LegacyReload, LegacyOpen
<1>2. \A a \in Reply :
         Done(t, a) => ThreadsOK' /\ lock' \in Thread \cup {Nobody}
  BY <1>1, MovesOK
<1>3. \A pc \in LegacyPc : pc \in Pc \ ConfirmPc
  BY DEF Pc, LegacyPc, ConfirmPc
<1>4. \A pc \in LegacyPc : Goto(t, pc) => ThreadsOK'
  BY <1>1, <1>3, MovesOK
<1>5. {"error", "view"} \subseteq Reply BY DEF Reply
<1>6. /\ thread[t].req \in Request /\ head \in Head /\ head.stamp \in Nat
      /\ head.status \in Status /\ lock \in Thread \cup {Nobody}
  BY <1>1 DEF TypeInv, ThreadsOK, TablesOK, Head
<1>7. CASE LegacyLock(t)
  BY <1>4, <1>7 DEF LegacyLock, LegacyPc, TypeInv, TablesOK, table, observed
<1>8. CASE LegacyLoad(t)
  <2>1. ThreadsOK' /\ lock' \in Thread \cup {Nobody}
    <3>1. CASE \E a \in {"error", "view"} : Done(t, a)
      BY <1>2, <1>5, <3>1
    <3>2. CASE ~\E a \in {"error", "view"} : Done(t, a)
      BY <1>1, <1>3, <1>6, <1>8, <3>2, LoadedOK DEF LegacyLoad, LegacyPc
    <3>3. QED BY <3>1, <3>2
  <2>2. QED BY <1>8, <2>1 DEF LegacyLoad, TypeInv, TablesOK, table, observed
<1>9. CASE LegacyProbe(t)
  BY <1>4, <1>9 DEF LegacyProbe, LegacyPc, TypeInv, TablesOK, table, observed
<1>10. CASE LegacyProbed(t)
  <2>1. ThreadsOK' /\ lock' \in Thread \cup {Nobody}
    BY <1>2, <1>4, <1>5, <1>6, <1>10 DEF LegacyProbed, LegacyPc
  <2>2. QED BY <1>10, <2>1 DEF LegacyProbed, TypeInv, TablesOK, table, observed
<1>11. CASE LegacyFail(t)
  <2>1. ThreadsOK' /\ lock' \in Thread \cup {Nobody}
    BY <1>2, <1>5, <1>11 DEF LegacyFail
  <2>2. Bumped(head.status, FALSE) \in Head /\ LegacyRow("confirm_failed") \in Event
    BY <1>6, RowsOK DEF TypeInv
  <2>3. QED BY <1>11, <2>1, <2>2 DEF LegacyFail, TypeInv, TablesOK, observed
<1>12. CASE LegacySave(t)
  <2>1. ThreadsOK' /\ lock' \in Thread \cup {Nobody}
    BY <1>2, <1>4, <1>5, <1>6, <1>12 DEF LegacySave, LegacyPc
  <2>2. [head EXCEPT !.stamp = head.stamp + 1] \in Head
    <3>1. head.stamp + 1 \in Nat BY <1>6
    <3>2. QED BY <1>6, <3>1 DEF Head
  <2>3. QED BY <1>12, <2>1, <2>2 DEF LegacySave, TypeInv, TablesOK, observed
<1>13. CASE LegacyReload(t)
  <2>1. ThreadsOK' /\ lock' \in Thread \cup {Nobody}
    <3>1. CASE Done(t, "error") BY <1>2, <1>5, <3>1
    <3>2. CASE ~Done(t, "error")
      BY <1>1, <1>3, <1>6, <1>13, <3>2, LoadedOK DEF LegacyReload, LegacyPc
    <3>3. QED BY <3>1, <3>2
  <2>2. QED BY <1>13, <2>1 DEF LegacyReload, TypeInv, TablesOK, table, observed
<1>14. CASE LegacyOpen(t)
  <2>1. "running" \in Status /\ "confirm" \in Kind BY DEF Status, Kind
  <2>2. ThreadsOK' /\ head' \in Head /\ events' \subseteq Event
    BY <1>1, <1>14, <2>1, SaveWithEventOK DEF LegacyOpen
  <2>3. lock' \in Thread \cup {Nobody} BY <1>1, <1>14, MovesOK DEF LegacyOpen
  <2>4. QED BY <1>14, <2>2, <2>3 DEF LegacyOpen, TypeInv, TablesOK, observed
<1>15. QED
  BY <1>7, <1>8, <1>9, <1>10, <1>11, <1>12, <1>13, <1>14 DEF LegacyStep

\* The loop, a restart and the CLI keep the types.
LEMMA OutsideTypes ==
  ASSUME TypeInv, LoopCommit \/ LoopSave \/ Restart \/ CliStatus
  PROVE  TypeInv'
<1>1. /\ head \in Head /\ head.stamp + 1 \in Nat /\ stimuli + 1 \in Nat
      /\ head.rev + 1 \in Nat /\ head.seq + 1 \in Nat
      /\ head.versions \in Nat /\ head.live \in BOOLEAN
      /\ head.creator \in Command \cup {NoCommand}
      /\ receipt \in [Command -> Receipt] /\ events \subseteq Event
  BY DEF TypeInv, TablesOK, Head
<1>2. Recovered \in [Command -> Receipt]
  <2>1. \A r \in Receipt : [r EXCEPT !.status = "unknown"] \in Receipt
    BY DEF Receipt, ReceiptStatus
  <2>2. QED BY <1>1, <2>1 DEF Recovered
<1>3. CASE LoopCommit
  <2>1. PICK s \in {"running", "idle"} : head' = Bumped(s, FALSE)
    BY <1>3 DEF LoopCommit
  <2>2. head' \in Head BY <1>1, <2>1 DEF Bumped, Head, Status
  <2>3. LegacyRow("round") \in Event BY <1>1 DEF LegacyRow, Event
  <2>4. QED
    BY <1>1, <1>3, <2>2, <2>3
    DEF LoopCommit, Prompt, TypeInv, TablesOK, ThreadsOK, observed
<1>4. CASE LoopSave
  <2>1. \A s \in Status : \A n \in Nat :
           [head EXCEPT !.stamp = n, !.status = s] \in Head
    BY <1>1 DEF Head
  <2>2. PICK s \in {head.status, "idle"} :
           head' = [head EXCEPT !.stamp = head.stamp + 1, !.status = s]
    BY <1>4 DEF LoopSave
  <2>3. head' \in Head BY <1>1, <2>1, <2>2 DEF Status, Head
  <2>4. QED
    BY <1>1, <1>4, <2>3
    DEF LoopSave, Prompt, TypeInv, TablesOK, ThreadsOK, observed
<1>5. CASE Restart
  <2>1. thread' \in [Thread -> ThreadState]
        /\ \A t \in Thread : thread'[t].pc = "idle"
    BY <1>5, IdleThreadOK DEF Restart
  <2>2. ThreadsOK'
    BY <1>5, <2>1 DEF Restart, TypeInv, ThreadsOK, ConfirmPc
  <2>3. QED
    BY <1>1, <1>2, <1>5, <2>2 DEF Restart, Prompt, TypeInv, TablesOK, observed
<1>6. CASE CliStatus
  BY <1>1, <1>2, <1>6
  DEF CliStatus, Prompt, TypeInv, TablesOK, ThreadsOK, observed
<1>7. QED BY <1>3, <1>4, <1>5, <1>6

\* The first state is well typed, whatever an older release left behind.
LEMMA InitTypes == Init => TypeInv
<1> SUFFICES ASSUME Init PROVE TypeInv OBVIOUS
<1>1. PICK found \in Found : head = FirstHead(found) BY DEF Init
<1>2. head \in Head
  BY <1>1, FoundAssumption DEF FirstHead, Head, Status
<1>3. NoReceipt \in Receipt
  BY DEF NoReceipt, Receipt, ReceiptStatus, Outcome
<1>4. ThreadsOK BY IdleThreadOK DEF Init, ThreadsOK, ConfirmPc
<1>5. QED BY <1>2, <1>3, <1>4 DEF Init, TypeInv, TablesOK, GateReason

\* Every step keeps the types.
LEMMA NextTypes == TypeInv /\ [Next]_vars => TypeInv'
<1> SUFFICES ASSUME TypeInv, [Next]_vars PROVE TypeInv' OBVIOUS
<1>1. CASE \E t \in Thread : \E q \in Request : Prepare(t, q)
  BY <1>1, PrepareTypes
<1>2. CASE \E t \in Thread : ThreadStep(t)
  BY <1>2, CreateDeleteTypes, GenericTypes, ConfirmClaimTypes,
     ConfirmSettleTypes, LegacyTypes
  DEF ThreadStep, ConfirmStep
<1>3. CASE LoopCommit \/ LoopSave \/ Restart \/ CliStatus
  BY <1>3, OutsideTypes
<1>4. CASE UNCHANGED vars
  BY <1>4 DEF vars, TypeInv, TablesOK, ThreadsOK
<1>5. QED BY <1>1, <1>2, <1>3, <1>4 DEF Next

\* The tables and the threads are well typed at all times.
THEOREM TypeCorrect == Spec => []TypeOK
<1>1. TypeInv => TypeOK BY DEF TypeInv, TablesOK, ThreadsOK, TypeOK
<1>2. QED BY InitTypes, NextTypes, <1>1, PTL DEF Spec

-----------------------------------------------------------------------------
(* At most one effect per command, on the revision its client saw *)

LoggedIsCommitted ==
    \A e \in events : e.cmd # NoCommand => receipt[e.cmd].status = "committed"

JournalInv == TypeInv /\ LoggedIsCommitted /\ AppliedOnce /\ StaleNeverApplies

\* What a step can do to the log: append rows that name no command and keep
\* every committed receipt; or log a command whose receipt was not yet
\* committed and commit it; or erase the research.
Silent ==
    /\ \A e \in events' : e \in events \/ e.cmd = NoCommand
    /\ \A c \in Command : receipt[c].status = "committed" =>
                            receipt'[c].status = "committed"
Logs(c) ==
    /\ receipt[c].status # "committed" /\ receipt'[c].status = "committed"
    /\ \A d \in Command \ {c} : receipt'[d] = receipt[d]
    /\ \E e \in Event :
          /\ events' = events \cup {e} /\ e.cmd = c
          /\ e.kind # "create" => e.rev = e.expected + 1
LogStep == Silent \/ (\E c \in Command : Logs(c)) \/ events' = {}

\* Each kind of step of the log keeps the invariant.
LEMMA LogStepKeeps ==
  ASSUME JournalInv, TypeInv', LogStep
  PROVE  JournalInv'
<1>1. CASE Silent
  BY <1>1 DEF JournalInv, Silent, LoggedIsCommitted, AppliedOnce,
              StaleNeverApplies, TypeInv, TablesOK, Event
<1>2. ASSUME NEW c \in Command, Logs(c) PROVE JournalInv'
  <2>1. PICK e \in Event : /\ events' = events \cup {e} /\ e.cmd = c
                           /\ e.kind # "create" => e.rev = e.expected + 1
    BY <1>2 DEF Logs
  <2>2. \A f \in events : f.cmd # c
    BY <1>2, RequestAssumption DEF Logs, JournalInv, LoggedIsCommitted
  <2>3. \A f \in events : f.cmd \in Command \cup {NoCommand}
    BY DEF JournalInv, TypeInv, TablesOK, Event
  <2>4. LoggedIsCommitted'
    BY <1>2, <2>1, <2>2, <2>3 DEF Logs, JournalInv, LoggedIsCommitted
  <2>5. AppliedOnce' BY <2>1, <2>2 DEF JournalInv, AppliedOnce
  <2>6. StaleNeverApplies' BY <2>1 DEF JournalInv, StaleNeverApplies
  <2>7. QED BY <2>4, <2>5, <2>6 DEF JournalInv
<1>3. CASE events' = {}
  BY <1>3 DEF JournalInv, LoggedIsCommitted, AppliedOnce, StaleNeverApplies
<1>4. QED BY <1>1, <1>2, <1>3 DEF LogStep

\* A step that touches neither the log nor the receipts is silent.
LEMMA QuietIsSilent ==
  ASSUME UNCHANGED <<events, receipt>>
  PROVE  Silent
  BY DEF Silent

\* One receipt moves, and it was not committed or it still is.
LEMMA OneReceiptIsSilent ==
  ASSUME TypeInv, UNCHANGED events, NEW c \in Command, NEW r,
         receipt' = [receipt EXCEPT ![c] = r],
         receipt[c].status = "committed" => r.status = "committed"
  PROVE  Silent
  BY DEF Silent, TypeInv, TablesOK

\* CommandJournal.commit: it changes the log only when it commits a command
\* that was not committed, and it never takes a commitment back.
LEMMA CommitLogs ==
  ASSUME TypeInv, NEW t \in Thread, NEW q \in Request, q.cmd \in Command,
         NEW bound \in BOOLEAN, NEW failure \in BOOLEAN, NEW keep \in BOOLEAN
  PROVE  /\ CommitConflicts(t, q, bound, failure, keep) /\ UNCHANGED events =>
               Silent
         /\ \A s \in Status : CommitApplies(t, q, bound, s) => Logs(q.cmd)
         /\ CommitRecordsFailure(t, q, keep) => Logs(q.cmd)
<1>1. receipt \in [Command -> Receipt] /\ TablesOK BY DEF TypeInv, TablesOK
<1>2. ASSUME NEW b \in BOOLEAN, NEW f \in BOOLEAN, CommitProceeds(q, b, f)
      PROVE  receipt[q.cmd].status # "committed"
  BY <1>2 DEF CommitProceeds
<1>3. ASSUME CommitConflicts(t, q, bound, failure, keep), UNCHANGED events
      PROVE  Silent
  BY <1>2, <1>3, OneReceiptIsSilent DEF CommitConflicts
<1>4. ASSUME NEW s \in Status, CommitApplies(t, q, bound, s)
      PROVE  Logs(q.cmd)
  <2>1. /\ receipt[q.cmd].status # "committed" /\ head.rev = q.expected
        /\ events' = events \cup {Row(q.kind, q)}
        /\ receipt' = [receipt EXCEPT ![q.cmd] =
             Committed(q, "ok", receipt[q.cmd].budget, head.rev + 1)]
    BY <1>2, <1>4 DEF CommitApplies, Applied, Matches
  <2>2. q.kind \in Kind BY RequestOK
  <2>3. Row(q.kind, q) \in Event BY <1>1, <1>4, <2>2, RowsOK
  <2>4. /\ Row(q.kind, q).cmd = q.cmd
        /\ Row(q.kind, q).rev = Row(q.kind, q).expected + 1
    BY <2>1 DEF Row
  <2>5. receipt'[q.cmd].status = "committed"
        /\ \A d \in Command \ {q.cmd} : receipt'[d] = receipt[d]
    BY <1>1, <2>1 DEF Committed
  <2>6. QED BY <2>1, <2>3, <2>4, <2>5 DEF Logs
<1>5. ASSUME CommitRecordsFailure(t, q, keep) PROVE Logs(q.cmd)
  <2>1. /\ receipt[q.cmd].status # "committed" /\ head.rev = q.expected
        /\ events' = events \cup {Row("confirm_failed", q)}
        /\ receipt' = [receipt EXCEPT ![q.cmd] =
             Committed(q, "failed", IF keep THEN 1 ELSE 0, head.rev + 1)]
    BY <1>2, <1>5 DEF CommitRecordsFailure, FailureNoted, Matches
  <2>2. head.status \in Status BY <1>1 DEF TablesOK, Head
  <2>3. Row("confirm_failed", q) \in Event BY <1>1, <2>2, RowsOK
  <2>4. /\ Row("confirm_failed", q).cmd = q.cmd
        /\ Row("confirm_failed", q).rev = Row("confirm_failed", q).expected + 1
    BY <2>1 DEF Row
  <2>5. receipt'[q.cmd].status = "committed"
        /\ \A d \in Command \ {q.cmd} : receipt'[d] = receipt[d]
    BY <1>1, <2>1 DEF Committed
  <2>6. QED BY <2>1, <2>3, <2>4, <2>5 DEF Logs
<1>6. QED BY <1>3, <1>4, <1>5

\* create_draft and delete_research.
LEMMA CreateDeleteLogs ==
  ASSUME TypeInv, NEW t \in Thread, Create(t) \/ Delete(t)
  PROVE  LogStep
<1> DEFINE q == thread[t].req
<1>1. CASE Create(t)
  <2>1. q.cmd \in Command /\ receipt \in [Command -> Receipt]
    BY <1>1, RequestOK DEF Create, TypeInv, TablesOK, ThreadsOK
  <2>2. CASE UNCHANGED <<events, receipt>>
    BY <2>2, QuietIsSilent DEF LogStep
  <2>3. CASE UNCHANGED events
             /\ receipt' = [receipt EXCEPT ![q.cmd] =
                              CreateReceipt(q, head.rev)]
    BY <2>1, <2>3, OneReceiptIsSilent DEF CreateReceipt, LogStep
  <2>4. CASE /\ receipt[q.cmd].status = "none"
             /\ events' = events \cup {[seq |-> 1, kind |-> "create",
                                       cmd |-> q.cmd, expected |-> 0,
                                       rev |-> 0]}
             /\ receipt' = [receipt EXCEPT ![q.cmd] = CreateReceipt(q, 0)]
    <3>1. [seq |-> 1, kind |-> "create", cmd |-> q.cmd, expected |-> 0,
           rev |-> 0] \in Event
      BY <2>1 DEF Event, Kind
    <3>2. receipt'[q.cmd].status = "committed"
          /\ \A d \in Command \ {q.cmd} : receipt'[d] = receipt[d]
      BY <2>1, <2>4 DEF CreateReceipt
    <3>3. Logs(q.cmd) BY <2>1, <2>4, <3>1, <3>2 DEF Logs
    <3>4. QED BY <2>1, <3>3 DEF LogStep
  <2>5. QED BY <1>1, <2>2, <2>3, <2>4 DEF Create
<1>2. CASE Delete(t)
  BY <1>2, QuietIsSilent DEF Delete, LogStep
<1>3. QED BY <1>1, <1>2

\* The writes without a lock.
LEMMA GenericLogs ==
  ASSUME TypeInv, NEW t \in Thread, GenericStep(t)
  PROVE  LogStep
<1> DEFINE q == thread[t].req
<1>1. CASE Load(t) \/ Boost(t) \/ Open(t)
  BY <1>1, QuietIsSilent DEF Load, Boost, Open, LogStep
<1>2. CASE Write(t)
  <2>1. q \in Request /\ q.cmd \in Command /\ thread[t].status \in Status
    BY <1>2, RequestOK DEF Write, TypeInv, ThreadsOK, ThreadState
  <2>2. After(q.kind, thread[t].status) \subseteq Status BY <2>1, AfterOK
  <2>3. CASE UNCHANGED <<events, receipt>>
    BY <2>3, QuietIsSilent DEF LogStep
  <2>4. CASE CommitConflicts(t, q, FALSE, FALSE, FALSE) /\ UNCHANGED events
    BY <2>1, <2>4, CommitLogs DEF LogStep
  <2>5. CASE \E s \in Status : CommitApplies(t, q, FALSE, s)
    BY <2>1, <2>5, CommitLogs DEF LogStep
  <2>6. QED BY <1>2, <2>2, <2>3, <2>4, <2>5 DEF Write
<1>3. CASE LegacyWrite(t)
  BY <1>3 DEF LegacyWrite, SaveWithEvent, LegacyRow, LogStep, Silent
<1>4. QED BY <1>1, <1>2, <1>3 DEF GenericStep

\* A journaled confirmation.
LEMMA ConfirmLogs ==
  ASSUME TypeInv, NEW t \in Thread, ConfirmStep(t)
  PROVE  LogStep
<1> DEFINE q == thread[t].req
<1>1. thread[t].pc \in ConfirmPc => q \in Request /\ q.cmd \in Command
  BY DEF TypeInv, ThreadsOK, ConfirmPc
<1>2. CASE \/ ConfirmLock(t) \/ ConfirmLoad(t) \/ ConfirmCheck(t)
           \/ ConfirmBind(t) \/ ConfirmProbe(t) \/ ConfirmProbed(t)
           \/ ConfirmOpen(t)
  BY <1>2, QuietIsSilent
  DEF ConfirmLock, ConfirmLoad, ConfirmCheck, ConfirmBind, ConfirmProbe,
      ConfirmProbed, ConfirmOpen, LogStep, table
<1>3. CASE ConfirmConflict(t)
  <2>1. q.cmd \in Command BY <1>1, <1>3 DEF ConfirmConflict, ConfirmPc
  <2>2. CASE UNCHANGED receipt
    BY <1>3, <2>2, QuietIsSilent DEF ConfirmConflict, LogStep
  <2>3. CASE /\ receipt' = [receipt EXCEPT ![q.cmd] = Conflicted(q, FALSE)]
             /\ receipt[q.cmd].status # "committed"
    BY <1>3, <2>1, <2>3, OneReceiptIsSilent DEF ConfirmConflict, LogStep
  <2>4. QED BY <1>3, <2>2, <2>3 DEF ConfirmConflict
<1>4. CASE ConfirmClaim(t)
  <2>1. q.cmd \in Command BY <1>1, <1>4 DEF ConfirmClaim, ConfirmPc
  <2>2. CASE UNCHANGED receipt
    BY <1>4, <2>2, QuietIsSilent DEF ConfirmClaim, LogStep
  <2>3. CASE receipt[q.cmd].status = "none"
    BY <1>4, <2>1, <2>3, OneReceiptIsSilent DEF ConfirmClaim, LogStep
  <2>4. QED BY <1>4, <2>2, <2>3 DEF ConfirmClaim
<1>5. CASE ConfirmCommit(t)
  <2>1. q \in Request /\ q.cmd \in Command
    BY <1>1, <1>5 DEF ConfirmCommit, ConfirmPc
  <2>2. CASE UNCHANGED <<events, receipt>>
    BY <2>2, QuietIsSilent DEF LogStep
  <2>3. CASE CommitConflicts(t, q, TRUE, FALSE, TRUE) /\ UNCHANGED events
    BY <2>1, <2>3, CommitLogs DEF LogStep
  <2>4. CASE CommitApplies(t, q, TRUE, "running")
    <3>1. "running" \in Status BY DEF Status
    <3>2. QED BY <2>1, <2>4, <3>1, CommitLogs DEF LogStep
  <2>5. QED BY <1>5, <2>2, <2>3, <2>4 DEF ConfirmCommit
<1>6. ASSUME NEW keep \in BOOLEAN, ConfirmFail(t, keep) PROVE LogStep
  <2>1. q \in Request /\ q.cmd \in Command
    BY <1>1, <1>6 DEF ConfirmFail, ConfirmPc
  <2>2. CASE UNCHANGED <<events, receipt>>
    BY <2>2, QuietIsSilent DEF LogStep
  <2>3. CASE CommitConflicts(t, q, TRUE, TRUE, keep) /\ UNCHANGED events
    BY <2>1, <2>3, CommitLogs DEF LogStep
  <2>4. CASE CommitRecordsFailure(t, q, keep)
    BY <2>1, <2>4, CommitLogs DEF LogStep
  <2>5. QED BY <1>6, <2>2, <2>3, <2>4 DEF ConfirmFail
<1>7. CASE ConfirmFailNote(t)
  <2>1. q.cmd \in Command BY <1>1, <1>7 DEF ConfirmFailNote, ConfirmPc
  <2>2. CASE UNCHANGED receipt
    BY <1>7, <2>2, QuietIsSilent DEF ConfirmFailNote, LogStep
  <2>3. CASE receipt' = [receipt EXCEPT ![q.cmd] =
                           Committed(q, "failed", 0, head.rev)]
    BY <1>7, <2>1, <2>3, OneReceiptIsSilent
    DEF ConfirmFailNote, Committed, LogStep
  <2>4. QED BY <1>7, <2>2, <2>3 DEF ConfirmFailNote
<1>8. QED BY <1>2, <1>3, <1>4, <1>5, <1>6, <1>7 DEF ConfirmStep

\* Everything else: requests that arrive, legacy confirmations, the loop, a
\* restart, the CLI.
LEMMA OtherLogs ==
  ASSUME TypeInv,
         \/ \E t \in Thread : \E q \in Request : Prepare(t, q)
         \/ \E t \in Thread : LegacyStep(t)
         \/ LoopCommit \/ LoopSave \/ Restart \/ CliStatus
         \/ UNCHANGED vars
  PROVE  LogStep
<1>1. CASE \E t \in Thread : \E q \in Request : Prepare(t, q)
  BY <1>1, QuietIsSilent DEF Prepare, LogStep
<1>2. CASE \E t \in Thread : LegacyStep(t)
  <2>1. PICK t \in Thread : LegacyStep(t) BY <1>2
  <2>2. CASE LegacyFail(t) \/ LegacyOpen(t)
    <3>1. UNCHANGED receipt BY <2>2 DEF LegacyFail, LegacyOpen
    <3>2. \/ events' = events
          \/ \E k \in {"confirm", "confirm_failed"} :
                events' = events \cup {LegacyRow(k)}
      BY <2>2 DEF LegacyFail, LegacyOpen, SaveWithEvent
    <3>3. \A k : LegacyRow(k).cmd = NoCommand BY DEF LegacyRow
    <3>4. QED BY <3>1, <3>2, <3>3 DEF Silent, LogStep
  <2>3. CASE UNCHANGED <<events, receipt>>
    BY <2>3, QuietIsSilent DEF LogStep
  <2>4. QED
    BY <2>1, <2>2, <2>3 DEF LegacyStep, LegacyLock, LegacyLoad, LegacyProbe,
       LegacyProbed, LegacySave, LegacyReload, table
<1>3. CASE LoopCommit
  BY <1>3 DEF LoopCommit, LegacyRow, Silent, LogStep
<1>4. CASE LoopSave \/ UNCHANGED vars
  BY <1>4, QuietIsSilent DEF LoopSave, vars, LogStep
<1>5. CASE Restart \/ CliStatus
  BY <1>5 DEF Restart, CliStatus, Recovered, Silent, LogStep
<1>6. QED BY <1>1, <1>2, <1>3, <1>4, <1>5

\* The invariant that carries both theorems is inductive.
LEMMA JournalInvInductive == JournalInv /\ [Next]_vars => JournalInv'
<1> SUFFICES ASSUME JournalInv, [Next]_vars PROVE JournalInv' OBVIOUS
<1>1. TypeInv /\ TypeInv' BY NextTypes DEF JournalInv
<1>2. LogStep
  BY <1>1, CreateDeleteLogs, GenericLogs, ConfirmLogs, OtherLogs
  DEF Next, ThreadStep
<1>3. QED BY <1>1, <1>2, LogStepKeeps

\* It holds at first: no event has been logged.
LEMMA JournalInvInit == Init => JournalInv
  BY InitTypes DEF Init, JournalInv, LoggedIsCommitted, AppliedOnce,
     StaleNeverApplies

\* A journaled command changes the research at most once, for any number of
\* clients, retries, crashes and CLI calls.
THEOREM CommandAppliesOnce == Spec => []AppliedOnce
<1>1. JournalInv => AppliedOnce BY DEF JournalInv
<1>2. QED BY JournalInvInit, JournalInvInductive, <1>1, PTL DEF Spec

\* Every journaled effect is on the revision its client saw.
THEOREM StaleCommandNeverApplies == Spec => []StaleNeverApplies
<1>1. JournalInv => StaleNeverApplies BY DEF JournalInv
<1>2. QED BY JournalInvInit, JournalInvInductive, <1>1, PTL DEF Spec

-----------------------------------------------------------------------------
(* What a handler in the middle of its work can rely on *)

\* The steps of confirm_run from the read of the row to its claim.
PreClaim == {"c_load", "c_check", "c_conflict", "c_bind", "c_claim"}

\* A handler is at a step of the command it serves.
ServeInv ==
    \A t \in Thread :
        /\ thread[t].pc \in ConfirmPc => thread[t].req.kind = "confirm"
        /\ thread[t].pc \in {"boost", "open", "write"} => Generic(thread[t].req)
        /\ thread[t].pc \in LegacyPc =>
              Legacy(thread[t].req) /\ thread[t].req.kind = "confirm"

\* confirm_run holds the lock from its first step to its last.
LockInv ==
    \A t \in Thread : thread[t].pc \in ConfirmPc \cup LegacyPc => lock = t

\* The receipt r of the request that a handler at th confirms: it saw none
\* before its claim, and its claim is not settled by anyone else.
ClaimOK(th, r) ==
    /\ th.pc \in PreClaim => r.status = "none" \/ r.payload # th.req
    /\ th.pc \in Claimed =>
          r.status \in {"none", "pending", "unknown"} \/ r.payload # th.req
\* So it is for every handler of confirm_run.
ClaimInv ==
    \A t \in Thread : thread[t].pc \in ConfirmPc =>
                        ClaimOK(thread[t], receipt[thread[t].req.cmd])

\* The four together are inductive.
HandlerInv == TypeInv /\ ServeInv /\ LockInv /\ ClaimInv

\* What a step of thread t leaves alone: the other threads, a lock that is not
\* its own, and the receipts other threads are confirming.
OthersKept(t) ==
    /\ \A u \in Thread \ {t} : thread'[u] = thread[u]
    /\ lock' = lock \/ lock = Nobody \/ lock = t
    /\ \A c \in Command :
          \/ receipt'[c] = receipt[c]
          \/ receipt'[c].status = "none"
          \/ thread[t].pc \in ConfirmPc
          \/ receipt'[c].payload = thread[t].req /\ thread[t].req.kind # "confirm"

\* The invariant of the handlers, thread by thread.
HandlerOK(t) ==
    /\ thread[t].pc \in ConfirmPc =>
          /\ thread[t].req.kind = "confirm"
          /\ ClaimOK(thread[t], receipt[thread[t].req.cmd])
    /\ thread[t].pc \in {"boost", "open", "write"} => Generic(thread[t].req)
    /\ thread[t].pc \in LegacyPc =>
          Legacy(thread[t].req) /\ thread[t].req.kind = "confirm"
    /\ thread[t].pc \in ConfirmPc \cup LegacyPc => lock = t

\* It is enough to look at the thread that moves.
LEMMA HandlerKept ==
  ASSUME HandlerInv, TypeInv', NEW t \in Thread, OthersKept(t), HandlerOK(t)'
  PROVE  HandlerInv'
<1>1. ASSUME NEW u \in Thread, u # t PROVE HandlerOK(u)'
  <2>1. thread'[u] = thread[u] BY <1>1 DEF OthersKept
  <2>2. Nobody \notin Thread BY RequestAssumption
  <2>3. thread[u].pc \in ConfirmPc \cup LegacyPc => lock' = u
    BY <1>1, <2>2 DEF OthersKept, HandlerInv, LockInv
  <2>4. ASSUME thread[u].pc \in ConfirmPc
        PROVE  ClaimOK(thread[u], receipt'[thread[u].req.cmd])
    <3>1. /\ lock = u /\ thread[u].req.cmd \in Command
          /\ thread[u].req.kind = "confirm"
          /\ ClaimOK(thread[u], receipt[thread[u].req.cmd])
      BY <2>4 DEF HandlerInv, LockInv, ServeInv, ClaimInv, TypeInv, ThreadsOK
    <3>2. thread[t].pc \notin ConfirmPc
      BY <1>1, <3>1 DEF HandlerInv, LockInv
    <3> DEFINE c == thread[u].req.cmd
    <3>3. \/ receipt'[c] = receipt[c]
          \/ receipt'[c].status = "none"
          \/ receipt'[c].payload = thread[t].req /\ thread[t].req.kind # "confirm"
      BY <3>1, <3>2 DEF OthersKept
    <3>4. QED BY <3>1, <3>3 DEF ClaimOK
  <2>5. QED
    BY <2>1, <2>3, <2>4 DEF HandlerOK, HandlerInv, ServeInv
<1>2. \A u \in Thread : HandlerOK(u)' BY <1>1
<1>3. QED BY <1>2 DEF HandlerOK, HandlerInv, ServeInv, LockInv, ClaimInv

\* A thread that answers is done with its command.
LEMMA EndKeeps ==
  ASSUME HandlerInv, TypeInv', NEW t \in Thread, OthersKept(t),
         thread' = [thread EXCEPT ![t] = IdleThread]
  PROVE  HandlerInv'
<1>1. thread'[t].pc = "idle"
  BY IdleThreadOK DEF HandlerInv, TypeInv, ThreadsOK
<1>2. HandlerOK(t)' BY <1>1 DEF HandlerOK, ConfirmPc, LegacyPc
<1>3. QED BY <1>2, HandlerKept

\* A step of confirm_run before and after the claim leaves receipts alone.
LEMMA GoesOnKeeps ==
  ASSUME HandlerInv, TypeInv', NEW t \in Thread, OthersKept(t),
         lock' = lock, thread'[t].req = thread[t].req, UNCHANGED receipt,
         \/ thread[t].pc \in PreClaim /\ thread'[t].pc \in PreClaim
         \/ thread[t].pc \in Claimed /\ thread'[t].pc \in Claimed
         \/ thread[t].pc \in LegacyPc /\ thread'[t].pc \in LegacyPc
  PROVE  HandlerInv'
<1>1. /\ PreClaim \subseteq ConfirmPc /\ Claimed \subseteq ConfirmPc
      /\ PreClaim \cap Claimed = {} /\ ConfirmPc = PreClaim \cup Claimed
      /\ LegacyPc \cap ConfirmPc = {}
      /\ (ConfirmPc \cup LegacyPc) \cap {"boost", "open", "write"} = {}
  BY DEF PreClaim, Claimed, ConfirmPc, LegacyPc
<1>2. HandlerOK(t) BY DEF HandlerInv, HandlerOK, ServeInv, LockInv, ClaimInv
<1>3. HandlerOK(t)'
  BY <1>1, <1>2 DEF HandlerOK, ClaimOK
<1>4. QED BY <1>3, HandlerKept

\* The steps of CommandJournal.commit end the handler's work.
LEMMA CommitEnds ==
  ASSUME NEW t, NEW q, NEW bound, NEW failure, NEW keep, NEW s,
         \/ CommitReplays(t, q, bound, failure)
         \/ CommitConflicts(t, q, bound, failure, keep)
         \/ CommitApplies(t, q, bound, s)
         \/ CommitRecordsFailure(t, q, keep)
  PROVE  thread' = [thread EXCEPT ![t] = IdleThread]
  BY DEF CommitReplays, CommitConflicts, CommitApplies, Applied, CommitRecordsFailure,
         FailureNoted, Answer

\* A step of thread t changes the state of no other thread.
LEMMA OnlyThread ==
  ASSUME ThreadsOK, NEW t \in Thread, NEW new,
         thread' = [thread EXCEPT ![t] = new]
  PROVE  thread'[t] = new /\ \A u \in Thread \ {t} : thread'[u] = thread[u]
  BY DEF ThreadsOK

\* CommandJournal.commit touches the receipt of the command alone.
LEMMA CommitOthers ==
  ASSUME TypeInv, NEW t \in Thread, thread[t].req.cmd \in Command,
         NEW bound \in BOOLEAN, NEW failure \in BOOLEAN, NEW keep \in BOOLEAN,
         NEW s, lock' = lock \/ Unlock(t),
         LET q == thread[t].req IN
         \/ UNCHANGED receipt
         \/ CommitConflicts(t, q, bound, failure, keep)
         \/ CommitApplies(t, q, bound, s)
         \/ CommitRecordsFailure(t, q, keep),
         thread[t].req.kind # "confirm" \/ thread[t].pc \in ConfirmPc,
         NEW new, thread' = [thread EXCEPT ![t] = new]
  PROVE  OthersKept(t)
<1> DEFINE q == thread[t].req
<1>1. /\ receipt \in [Command -> Receipt] /\ q.cmd \in Command
      /\ \A u \in Thread \ {t} : thread'[u] = thread[u]
  BY OnlyThread DEF TypeInv, TablesOK
<1>2. lock' = lock \/ lock = Nobody \/ lock = t BY DEF Unlock
<1>3. CASE UNCHANGED receipt BY <1>1, <1>2, <1>3 DEF OthersKept
<1>4. ASSUME NEW r, r.payload = q, receipt' = [receipt EXCEPT ![q.cmd] = r]
      PROVE  OthersKept(t)
  BY <1>1, <1>2, <1>4 DEF OthersKept
<1>5. ASSUME NEW b, NEW f, CommitProceeds(q, b, f)
      PROVE  receipt[q.cmd].status = "none" \/ receipt[q.cmd].payload = q
  BY <1>5 DEF CommitProceeds
<1>6. CASE CommitConflicts(t, q, bound, failure, keep)
  <2>1. receipt' = [receipt EXCEPT ![q.cmd] = Conflicted(q, keep)]
        /\ Conflicted(q, keep).payload = q
    BY <1>5, <1>6 DEF CommitConflicts, Conflicted
  <2>2. QED BY <1>4, <2>1
<1>7. CASE CommitApplies(t, q, bound, s)
  <2> DEFINE r == Committed(q, "ok", receipt[q.cmd].budget, head.rev + 1)
  <2>1. receipt' = [receipt EXCEPT ![q.cmd] = r] /\ r.payload = q
    BY <1>5, <1>7 DEF CommitApplies, Applied, Committed
  <2>2. QED BY <1>4, <2>1
<1>8. CASE CommitRecordsFailure(t, q, keep)
  <2> DEFINE r == Committed(q, "failed", IF keep THEN 1 ELSE 0, head.rev + 1)
  <2>1. receipt' = [receipt EXCEPT ![q.cmd] = r] /\ r.payload = q
    BY <1>5, <1>8 DEF CommitRecordsFailure, FailureNoted, Committed
  <2>2. QED BY <1>4, <2>1
<1>9. QED BY <1>3, <1>6, <1>7, <1>8

\* Requests that arrive, the loop, a restart and the CLI.
LEMMA OutsideHandlers ==
  ASSUME HandlerInv, TypeInv',
         \/ \E t \in Thread : \E q \in Request : Prepare(t, q)
         \/ LoopCommit \/ LoopSave \/ Restart \/ CliStatus
         \/ UNCHANGED vars
  PROVE  HandlerInv'
<1>1. ASSUME NEW t \in Thread, NEW q \in Request, Prepare(t, q)
      PROVE  HandlerInv'
  <2>1. thread[t].pc = "idle" /\ UNCHANGED <<receipt, lock>>
    BY <1>1 DEF Prepare
  <2>2. CASE UNCHANGED thread
    BY <2>1, <2>2 DEF HandlerInv, ServeInv, LockInv, ClaimInv
  <2>3. CASE Serve(t, q, "dispatch")
    <3> DEFINE new == [IdleThread EXCEPT !.pc = "dispatch", !.req = q]
    <3>n. new.pc = "dispatch" BY DEF IdleThread
    <3>s. thread' = [thread EXCEPT ![t] = new] BY <2>3 DEF Serve
    <3> HIDE DEF new
    <3>1. /\ thread'[t].pc = "dispatch"
          /\ \A u \in Thread \ {t} : thread'[u] = thread[u]
      BY <3>n, <3>s, OnlyThread DEF HandlerInv, TypeInv
    <3>2. OthersKept(t) BY <2>1, <3>1 DEF OthersKept
    <3>3. HandlerOK(t)' BY <3>1 DEF HandlerOK, ConfirmPc, LegacyPc
    <3>4. QED BY <3>2, <3>3, HandlerKept
  <2>4. QED
    BY <1>1, <2>2, <2>3 DEF Prepare, PrepareLegacy, PrepareFresh,
       PrepareKnown, AnswerNow
<1>2. CASE LoopCommit \/ LoopSave \/ UNCHANGED vars
  BY <1>2 DEF LoopCommit, LoopSave, vars, HandlerInv, ServeInv, LockInv,
              ClaimInv
<1>3. CASE Restart
  <2>1. \A t \in Thread : thread'[t].pc = "idle"
    BY <1>3, IdleThreadOK DEF Restart
  <2>2. QED
    BY <2>1 DEF HandlerInv, ServeInv, LockInv, ClaimInv, ConfirmPc, LegacyPc
<1>4. CASE CliStatus
  <2>1. UNCHANGED <<thread, lock>> BY <1>4 DEF CliStatus
  <2>2. ASSUME NEW t \in Thread, thread[t].pc \in ConfirmPc
        PROVE  ClaimOK(thread[t], receipt'[thread[t].req.cmd])
    <3>1. thread[t].req.cmd \in Command
          /\ ClaimOK(thread[t], receipt[thread[t].req.cmd])
      BY <2>2 DEF HandlerInv, TypeInv, ThreadsOK, ClaimInv
    <3> DEFINE r == receipt[thread[t].req.cmd]
    <3>2. receipt'[thread[t].req.cmd] =
            IF r.status = "pending" THEN [r EXCEPT !.status = "unknown"] ELSE r
      BY <1>4, <3>1 DEF CliStatus, Recovered
    <3>3. r \in Receipt BY <3>1 DEF HandlerInv, TypeInv, TablesOK
    <3>4. r.status = "pending" =>
             /\ [r EXCEPT !.status = "unknown"].status = "unknown"
             /\ [r EXCEPT !.status = "unknown"].payload = r.payload
      BY <3>3 DEF Receipt
    <3>5. QED BY <3>1, <3>2, <3>4 DEF ClaimOK
  <2>3. QED BY <2>1, <2>2 DEF HandlerInv, ServeInv, LockInv, ClaimInv
<1>5. QED BY <1>1, <1>2, <1>3, <1>4

\* create_draft, delete_research and the writes without a lock.
LEMMA GenericHandlers ==
  ASSUME HandlerInv, TypeInv', NEW t \in Thread,
         Create(t) \/ Delete(t) \/ GenericStep(t)
  PROVE  HandlerInv'
<1> DEFINE q == thread[t].req
<1>t. TypeInv /\ ThreadsOK /\ receipt \in [Command -> Receipt]
  BY DEF HandlerInv, TypeInv, TablesOK
<1>g. Generic(q) => q.kind # "confirm" BY DEF Generic
<1>e. ASSUME thread' = [thread EXCEPT ![t] = IdleThread], UNCHANGED lock,
             \/ UNCHANGED receipt
             \/ receipt' = [c \in Command |-> NoReceipt]
             \/ \E r : /\ receipt' = [receipt EXCEPT ![q.cmd] = r]
                       /\ r.payload = q /\ q.kind # "confirm"
      PROVE  HandlerInv'
  <2>1. \A u \in Thread \ {t} : thread'[u] = thread[u]
    BY <1>t, <1>e, OnlyThread
  <2>2. OthersKept(t) BY <1>t, <1>e, <2>1 DEF OthersKept, NoReceipt
  <2>3. QED BY <1>e, <2>2, EndKeeps
<1>m. ASSUME NEW new, thread' = [thread EXCEPT ![t] = new],
             UNCHANGED <<lock, receipt>>,
             new.pc \in {"boost", "open", "write"}, Generic(new.req)
      PROVE  HandlerInv'
  <2>1. thread'[t] = new /\ \A u \in Thread \ {t} : thread'[u] = thread[u]
    BY <1>t, <1>m, OnlyThread
  <2>2. OthersKept(t) BY <1>m, <2>1 DEF OthersKept
  <2>3. HandlerOK(t)'
    BY <1>m, <2>1 DEF HandlerOK, ConfirmPc, LegacyPc
  <2>4. QED BY <2>2, <2>3, HandlerKept
<1>1. CASE Create(t)
  <2>1. thread' = [thread EXCEPT ![t] = IdleThread] /\ UNCHANGED lock
        /\ q.kind # "confirm"
    BY <1>1 DEF Create, Answer
  <2>2. \/ UNCHANGED receipt
        \/ \E n : receipt' = [receipt EXCEPT ![q.cmd] = CreateReceipt(q, n)]
    BY <1>1 DEF Create
  <2>3. \A n : CreateReceipt(q, n).payload = q BY DEF CreateReceipt
  <2>4. QED BY <1>e, <2>1, <2>2, <2>3
<1>2. CASE Delete(t) BY <1>2, <1>e DEF Delete
<1>3. CASE Load(t)
  <2>1. CASE Answer(t, "error") BY <1>3, <1>e, <2>1 DEF Load, Answer
  <2>2. CASE thread' = [thread EXCEPT ![t] =
                  [@ EXCEPT !.pc = NextPc(q.kind), !.stamp = head.stamp,
                            !.status = head.status]]
    <3> DEFINE new == [thread[t] EXCEPT !.pc = NextPc(q.kind),
                         !.stamp = head.stamp, !.status = head.status]
    <3>1. thread[t] \in ThreadState BY <1>t DEF ThreadsOK
    <3>2. new.pc \in {"boost", "open", "write"} /\ new.req = q
      BY <3>1 DEF ThreadState, NextPc
    <3>3. thread' = [thread EXCEPT ![t] = new] /\ UNCHANGED <<lock, receipt>>
          /\ Generic(q)
      BY <1>3, <2>2, <1>t DEF Load, ThreadsOK
    <3> HIDE DEF new
    <3>4. QED BY <1>m, <3>2, <3>3
  <2>3. QED BY <1>3, <2>1, <2>2 DEF Load
<1>4. CASE Boost(t)
  <2>1. UNCHANGED <<lock, receipt>> /\ Generic(q)
    BY <1>4 DEF Boost, HandlerInv, ServeInv
  <2>2. CASE Answer(t, "error") BY <1>e, <2>1, <2>2 DEF Answer
  <2>3. CASE thread' = [thread EXCEPT ![t] =
                  [@ EXCEPT !.pc = "write", !.stamp = head.stamp + 1]]
    <3> DEFINE new == [thread[t] EXCEPT !.pc = "write",
                                        !.stamp = head.stamp + 1]
    <3>1. thread[t] \in ThreadState BY <1>t DEF ThreadsOK
    <3>2. new.pc = "write" /\ new.req = q BY <3>1 DEF ThreadState
    <3>3. thread' = [thread EXCEPT ![t] = new] BY <2>3, <1>t DEF ThreadsOK
    <3> HIDE DEF new
    <3>4. QED BY <1>m, <2>1, <3>2, <3>3
  <2>4. QED BY <1>4, <2>2, <2>3 DEF Boost
<1>5. CASE Open(t)
  <2>1. UNCHANGED <<lock, receipt>> /\ Generic(q)
    BY <1>5 DEF Open, HandlerInv, ServeInv
  <2>2. CASE Answer(t, "error") BY <1>e, <2>1, <2>2 DEF Answer
  <2>3. CASE Goto(t, "write")
    <3> DEFINE new == [thread[t] EXCEPT !.pc = "write"]
    <3>1. thread[t] \in ThreadState BY <1>t DEF ThreadsOK
    <3>2. new.pc = "write" /\ new.req = q BY <3>1 DEF ThreadState
    <3>3. thread' = [thread EXCEPT ![t] = new]
      BY <2>3, <1>t DEF ThreadsOK, Goto
    <3> HIDE DEF new
    <3>4. QED BY <1>m, <2>1, <3>2, <3>3
  <2>4. QED BY <1>5, <2>2, <2>3 DEF Open
<1>6. CASE Write(t)
  <2>1. q.cmd \in Command /\ Generic(q) /\ UNCHANGED lock
    BY <1>6, <1>t, RequestOK DEF Write, ThreadsOK, HandlerInv, ServeInv
  <2>2. \E s : \/ CommitReplays(t, q, FALSE, FALSE) /\ UNCHANGED receipt
               \/ CommitConflicts(t, q, FALSE, FALSE, FALSE)
               \/ CommitApplies(t, q, FALSE, s)
               \/ Answer(t, "error") /\ UNCHANGED receipt
    BY <1>6 DEF Write
  <2>3. thread' = [thread EXCEPT ![t] = IdleThread]
    BY <2>2, CommitEnds DEF Answer
  <2>4. OthersKept(t) BY <1>t, <1>g, <2>1, <2>2, <2>3, CommitOthers
  <2>5. QED BY <2>3, <2>4, EndKeeps
<1>7. CASE LegacyWrite(t)
  BY <1>7, <1>e DEF LegacyWrite, SaveWithEvent, Answer
<1>8. QED BY <1>1, <1>2, <1>3, <1>4, <1>5, <1>6, <1>7 DEF GenericStep

\* confirm_run: a journaled confirmation.
LEMMA ConfirmHandlers ==
  ASSUME HandlerInv, TypeInv', NEW t \in Thread, ConfirmStep(t)
  PROVE  HandlerInv'
<1> DEFINE q == thread[t].req
           c == q.cmd
<1>t. /\ TypeInv /\ ThreadsOK /\ receipt \in [Command -> Receipt]
      /\ thread[t] \in ThreadState
  BY DEF HandlerInv, TypeInv, TablesOK, ThreadsOK
<1>c. thread[t].pc \in ConfirmPc =>
         /\ q \in Request /\ c \in Command /\ q.kind = "confirm" /\ lock = t
         /\ ClaimOK(thread[t], receipt[c])
  BY DEF HandlerInv, TypeInv, ThreadsOK, ServeInv, LockInv, ClaimInv, ConfirmPc
<1>e. ASSUME thread' = [thread EXCEPT ![t] = IdleThread],
             lock' = lock \/ Unlock(t), UNCHANGED receipt
      PROVE  HandlerInv'
  <2>1. \A u \in Thread \ {t} : thread'[u] = thread[u]
    BY <1>t, <1>e, OnlyThread
  <2>2. OthersKept(t) BY <1>t, <1>e, <2>1 DEF OthersKept, Unlock
  <2>3. QED BY <1>e, <2>2, EndKeeps
<1>r. ASSUME thread' = [thread EXCEPT ![t] = IdleThread],
             lock' = lock \/ Unlock(t), thread[t].pc \in ConfirmPc,
             NEW r, receipt' = [receipt EXCEPT ![c] = r]
      PROVE  HandlerInv'
  <2>1. \A u \in Thread \ {t} : thread'[u] = thread[u]
    BY <1>t, <1>r, OnlyThread
  <2>2. OthersKept(t) BY <1>t, <1>r, <2>1 DEF OthersKept, Unlock
  <2>3. QED BY <1>r, <2>2, EndKeeps
<1>m. ASSUME NEW new, thread' = [thread EXCEPT ![t] = new],
             UNCHANGED <<lock, receipt>>, new.req = q,
             \/ thread[t].pc \in PreClaim /\ new.pc \in PreClaim
             \/ thread[t].pc \in Claimed /\ new.pc \in Claimed
      PROVE  HandlerInv'
  <2>1. thread'[t] = new /\ \A u \in Thread \ {t} : thread'[u] = thread[u]
    BY <1>t, <1>m, OnlyThread
  <2>2. OthersKept(t) BY <1>m, <2>1 DEF OthersKept
  <2>3. QED BY <1>m, <2>1, <2>2, GoesOnKeeps
<1>p. ASSUME NEW pc, Goto(t, pc)
      PROVE  \E new : /\ thread' = [thread EXCEPT ![t] = new]
                      /\ new.req = q /\ new.pc = pc
  <2> DEFINE new == [thread[t] EXCEPT !.pc = pc]
  <2>1. new.req = q /\ new.pc = pc BY <1>t DEF ThreadState
  <2>2. thread' = [thread EXCEPT ![t] = new] BY <1>p, <1>t DEF Goto, ThreadsOK
  <2>3. QED BY <2>1, <2>2
<1>d. \A a : Done(t, a) => /\ thread' = [thread EXCEPT ![t] = IdleThread]
                           /\ lock' = lock \/ Unlock(t)
  BY DEF Done, Answer
<1>n. Unlock(t) => lock' = lock \/ Unlock(t) OBVIOUS
<1>1. CASE ConfirmLock(t)
  <2>1. UNCHANGED receipt /\ c \in Command /\ q.kind = "confirm"
    BY <1>1, <1>t, RequestOK DEF ConfirmLock, ThreadsOK
  <2>2. CASE UNCHANGED lock /\ thread' = [thread EXCEPT ![t] = IdleThread]
    BY <1>e, <2>1, <2>2
  <2>3. CASE /\ receipt[c].status = "none" /\ lock = Nobody /\ lock' = t
             /\ Goto(t, "c_load")
    <3>1. PICK new : /\ thread' = [thread EXCEPT ![t] = new]
                     /\ new.req = q /\ new.pc = "c_load"
      BY <1>p, <2>3
    <3>2. thread'[t] = new /\ \A u \in Thread \ {t} : thread'[u] = thread[u]
      BY <1>t, <3>1, OnlyThread
    <3>3. OthersKept(t) BY <2>1, <2>3, <3>2 DEF OthersKept
    <3>4. HandlerOK(t)'
      BY <2>1, <2>3, <3>1, <3>2 DEF HandlerOK, ClaimOK, Claimed, LegacyPc
    <3>5. QED BY <3>3, <3>4, HandlerKept
  <2>4. QED BY <1>1, <2>2, <2>3 DEF ConfirmLock, Answer
<1>2. CASE ConfirmLoad(t)
  <2>1. UNCHANGED receipt /\ thread[t].pc = "c_load"
    BY <1>2 DEF ConfirmLoad
  <2>2. CASE Done(t, "error") BY <1>e, <1>d, <2>1, <2>2
  <2>3. CASE /\ UNCHANGED lock
             /\ thread' = [thread EXCEPT ![t] =
                  [@ EXCEPT !.pc = "c_check", !.stamp = head.stamp,
                            !.status = head.status]]
    <3> DEFINE new == [thread[t] EXCEPT !.pc = "c_check",
                         !.stamp = head.stamp, !.status = head.status]
    <3>1. new.pc = "c_check" /\ new.req = q BY <1>t DEF ThreadState
    <3>2. thread' = [thread EXCEPT ![t] = new] BY <2>3, <1>t DEF ThreadsOK
    <3> HIDE DEF new
    <3>3. QED BY <1>m, <2>1, <2>3, <3>1, <3>2 DEF PreClaim
  <2>4. QED BY <1>2, <2>2, <2>3 DEF ConfirmLoad
<1>3. CASE ConfirmCheck(t)
  <2>1. UNCHANGED receipt /\ thread[t].pc = "c_check"
    BY <1>3 DEF ConfirmCheck
  <2>2. CASE \E a : Done(t, a) BY <1>e, <1>d, <2>1, <2>2
  <2>3. ASSUME NEW pc \in {"c_conflict", "c_bind"}, Goto(t, pc), UNCHANGED lock
        PROVE  HandlerInv'
    BY <1>p, <1>m, <2>1, <2>3 DEF PreClaim
  <2>4. QED BY <1>3, <2>2, <2>3 DEF ConfirmCheck
<1>4. CASE ConfirmConflict(t)
  <2>1. thread[t].pc \in ConfirmPc /\ \E a : Done(t, a)
    BY <1>4 DEF ConfirmConflict, ConfirmPc
  <2>2. \/ UNCHANGED receipt
        \/ receipt' = [receipt EXCEPT ![c] = Conflicted(q, FALSE)]
    BY <1>4 DEF ConfirmConflict
  <2>3. QED BY <1>e, <1>r, <1>d, <2>1, <2>2
<1>5. CASE ConfirmBind(t)
  <2>1. UNCHANGED receipt /\ thread[t].pc = "c_bind"
    BY <1>5 DEF ConfirmBind
  <2>2. CASE Done(t, "error") BY <1>e, <1>d, <2>1, <2>2
  <2>3. CASE /\ UNCHANGED lock
             /\ thread' = [thread EXCEPT ![t] =
                  [@ EXCEPT !.pc = "c_claim", !.bound = head.stamp,
                            !.boundVersions = head.versions]]
    <3> DEFINE new == [thread[t] EXCEPT !.pc = "c_claim",
                         !.bound = head.stamp, !.boundVersions = head.versions]
    <3>1. new.pc = "c_claim" /\ new.req = q BY <1>t DEF ThreadState
    <3>2. thread' = [thread EXCEPT ![t] = new] BY <2>3, <1>t DEF ThreadsOK
    <3> HIDE DEF new
    <3>3. QED BY <1>m, <2>1, <2>3, <3>1, <3>2 DEF PreClaim
  <2>4. QED BY <1>5, <2>2, <2>3 DEF ConfirmBind
<1>6. CASE ConfirmClaim(t)
  <2>1. thread[t].pc \in ConfirmPc BY <1>6 DEF ConfirmClaim, ConfirmPc
  <2>2. CASE UNCHANGED receipt /\ \E a : Done(t, a)
    BY <1>e, <1>d, <2>2
  <2>3. ASSUME NEW r, r.status = "pending",
               receipt' = [receipt EXCEPT ![c] = r],
               Goto(t, "c_probe"), UNCHANGED lock
        PROVE  HandlerInv'
    <3>1. PICK new : /\ thread' = [thread EXCEPT ![t] = new]
                     /\ new.req = q /\ new.pc = "c_probe"
      BY <1>p, <2>3
    <3>2. thread'[t] = new /\ \A u \in Thread \ {t} : thread'[u] = thread[u]
      BY <1>t, <3>1, OnlyThread
    <3>3. OthersKept(t) BY <2>1, <2>3, <3>2, <1>t DEF OthersKept
    <3>4. receipt'[c] = r BY <1>c, <1>t, <2>1, <2>3
    <3>5. HandlerOK(t)'
      BY <1>c, <2>1, <2>3, <3>1, <3>2, <3>4
      DEF HandlerOK, ClaimOK, PreClaim, LegacyPc
    <3>6. QED BY <3>3, <3>5, HandlerKept
  <2>4. QED BY <1>6, <2>2, <2>3 DEF ConfirmClaim
<1>7. CASE ConfirmProbe(t) \/ ConfirmProbed(t) \/ ConfirmOpen(t)
  <2>1. UNCHANGED receipt /\ thread[t].pc \in Claimed
    BY <1>7 DEF ConfirmProbe, ConfirmProbed, ConfirmOpen, table, Claimed
  <2>2. CASE \E a : Done(t, a) BY <1>e, <1>d, <2>1, <2>2
  <2>3. ASSUME NEW pc \in Claimed, Goto(t, pc), UNCHANGED lock
        PROVE  HandlerInv'
    BY <1>p, <1>m, <2>1, <2>3
  <2>4. {"c_wait", "c_open", "c_fail_keep", "c_fail_drop", "c_fail_note",
         "c_commit"} \subseteq Claimed
    BY DEF Claimed
  <2>5. QED
    BY <1>7, <2>2, <2>3, <2>4 DEF ConfirmProbe, ConfirmProbed, ConfirmOpen
<1>8. CASE ConfirmCommit(t)
  <2>1. thread[t].pc \in ConfirmPc /\ Unlock(t)
    BY <1>8 DEF ConfirmCommit, ConfirmPc
  <2>2. \/ CommitReplays(t, q, TRUE, FALSE) /\ UNCHANGED receipt
        \/ CommitConflicts(t, q, TRUE, FALSE, TRUE)
        \/ CommitApplies(t, q, TRUE, "running")
        \/ Answer(t, "error") /\ UNCHANGED receipt
    BY <1>8 DEF ConfirmCommit
  <2>3. thread' = [thread EXCEPT ![t] = IdleThread]
    BY <2>2, CommitEnds DEF Answer
  <2>4. OthersKept(t) BY <1>t, <1>c, <2>1, <2>2, <2>3, CommitOthers
  <2>5. QED BY <2>3, <2>4, EndKeeps
<1>9. ASSUME NEW keep \in BOOLEAN, ConfirmFail(t, keep) PROVE HandlerInv'
  <2>1. thread[t].pc \in ConfirmPc /\ Unlock(t)
    BY <1>9 DEF ConfirmFail, ConfirmPc
  <2>2. \/ CommitReplays(t, q, TRUE, TRUE) /\ UNCHANGED receipt
        \/ CommitConflicts(t, q, TRUE, TRUE, keep)
        \/ CommitRecordsFailure(t, q, keep)
        \/ Answer(t, "error") /\ UNCHANGED receipt
    BY <1>9 DEF ConfirmFail
  <2>3. thread' = [thread EXCEPT ![t] = IdleThread]
    BY <2>2, CommitEnds DEF Answer
  <2>4. OthersKept(t) BY <1>t, <1>c, <2>1, <2>2, <2>3, CommitOthers
  <2>5. QED BY <2>3, <2>4, EndKeeps
<1>10. CASE ConfirmFailNote(t)
  <2>1. thread[t].pc \in ConfirmPc /\ Unlock(t) /\ \E a : Answer(t, a)
    BY <1>10 DEF ConfirmFailNote, ConfirmPc
  <2>2. UNCHANGED receipt \/ \E r : receipt' = [receipt EXCEPT ![c] = r]
    BY <1>10 DEF ConfirmFailNote
  <2>3. QED BY <1>e, <1>r, <2>1, <2>2 DEF Answer
<1>11. QED
  BY <1>1, <1>2, <1>3, <1>4, <1>5, <1>6, <1>7, <1>8, <1>9, <1>10
  DEF ConfirmStep

\* confirm_run for a legacy client.
LEMMA LegacyHandlers ==
  ASSUME HandlerInv, TypeInv', NEW t \in Thread, LegacyStep(t)
  PROVE  HandlerInv'
<1>t. /\ TypeInv /\ ThreadsOK /\ thread[t] \in ThreadState
  BY DEF HandlerInv, TypeInv, ThreadsOK
<1>e. ASSUME thread' = [thread EXCEPT ![t] = IdleThread],
             lock' = lock \/ Unlock(t), UNCHANGED receipt
      PROVE  HandlerInv'
  <2>1. \A u \in Thread \ {t} : thread'[u] = thread[u]
    BY <1>t, <1>e, OnlyThread
  <2>2. OthersKept(t) BY <1>t, <1>e, <2>1 DEF OthersKept, Unlock
  <2>3. QED BY <1>e, <2>2, EndKeeps
<1>d. \A a : Done(t, a) => /\ thread' = [thread EXCEPT ![t] = IdleThread]
                           /\ lock' = lock \/ Unlock(t)
  BY DEF Done, Answer
<1>m. ASSUME NEW new, thread' = [thread EXCEPT ![t] = new],
             UNCHANGED receipt, new.pc \in LegacyPc, Legacy(new.req),
             new.req.kind = "confirm",
             \/ lock' = lock /\ lock = t
             \/ lock = Nobody /\ lock' = t
      PROVE  HandlerInv'
  <2>1. thread'[t] = new /\ \A u \in Thread \ {t} : thread'[u] = thread[u]
    BY <1>t, <1>m, OnlyThread
  <2>2. OthersKept(t) BY <1>m, <2>1 DEF OthersKept
  <2>3. HandlerOK(t)' BY <1>m, <2>1 DEF HandlerOK, ConfirmPc, LegacyPc
  <2>4. QED BY <2>2, <2>3, HandlerKept
<1>p. ASSUME NEW pc, Goto(t, pc)
      PROVE  \E new : /\ thread' = [thread EXCEPT ![t] = new]
                      /\ new.pc = pc /\ new.req = thread[t].req
  <2> DEFINE new == [thread[t] EXCEPT !.pc = pc]
  <2>1. new.pc = pc /\ new.req = thread[t].req BY <1>t DEF ThreadState
  <2>2. thread' = [thread EXCEPT ![t] = new] BY <1>p, <1>t DEF Goto, ThreadsOK
  <2>3. QED BY <2>1, <2>2
<1>l. ASSUME NEW pc,
             thread' = [thread EXCEPT ![t] =
                [@ EXCEPT !.pc = pc, !.stamp = head.stamp,
                          !.status = head.status]]
      PROVE  \E new : /\ thread' = [thread EXCEPT ![t] = new]
                      /\ new.pc = pc /\ new.req = thread[t].req
  <2> DEFINE new == [thread[t] EXCEPT !.pc = pc, !.stamp = head.stamp,
                                      !.status = head.status]
  <2>1. new.pc = pc /\ new.req = thread[t].req BY <1>t DEF ThreadState
  <2>2. thread' = [thread EXCEPT ![t] = new] BY <1>l, <1>t DEF ThreadsOK
  <2>3. QED BY <2>1, <2>2
<1>1. UNCHANGED receipt
  BY DEF LegacyStep, LegacyLock, LegacyLoad, LegacyProbe, LegacyProbed,
         LegacyFail, LegacySave, LegacyReload, LegacyOpen, table
<1>2. CASE LegacyLock(t)
  BY <1>2, <1>1, <1>m, <1>p DEF LegacyLock, LegacyPc
<1>3. CASE ~LegacyLock(t)
  <2>1. lock = t /\ Legacy(thread[t].req) /\ thread[t].req.kind = "confirm"
    BY <1>3 DEF LegacyStep, LegacyLoad, LegacyProbe, LegacyProbed,
       LegacyFail, LegacySave, LegacyReload, LegacyOpen, HandlerInv, LockInv,
       ServeInv, LegacyPc
  <2>2. CASE \E a : Done(t, a) BY <1>1, <1>e, <1>d, <2>2
  <2>3. ASSUME NEW pc \in LegacyPc, UNCHANGED lock,
               \/ Goto(t, pc)
               \/ thread' = [thread EXCEPT ![t] =
                    [@ EXCEPT !.pc = pc, !.stamp = head.stamp,
                              !.status = head.status]]
        PROVE  HandlerInv'
    <3>1. \E new : /\ thread' = [thread EXCEPT ![t] = new]
                   /\ new.pc = pc /\ new.req = thread[t].req
      BY <1>p, <1>l, <2>3
    <3>2. QED BY <1>1, <1>m, <2>1, <2>3, <3>1
  <2>4. CASE LegacyOpen(t)
    BY <1>1, <1>e, <2>4 DEF LegacyOpen, SaveWithEvent, Answer
  <2>5. {"l_probe", "l_wait", "l_save", "l_fail", "l_reload", "l_write"}
           \subseteq LegacyPc
    BY DEF LegacyPc
  <2>6. QED
    BY <1>3, <2>2, <2>3, <2>4, <2>5 DEF LegacyStep, LegacyLoad, LegacyProbe,
       LegacyProbed, LegacyFail, LegacySave, LegacyReload
<1>4. QED BY <1>2, <1>3

\* What a handler relies on is inductive.
LEMMA HandlerInductive == HandlerInv /\ [Next]_vars => HandlerInv'
<1> SUFFICES ASSUME HandlerInv, [Next]_vars PROVE HandlerInv' OBVIOUS
<1>1. TypeInv' BY NextTypes DEF HandlerInv
<1>2. CASE \E t \in Thread : ThreadStep(t)
  BY <1>1, <1>2, GenericHandlers, ConfirmHandlers, LegacyHandlers
  DEF ThreadStep
<1>3. QED BY <1>1, <1>2, OutsideHandlers DEF Next

\* It holds at first: no handler is at work.
LEMMA HandlerInit == Init => HandlerInv
<1> SUFFICES ASSUME Init PROVE HandlerInv OBVIOUS
<1>1. \A t \in Thread : thread[t].pc = "idle"
  BY IdleThreadOK DEF Init
<1>2. QED
  BY <1>1, InitTypes DEF HandlerInv, ServeInv, LockInv, ClaimInv, ConfirmPc,
     LegacyPc

-----------------------------------------------------------------------------
(* One confirmed version *)

\* The steps between the read of the row and the write.
ReadPc == {"boost", "open", "write", "c_check", "c_conflict", "c_bind",
           "c_claim", "c_probe", "c_wait", "c_open", "c_commit", "c_fail_keep",
           "c_fail_drop", "c_fail_note", "l_probe", "l_wait", "l_save",
           "l_fail", "l_write"}
\* What it read is the row, as long as updated_at is what it read.
StampInv ==
    \A t \in Thread : thread[t].pc \in ReadPc =>
        /\ thread[t].stamp <= head.stamp
        /\ thread[t].stamp = head.stamp => thread[t].status = head.status

\* A research confirmed once is no draft again, so that the second handler
\* to confirm it finds another status or another updated_at.
DraftInv ==
    /\ ~head.live => events = {}
    /\ \A e \in events : e.kind = "confirm" => head.status # "draft"
    /\ \A e, f \in events : e.kind = "confirm" /\ f.kind = "confirm" => e = f
    /\ \A t \in Thread : thread[t].pc = "l_write" => thread[t].status = "draft"

\* What a step does to the row and the log: nothing but a deletion; a save
\* without an event, which never makes a draft; a write with an event, which
\* confirms a draft or keeps what is confirmed; the creation of the row.
RowStep ==
    \/ /\ head'.stamp = head.stamp /\ head'.status = head.status
       /\ \/ head'.live = head.live /\ events' = events
          \/ ~head'.live /\ events' = {}
    \/ /\ head'.stamp = head.stamp + 1 /\ head'.live = head.live
       /\ head'.status = head.status \/ head'.status # "draft"
       /\ events' = events
    \/ /\ head'.stamp = head.stamp + 1 /\ head.live /\ head'.live
       /\ head.status # "draft" => head'.status # "draft"
       /\ \E e : /\ events' = events \cup {e}
                 /\ e.kind = "confirm" =>
                       head.status = "draft" /\ head'.status # "draft"
    \/ /\ head'.stamp = head.stamp + 1 /\ ~head.live
       /\ head'.live /\ head'.status = "draft"
       /\ \E e : events' = events \cup {e} /\ e.kind # "confirm"

\* What a step does to what the handlers have read of the row.
ReadStep ==
    \A u \in Thread :
        /\ thread'[u].pc \in ReadPc =>
              \/ /\ thread[u].pc \in ReadPc
                 /\ thread'[u].stamp = thread[u].stamp
                 /\ thread'[u].status = thread[u].status
              \/ /\ thread'[u].stamp = head'.stamp
                 /\ thread'[u].status = head'.status
        /\ thread'[u].pc = "l_write" =>
              \/ thread'[u] = thread[u]
              \/ thread'[u].status = "draft"

\* The invariant of the row.
RowInv == StampInv /\ DraftInv

\* Such a step keeps what handlers read and the one confirmation.
LEMMA RowStepKeeps ==
  ASSUME TypeInv, RowInv, RowStep, ReadStep
  PROVE  RowInv'
<1>h. head.stamp \in Nat /\ \A u \in Thread : thread[u].stamp \in Nat
  BY DEF TypeInv, TablesOK, ThreadsOK, Head, ThreadState
<1>1. StampInv'
  <2>1. SUFFICES ASSUME NEW u \in Thread, thread'[u].pc \in ReadPc
                 PROVE  /\ thread'[u].stamp <= head'.stamp
                        /\ thread'[u].stamp = head'.stamp =>
                              thread'[u].status = head'.status
    BY DEF StampInv
  <2>2. \/ head'.stamp = head.stamp /\ head'.status = head.status
        \/ head'.stamp = head.stamp + 1
    BY DEF RowStep
  <2>3. thread[u].pc \in ReadPc =>
          /\ thread[u].stamp <= head.stamp
          /\ thread[u].stamp = head.stamp => thread[u].status = head.status
    BY DEF RowInv, StampInv
  <2>4. \/ /\ thread[u].pc \in ReadPc
           /\ thread'[u].stamp = thread[u].stamp
           /\ thread'[u].status = thread[u].status
        \/ /\ thread'[u].stamp = head'.stamp
           /\ thread'[u].status = head'.status
    BY <2>1 DEF ReadStep
  <2>5. QED BY <1>h, <2>2, <2>3, <2>4
<1>2. (~head.live => events = {})'
  BY DEF RowStep, RowInv, DraftInv
<1>3. (\A e \in events : e.kind = "confirm" => head.status # "draft")'
  BY DEF RowStep, RowInv, DraftInv
<1>4. (\A e, f \in events : e.kind = "confirm" /\ f.kind = "confirm" => e = f)'
  BY DEF RowStep, RowInv, DraftInv
<1>5. (\A t \in Thread : thread[t].pc = "l_write" => thread[t].status = "draft")'
  BY DEF ReadStep, RowInv, DraftInv
<1>6. QED BY <1>1, <1>2, <1>3, <1>4, <1>5 DEF RowInv, DraftInv

\* The ways in which a busy thread moves, once more.
LEMMA MovesRead ==
  ASSUME TypeInv, NEW t \in Thread
  PROVE  /\ UNCHANGED thread => ReadStep
         /\ thread' = [thread EXCEPT ![t] = IdleThread] => ReadStep
         /\ \A a : Answer(t, a) => ReadStep
         /\ \A a : Done(t, a) => ReadStep
         /\ \A pc : Goto(t, pc) /\ pc # "l_write"
                    /\ (pc \in ReadPc => thread[t].pc \in ReadPc) => ReadStep
         /\ \A pc : /\ thread' = [thread EXCEPT ![t] =
                          [@ EXCEPT !.pc = pc, !.stamp = head.stamp,
                                    !.status = head.status]]
                    /\ head'.stamp = head.stamp /\ head'.status = head.status
                    /\ pc = "l_write" => head.status = "draft"
                    => ReadStep
<1>t. ThreadsOK /\ thread[t] \in ThreadState BY DEF TypeInv, ThreadsOK
<1>s. ASSUME NEW new, thread' = [thread EXCEPT ![t] = new],
             new.pc \in ReadPc =>
                \/ /\ thread[t].pc \in ReadPc
                   /\ new.stamp = thread[t].stamp
                   /\ new.status = thread[t].status
                \/ new.stamp = head'.stamp /\ new.status = head'.status,
             new.pc = "l_write" => new.status = "draft"
      PROVE  ReadStep
  <2>1. thread'[t] = new /\ \A u \in Thread \ {t} : thread'[u] = thread[u]
    BY <1>t, <1>s, OnlyThread
  <2>2. QED BY <1>s, <2>1 DEF ReadStep
<1>1. UNCHANGED thread => ReadStep BY DEF ReadStep
<1>2. thread' = [thread EXCEPT ![t] = IdleThread] => ReadStep
  BY <1>s, IdleThreadOK DEF ReadPc
<1>3. \A a : (Answer(t, a) => ReadStep) /\ (Done(t, a) => ReadStep)
  BY <1>2 DEF Answer, Done
<1>4. ASSUME NEW pc, Goto(t, pc), pc # "l_write",
             pc \in ReadPc => thread[t].pc \in ReadPc
      PROVE  ReadStep
  <2> DEFINE new == [thread[t] EXCEPT !.pc = pc]
  <2>1. /\ new.pc = pc /\ new.stamp = thread[t].stamp
        /\ new.status = thread[t].status
    BY <1>t DEF ThreadState
  <2>2. thread' = [thread EXCEPT ![t] = new] BY <1>t, <1>4 DEF Goto, ThreadsOK
  <2> HIDE DEF new
  <2>3. QED BY <1>s, <1>4, <2>1, <2>2
<1>5. ASSUME NEW pc, thread' = [thread EXCEPT ![t] =
                          [@ EXCEPT !.pc = pc, !.stamp = head.stamp,
                                    !.status = head.status]],
             head'.stamp = head.stamp /\ head'.status = head.status,
             pc = "l_write" => head.status = "draft"
      PROVE  ReadStep
  <2> DEFINE new == [thread[t] EXCEPT !.pc = pc, !.stamp = head.stamp,
                                      !.status = head.status]
  <2>1. new.pc = pc /\ new.stamp = head.stamp /\ new.status = head.status
    BY <1>t DEF ThreadState
  <2>2. thread' = [thread EXCEPT ![t] = new] BY <1>t, <1>5 DEF ThreadsOK
  <2> HIDE DEF new
  <2>3. QED BY <1>s, <1>5, <2>1, <2>2
<1>6. QED BY <1>1, <1>2, <1>3, <1>4, <1>5

\* Where a command may lead: a confirmation starts from a draft, and no
\* command makes a draft of anything else.
LEMMA AfterDraft ==
  ASSUME NEW k, NEW s \in Status
  PROVE  /\ k = "confirm" /\ After(k, s) # {} => s = "draft"
         /\ \A x \in After(k, s) : s # "draft" => x # "draft"
  BY DEF After, Accepts, Status

\* The writes of CommandJournal.commit and of save_with_event are row steps.
LEMMA WritesAreRowSteps ==
  ASSUME NEW s, NEW b, NEW e, head.live,
         head' = Bumped(s, b), events' = events \cup {e},
         head.status # "draft" => s # "draft",
         e.kind = "confirm" => head.status = "draft" /\ s # "draft"
  PROVE  RowStep
  BY DEF RowStep, Bumped

\* Nothing happens to the row.
LEMMA NoRowStep ==
  ASSUME UNCHANGED <<head, events>>
  PROVE  RowStep
  BY DEF RowStep

\* Creation, deletion and the writes without a lock.
LEMMA GenericRows ==
  ASSUME HandlerInv, RowInv, NEW t \in Thread,
         Create(t) \/ Delete(t) \/ GenericStep(t)
  PROVE  RowStep /\ ReadStep
<1> DEFINE q == thread[t].req
<1>t. /\ TypeInv /\ head \in Head /\ head.stamp \in Nat
      /\ thread[t] \in ThreadState /\ thread[t].status \in Status
  BY DEF HandlerInv, TypeInv, TablesOK, ThreadsOK, ThreadState, Head
<1>1. CASE Create(t)
  <2>1. ReadStep BY <1>1, <1>t, MovesRead DEF Create
  <2>2. CASE UNCHANGED <<head, events>> BY <2>1, <2>2, NoRowStep
  <2>3. CASE /\ ~head.live
             /\ head' = [live |-> TRUE, rev |-> 0, seq |-> 1,
                         stamp |-> head.stamp + 1, status |-> "draft",
                         versions |-> 0, creator |-> q.cmd]
             /\ events' = events \cup {[seq |-> 1, kind |-> "create",
                                        cmd |-> q.cmd, expected |-> 0,
                                        rev |-> 0]}
    <3> DEFINE e == [seq |-> 1, kind |-> "create", cmd |-> q.cmd,
                     expected |-> 0, rev |-> 0]
    <3>1. e.kind # "confirm" /\ events' = events \cup {e} BY <2>3
    <3>2. /\ head'.stamp = head.stamp + 1 /\ head'.live
          /\ head'.status = "draft"
      BY <2>3
    <3>3. QED BY <2>1, <2>3, <3>1, <3>2 DEF RowStep
  <2>4. QED BY <1>1, <2>2, <2>3 DEF Create
<1>2. CASE Delete(t)
  <2>1. ReadStep BY <1>2, <1>t, MovesRead DEF Delete
  <2>2. CASE head.live
    <3>1. head' = [head EXCEPT !.live = FALSE] /\ events' = {}
      BY <1>2, <2>2 DEF Delete
    <3>2. QED BY <1>t, <2>1, <3>1 DEF RowStep, Head
  <2>3. CASE ~head.live BY <1>2, <2>1, <2>3, NoRowStep DEF Delete
  <2>4. QED BY <2>2, <2>3
<1>3. CASE Load(t)
  <2>1. RowStep /\ UNCHANGED head BY <1>3, NoRowStep DEF Load
  <2>2. NextPc(q.kind) # "l_write" BY DEF NextPc
  <2>3. QED BY <1>3, <1>t, <2>1, <2>2, MovesRead DEF Load
<1>4. CASE Boost(t)
  <2>1. CASE head.live /\ head.stamp = thread[t].stamp
    <3>1. head' = [head EXCEPT !.stamp = head.stamp + 1] /\ UNCHANGED events
      BY <1>4, <2>1 DEF Boost
    <3>2. /\ head'.stamp = head.stamp + 1 /\ head'.status = head.status
          /\ head'.live = head.live
      BY <1>t, <3>1 DEF Head
    <3>3. thread[t].status = head.status /\ thread[t].pc \in ReadPc
      BY <1>4, <2>1 DEF Boost, RowInv, StampInv, ReadPc
    <3> DEFINE new == [thread[t] EXCEPT !.pc = "write",
                                        !.stamp = head.stamp + 1]
    <3>4. /\ new.pc = "write" /\ new.stamp = head'.stamp
          /\ new.status = head'.status
      BY <1>t, <3>2, <3>3 DEF ThreadState
    <3>5. thread' = [thread EXCEPT ![t] = new]
      BY <1>4, <1>t, <2>1 DEF Boost, TypeInv, ThreadsOK
    <3> HIDE DEF new
    <3>6. thread'[t] = new /\ \A u \in Thread \ {t} : thread'[u] = thread[u]
      BY <1>t, <3>5, OnlyThread DEF TypeInv
    <3>7. ReadStep BY <3>4, <3>6 DEF ReadStep
    <3>8. QED BY <3>1, <3>2, <3>7 DEF RowStep
  <2>2. CASE ~(head.live /\ head.stamp = thread[t].stamp)
    <3>1. Answer(t, "error") /\ UNCHANGED <<head, events>>
      BY <1>4, <2>2 DEF Boost
    <3>2. QED BY <1>t, <3>1, MovesRead, NoRowStep
  <2>3. QED BY <2>1, <2>2
<1>5. CASE Open(t)
  <2>1. RowStep BY <1>5, NoRowStep DEF Open
  <2>2. thread[t].pc \in ReadPc BY <1>5 DEF Open, ReadPc
  <2>3. QED BY <1>5, <1>t, <2>1, <2>2, MovesRead DEF Open
<1>6. CASE Write(t)
  <2>1. Generic(q) /\ thread[t].pc \in ReadPc
    BY <1>6 DEF Write, HandlerInv, ServeInv, ReadPc
  <2>2. PICK s : \/ CommitReplays(t, q, FALSE, FALSE)
                       /\ UNCHANGED <<head, events>>
                 \/ CommitConflicts(t, q, FALSE, FALSE, FALSE)
                       /\ UNCHANGED <<head, events>>
                 \/ /\ CommitApplies(t, q, FALSE, s)
                    /\ s \in After(q.kind, thread[t].status)
                 \/ Answer(t, "error") /\ UNCHANGED <<head, events>>
    BY <1>6 DEF Write
  <2>3. thread' = [thread EXCEPT ![t] = IdleThread]
    BY <2>2, CommitEnds DEF Answer
  <2>4. ReadStep BY <1>t, <2>3, MovesRead
  <2>5. CASE /\ CommitApplies(t, q, FALSE, s)
             /\ s \in After(q.kind, thread[t].status)
    <3>1. /\ head.live /\ head.stamp = thread[t].stamp
          /\ head' = Bumped(s, OpensVersion(q.kind))
          /\ events' = events \cup {Row(q.kind, q)}
      BY <2>5 DEF CommitApplies, Applied, Matches
    <3>2. thread[t].status = head.status
      BY <2>1, <3>1 DEF RowInv, StampInv
    <3>3. head.status # "draft" => s # "draft"
      BY <1>t, <2>5, <3>2, AfterDraft
    <3>4. Row(q.kind, q).kind # "confirm"
      BY <2>1 DEF Row, Generic
    <3>5. RowStep BY <3>1, <3>3, <3>4, WritesAreRowSteps
    <3>6. QED BY <2>4, <3>5
  <2>6. QED BY <2>2, <2>4, <2>5, NoRowStep
<1>7. CASE LegacyWrite(t)
  <2>1. Generic(q) /\ thread[t].pc \in ReadPc
    BY <1>7 DEF LegacyWrite, HandlerInv, ServeInv, ReadPc
  <2>2. PICK s \in After(q.kind, thread[t].status) :
           SaveWithEvent(t, q.kind, s, OpensVersion(q.kind))
    BY <1>7 DEF LegacyWrite
  <2>3. ReadStep BY <1>t, <2>2, MovesRead DEF SaveWithEvent
  <2>4. CASE head.live /\ head.stamp = thread[t].stamp
    <3>1. /\ head' = Bumped(s, OpensVersion(q.kind))
          /\ events' = events \cup {LegacyRow(q.kind)}
      BY <2>2, <2>4 DEF SaveWithEvent
    <3>2. thread[t].status = head.status
      BY <2>1, <2>4 DEF RowInv, StampInv
    <3>3. head.status # "draft" => s # "draft"
      BY <1>t, <2>2, <3>2, AfterDraft
    <3>4. LegacyRow(q.kind).kind # "confirm"
      BY <2>1 DEF LegacyRow, Generic
    <3>5. RowStep BY <2>4, <3>1, <3>3, <3>4, WritesAreRowSteps
    <3>6. QED BY <2>3, <3>5
  <2>5. CASE ~(head.live /\ head.stamp = thread[t].stamp)
    BY <2>2, <2>3, <2>5, NoRowStep DEF SaveWithEvent
  <2>6. QED BY <2>4, <2>5
<1>8. QED BY <1>1, <1>2, <1>3, <1>4, <1>5, <1>6, <1>7 DEF GenericStep

\* Taking note of the row that is read.
LEMMA LoadReads ==
  ASSUME TypeInv, NEW t \in Thread, NEW pc, UNCHANGED <<head, events>>,
         thread' = [thread EXCEPT ![t] =
            [@ EXCEPT !.pc = pc, !.stamp = head.stamp,
                      !.status = head.status]],
         pc = "l_write" => head.status = "draft"
  PROVE  RowStep /\ ReadStep
<1>1. head'.stamp = head.stamp /\ head'.status = head.status OBVIOUS
<1>2. ReadStep BY <1>1, MovesRead
<1>3. QED BY <1>2, NoRowStep

\* A journaled confirmation.
LEMMA ConfirmRows ==
  ASSUME HandlerInv, RowInv, NEW t \in Thread, ConfirmStep(t)
  PROVE  RowStep /\ ReadStep
<1> DEFINE q == thread[t].req
<1>t. /\ TypeInv /\ head \in Head /\ head.stamp \in Nat
      /\ thread[t] \in ThreadState /\ thread[t].status \in Status
      /\ (thread[t].pc \in ConfirmPc => q.kind = "confirm")
  BY DEF HandlerInv, TypeInv, TablesOK, ThreadsOK, ThreadState, Head, ServeInv
<1>1. CASE ConfirmLock(t) \/ ConfirmCheck(t) \/ ConfirmConflict(t)
           \/ ConfirmClaim(t) \/ ConfirmProbe(t) \/ ConfirmProbed(t)
           \/ ConfirmOpen(t) \/ ConfirmFailNote(t)
  <2>1. UNCHANGED <<head, events>>
    BY <1>1 DEF ConfirmLock, ConfirmCheck, ConfirmConflict, ConfirmClaim,
       ConfirmProbe, ConfirmProbed, ConfirmOpen, ConfirmFailNote, table
  <2>2. \/ \E a : Answer(t, a) \/ Done(t, a)
        \/ Goto(t, "c_load")
        \/ \E pc : /\ Goto(t, pc) /\ pc # "l_write"
                   /\ thread[t].pc \in ReadPc
    BY <1>1 DEF ConfirmLock, ConfirmCheck, ConfirmConflict, ConfirmClaim,
       ConfirmProbe, ConfirmProbed, ConfirmOpen, ConfirmFailNote, ReadPc
  <2>3. "c_load" # "l_write" /\ "c_load" \notin ReadPc BY DEF ReadPc
  <2>4. ReadStep BY <1>t, <2>2, <2>3, MovesRead
  <2>5. QED BY <2>1, <2>4, NoRowStep
<1>2. CASE ConfirmLoad(t)
  <2>1. UNCHANGED <<head, events>> BY <1>2 DEF ConfirmLoad
  <2>2. CASE Done(t, "error") BY <1>t, <2>1, <2>2, MovesRead, NoRowStep
  <2>3. CASE thread' = [thread EXCEPT ![t] =
               [@ EXCEPT !.pc = "c_check", !.stamp = head.stamp,
                         !.status = head.status]]
    <3>1. "c_check" # "l_write" OBVIOUS
    <3>2. QED BY <1>t, <2>1, <2>3, <3>1, LoadReads
  <2>4. QED BY <1>2, <2>2, <2>3 DEF ConfirmLoad
<1>3. CASE ConfirmBind(t)
  <2>1. UNCHANGED <<head, events>> BY <1>3 DEF ConfirmBind
  <2>2. CASE Done(t, "error") BY <1>t, <2>1, <2>2, MovesRead, NoRowStep
  <2>3. CASE thread' = [thread EXCEPT ![t] =
                  [@ EXCEPT !.pc = "c_claim", !.bound = head.stamp,
                            !.boundVersions = head.versions]]
    <3> DEFINE new == [thread[t] EXCEPT !.pc = "c_claim",
                         !.bound = head.stamp, !.boundVersions = head.versions]
    <3>1. /\ new.pc = "c_claim" /\ new.stamp = thread[t].stamp
          /\ new.status = thread[t].status
      BY <1>t DEF ThreadState
    <3>2. thread' = [thread EXCEPT ![t] = new]
      BY <1>t, <2>3 DEF TypeInv, ThreadsOK
    <3> HIDE DEF new
    <3>3. thread'[t] = new /\ \A u \in Thread \ {t} : thread'[u] = thread[u]
      BY <1>t, <3>2, OnlyThread DEF TypeInv
    <3>4. thread[t].pc \in ReadPc BY <1>3 DEF ConfirmBind, ReadPc
    <3>5. ReadStep BY <3>1, <3>3, <3>4 DEF ReadStep
    <3>6. QED BY <2>1, <3>5, NoRowStep
  <2>4. QED BY <1>3, <2>2, <2>3 DEF ConfirmBind
<1>4. CASE ConfirmCommit(t)
  <2>1. q.kind = "confirm" /\ thread[t].pc \in ReadPc
    BY <1>4, <1>t DEF ConfirmCommit, ConfirmPc, ReadPc
  <2>2. \/ CommitReplays(t, q, TRUE, FALSE) /\ UNCHANGED <<head, events>>
        \/ CommitConflicts(t, q, TRUE, FALSE, TRUE)
              /\ UNCHANGED <<head, events>>
        \/ /\ CommitApplies(t, q, TRUE, "running")
           /\ After("confirm", thread[t].status) # {}
        \/ Answer(t, "error") /\ UNCHANGED <<head, events>>
    BY <1>4 DEF ConfirmCommit
  <2>3. thread' = [thread EXCEPT ![t] = IdleThread]
    BY <2>2, CommitEnds DEF Answer
  <2>4. ReadStep BY <1>t, <2>3, MovesRead
  <2>5. CASE /\ CommitApplies(t, q, TRUE, "running")
             /\ After("confirm", thread[t].status) # {}
    <3>1. /\ head.live /\ head.stamp = thread[t].stamp
          /\ head' = Bumped("running", OpensVersion(q.kind))
          /\ events' = events \cup {Row(q.kind, q)}
      BY <2>5 DEF CommitApplies, Applied, Matches
    <3>2. head.status = "draft"
      BY <1>t, <2>1, <2>5, <3>1, AfterDraft DEF RowInv, StampInv
    <3>3. RowStep BY <3>1, <3>2, WritesAreRowSteps
    <3>4. QED BY <2>4, <3>3
  <2>6. QED BY <2>2, <2>4, <2>5, NoRowStep
<1>5. ASSUME NEW keep \in BOOLEAN, ConfirmFail(t, keep)
      PROVE  RowStep /\ ReadStep
  <2>1. \/ CommitReplays(t, q, TRUE, TRUE) /\ UNCHANGED <<head, events>>
        \/ CommitConflicts(t, q, TRUE, TRUE, keep)
              /\ UNCHANGED <<head, events>>
        \/ CommitRecordsFailure(t, q, keep)
        \/ Answer(t, "error") /\ UNCHANGED <<head, events>>
    BY <1>5 DEF ConfirmFail
  <2>2. thread' = [thread EXCEPT ![t] = IdleThread]
    BY <2>1, CommitEnds DEF Answer
  <2>3. ReadStep BY <1>t, <2>2, MovesRead
  <2>4. CASE CommitRecordsFailure(t, q, keep)
    <3>1. /\ head.live /\ head' = Bumped(head.status, FALSE)
          /\ events' = events \cup {Row("confirm_failed", q)}
      BY <2>4 DEF CommitRecordsFailure, FailureNoted
    <3>2. Row("confirm_failed", q).kind # "confirm" BY DEF Row
    <3>3. RowStep BY <3>1, <3>2, WritesAreRowSteps
    <3>4. QED BY <2>3, <3>3
  <2>5. QED BY <2>1, <2>3, <2>4, NoRowStep
<1>6. QED BY <1>1, <1>2, <1>3, <1>4, <1>5 DEF ConfirmStep

\* A legacy confirmation.
LEMMA LegacyRows ==
  ASSUME HandlerInv, RowInv, NEW t \in Thread, LegacyStep(t)
  PROVE  RowStep /\ ReadStep
<1>t. /\ TypeInv /\ head \in Head /\ head.stamp \in Nat
      /\ head.status \in Status
  BY DEF HandlerInv, TypeInv, TablesOK, Head
<1>1. CASE LegacyLock(t) \/ LegacyProbe(t) \/ LegacyProbed(t)
  <2>1. UNCHANGED <<head, events>>
    BY <1>1 DEF LegacyLock, LegacyProbe, LegacyProbed, table
  <2>2. \/ \E a : Done(t, a)
        \/ Goto(t, "l_load")
        \/ \E pc : /\ Goto(t, pc) /\ pc # "l_write"
                   /\ thread[t].pc \in ReadPc
    BY <1>1 DEF LegacyLock, LegacyProbe, LegacyProbed, ReadPc
  <2>3. "l_load" # "l_write" /\ "l_load" \notin ReadPc BY DEF ReadPc
  <2>4. ReadStep BY <1>t, <2>2, <2>3, MovesRead
  <2>5. QED BY <2>1, <2>4, NoRowStep
<1>2. CASE LegacyLoad(t)
  <2>1. UNCHANGED <<head, events>> BY <1>2 DEF LegacyLoad, table
  <2>2. CASE \E a : Done(t, a) BY <1>t, <2>1, <2>2, MovesRead, NoRowStep
  <2>3. CASE thread' = [thread EXCEPT ![t] =
               [@ EXCEPT !.pc = "l_probe", !.stamp = head.stamp,
                         !.status = head.status]]
    <3>1. "l_probe" = "l_write" => head.status = "draft" OBVIOUS
    <3>2. TypeInv BY <1>t
    <3>3. QED BY <2>1, <2>3, <3>1, <3>2, LoadReads, Zenon
  <2>4. QED BY <1>2, <2>2, <2>3 DEF LegacyLoad
<1>7. CASE LegacyReload(t)
  <2>1. UNCHANGED <<head, events>> BY <1>7 DEF LegacyReload, table
  <2>2. CASE \E a : Done(t, a) BY <1>t, <2>1, <2>2, MovesRead, NoRowStep
  <2>3. CASE /\ thread' = [thread EXCEPT ![t] =
                  [@ EXCEPT !.pc = "l_write", !.stamp = head.stamp,
                            !.status = head.status]]
             /\ After("confirm", head.status) # {}
    <3>1. head.status = "draft" BY <1>t, <2>3, AfterDraft
    <3>2. QED BY <1>t, <2>1, <2>3, <3>1, LoadReads
  <2>4. QED BY <1>7, <2>2, <2>3 DEF LegacyReload
<1>3. CASE LegacyFail(t)
  <2>1. ReadStep BY <1>3, <1>t, MovesRead DEF LegacyFail
  <2>2. CASE UNCHANGED <<head, events>> BY <2>1, <2>2, NoRowStep
  <2>3. CASE /\ head.live /\ head' = Bumped(head.status, FALSE)
             /\ events' = events \cup {LegacyRow("confirm_failed")}
    <3>1. LegacyRow("confirm_failed").kind # "confirm" BY DEF LegacyRow
    <3>2. QED BY <2>1, <2>3, <3>1, WritesAreRowSteps
  <2>4. QED BY <1>3, <2>2, <2>3 DEF LegacyFail
<1>4. CASE LegacySave(t)
  <2>1. "l_reload" # "l_write" /\ "l_reload" \notin ReadPc BY DEF ReadPc
  <2>2. ReadStep BY <1>4, <1>t, <2>1, MovesRead DEF LegacySave
  <2>3. UNCHANGED events /\ (\/ UNCHANGED head
                             \/ head' = [head EXCEPT !.stamp = @ + 1])
    BY <1>4 DEF LegacySave
  <2>4. RowStep BY <1>t, <2>3 DEF RowStep, Head
  <2>5. QED BY <2>2, <2>4
<1>5. CASE LegacyOpen(t)
  <2>1. SaveWithEvent(t, "confirm", "running", TRUE)
        /\ thread[t].status = "draft" /\ thread[t].pc \in ReadPc
    BY <1>5 DEF LegacyOpen, RowInv, DraftInv, ReadPc
  <2>2. ReadStep BY <1>t, <2>1, MovesRead DEF SaveWithEvent
  <2>3. CASE head.live /\ head.stamp = thread[t].stamp
    <3>1. /\ head' = Bumped("running", TRUE)
          /\ events' = events \cup {LegacyRow("confirm")}
      BY <2>1, <2>3 DEF SaveWithEvent
    <3>2. head.status = "draft" BY <2>1, <2>3 DEF RowInv, StampInv
    <3>3. RowStep BY <2>3, <3>1, <3>2, WritesAreRowSteps
    <3>4. QED BY <2>2, <3>3
  <2>4. CASE ~(head.live /\ head.stamp = thread[t].stamp)
    BY <2>1, <2>2, <2>4, NoRowStep DEF SaveWithEvent
  <2>5. QED BY <2>3, <2>4
<1>6. QED BY <1>1, <1>2, <1>3, <1>4, <1>5, <1>7 DEF LegacyStep

\* Requests that arrive, the loop, a restart and the CLI.
LEMMA OutsideRows ==
  ASSUME HandlerInv, RowInv,
         \/ \E t \in Thread : \E q \in Request : Prepare(t, q)
         \/ LoopCommit \/ LoopSave \/ Restart \/ CliStatus
         \/ UNCHANGED vars
  PROVE  RowStep /\ ReadStep
<1>t. /\ TypeInv /\ head \in Head /\ head.stamp \in Nat
  BY DEF HandlerInv, TypeInv, TablesOK, Head
<1>1. ASSUME NEW t \in Thread, NEW q \in Request, Prepare(t, q)
      PROVE  RowStep /\ ReadStep
  <2>1. UNCHANGED <<head, events>> BY <1>1 DEF Prepare
  <2>2. CASE UNCHANGED thread
    BY <2>1, <2>2, NoRowStep DEF ReadStep
  <2>3. CASE Serve(t, q, "dispatch")
    <3> DEFINE new == [IdleThread EXCEPT !.pc = "dispatch", !.req = q]
    <3>1. new.pc = "dispatch" BY DEF IdleThread
    <3>2. thread' = [thread EXCEPT ![t] = new] BY <2>3 DEF Serve
    <3> HIDE DEF new
    <3>3. thread'[t] = new /\ \A u \in Thread \ {t} : thread'[u] = thread[u]
      BY <1>t, <3>2, OnlyThread DEF TypeInv
    <3>4. ReadStep BY <3>1, <3>3 DEF ReadStep, ReadPc
    <3>5. QED BY <2>1, <3>4, NoRowStep
  <2>4. QED
    BY <1>1, <2>2, <2>3 DEF Prepare, PrepareLegacy, PrepareFresh,
       PrepareKnown, AnswerNow
<1>2. CASE LoopCommit
  <2>1. PICK s \in {"running", "idle"} : head' = Bumped(s, FALSE)
    BY <1>2 DEF LoopCommit
  <2>2. LegacyRow("round").kind # "confirm" BY DEF LegacyRow
  <2>3. RowStep BY <1>2, <2>1, <2>2, WritesAreRowSteps DEF LoopCommit
  <2>4. QED BY <1>2, <2>3 DEF LoopCommit, ReadStep
<1>3. CASE LoopSave
  <2>1. PICK s \in {head.status, "idle"} :
          head' = [head EXCEPT !.stamp = @ + 1, !.status = s]
    BY <1>3 DEF LoopSave
  <2>2. RowStep BY <1>3, <1>t, <2>1 DEF LoopSave, RowStep, Head
  <2>3. QED BY <1>3, <2>2 DEF LoopSave, ReadStep
<1>4. CASE Restart
  <2>1. \A t \in Thread : thread'[t].pc = "idle"
    BY <1>4, IdleThreadOK DEF Restart
  <2>2. QED BY <1>4, <2>1, NoRowStep DEF Restart, ReadStep, ReadPc
<1>5. CASE CliStatus \/ UNCHANGED vars
  BY <1>5, NoRowStep DEF CliStatus, vars, ReadStep
<1>6. QED BY <1>1, <1>2, <1>3, <1>4, <1>5

\* What handlers read, and the one confirmation, are inductive.
LEMMA RowInductive == HandlerInv /\ RowInv /\ [Next]_vars => RowInv'
<1> SUFFICES ASSUME HandlerInv, RowInv, [Next]_vars PROVE RowInv' OBVIOUS
<1>1. RowStep /\ ReadStep
  <2>1. CASE \E t \in Thread : ThreadStep(t)
    BY <2>1, GenericRows, ConfirmRows, LegacyRows DEF ThreadStep
  <2>2. QED BY <2>1, OutsideRows DEF Next
<1>2. QED BY <1>1, RowStepKeeps DEF HandlerInv

\* They hold at first, whatever research an older release left.
LEMMA RowInit == Init => RowInv
<1> SUFFICES ASSUME Init PROVE RowInv OBVIOUS
<1>1. \A t \in Thread : thread[t].pc = "idle"
  BY IdleThreadOK DEF Init
<1>2. QED BY <1>1 DEF Init, RowInv, StampInv, DraftInv, ReadPc

\* At most one event of a set is a confirmation.
LEMMA OneConfirmation == DraftInv => OneConfirmedVersion
<1> SUFFICES ASSUME DraftInv PROVE OneConfirmedVersion OBVIOUS
<1> DEFINE S == {e \in events : e.kind = "confirm"}
<1>1. CASE S = {}
  BY <1>1, FS_EmptySet DEF OneConfirmedVersion
<1>2. ASSUME NEW e \in S PROVE OneConfirmedVersion
  <2>1. S = {e} BY <1>2 DEF DraftInv
  <2>2. Cardinality(S) = 1 BY <2>1, FS_Singleton
  <2>3. QED BY <2>2 DEF OneConfirmedVersion
<1>3. QED BY <1>1, <1>2

\* Confirming is idempotent across clients: whatever mix of clients, legacy
\* clients, retries, crashes and CLI calls sends it, one version is opened by
\* confirmation (main.py:1170 and store.save_with_event).
THEOREM ConfirmedVersionIsOne == Spec => []OneConfirmedVersion
<1>1. DraftInv => OneConfirmedVersion BY OneConfirmation
<1>2. RowInv => DraftInv BY DEF RowInv
<1>3. QED
  BY HandlerInit, HandlerInductive, RowInit, RowInductive, <1>1, <1>2, PTL
  DEF Spec

-----------------------------------------------------------------------------
(* True answers *)

\* A client allocates a fresh id for every confirmation it sends; only its
\* retry repeats the id.  Other kinds may share ids among themselves.
FreshIds ==
    \A p, q \in Request :
        q.kind = "confirm" /\ q.cmd # NoCommand /\ p.cmd = q.cmd =>
            p.kind = "confirm"

\* So the receipt a handler of confirm_run finds is absent or its own.
FreshInv ==
    \A t \in Thread : thread[t].pc \in ConfirmPc =>
        \/ receipt[thread[t].req.cmd].status = "none"
        \/ receipt[thread[t].req.cmd].payload = thread[t].req

\* A receipt that decides its command holds a final outcome.
ReceiptInv ==
    \A c \in Command :
        /\ receipt[c].status = "committed" => receipt[c].outcome \in {"ok", "failed"}
        /\ receipt[c].status = "revision_conflict" => receipt[c].outcome = "conflict"

\* Every research that was created by a command has that command's receipt.
CreatorInv ==
    head.live /\ head.creator # NoCommand => receipt[head.creator].status # "none"

\* Receipt r decides request q with answer a.
Tells(r, q, a) ==
    /\ r.status \in {"committed", "revision_conflict"}
    /\ r.payload = q
    /\ r.outcome = a
\* Every final answer a client holds is still in its receipt.
AnsweredInv ==
    \A a \in answers : a.req.cmd # NoCommand /\ a.ans \in Final =>
                         Tells(receipt[a.req.cmd], a.req, a.ans)

-----------------------------------------------------------------------------
(* What a step can do to the answers: the journal's five kinds of steps *)

\* The statuses a receipt keeps for good.
DecidedStatus == {"committed", "revision_conflict"}

\* What clients are told in a step that leaves the receipts alone.
TellsTruth ==
    \A a \in answers' :
        \/ a \in answers
        \/ a.req.cmd # NoCommand /\ a.ans \in Final =>
              Tells(receipt[a.req.cmd], a.req, a.ans)

\* confirm_run is entered with no receipt, and a claim by no such step.
ThreadsGoOn ==
    \A u \in Thread :
        /\ thread'[u].pc \in ConfirmPc =>
              \/ thread[u].pc \in ConfirmPc /\ thread'[u].req = thread[u].req
              \/ receipt[thread'[u].req.cmd].status = "none"
        /\ thread'[u].pc \in Claimed =>
              thread[u].pc \in Claimed /\ thread'[u].req = thread[u].req

\* Both.
Talks == TellsTruth /\ ThreadsGoOn

\* The row and the log, while no command is decided.
RowGoesOn ==
    /\ head'.live = head.live /\ head'.creator = head.creator
    /\ \/ head'.rev = head.rev /\ events' = events
       \/ /\ head.live /\ head'.rev = head.rev + 1
          /\ \E e : e.cmd = NoCommand /\ events' = events \cup {e}

\* A step that decides nothing.
Quietly == UNCHANGED receipt /\ RowGoesOn /\ Talks

\* Receipt r decides its command.
Verdict(r) ==
    \/ r.status = "committed" /\ r.outcome \in {"ok", "failed"}
    \/ r.status = "revision_conflict" /\ r.outcome = "conflict"
\* The decision is a refusal, or a failure without a write.
Refuses(r) == UNCHANGED <<head, events>> /\ r.outcome # "ok"
\* One event, of command c, at the revision its receipt names.
Logged(c, r) ==
    /\ r.status = "committed"
    /\ \E e : /\ events' = events \cup {e}
              /\ e.cmd = c /\ e.rev = r.revision
\* The decision is a write to a research that exists.
Changes(q, r) ==
    /\ head.live /\ head'.live /\ head'.creator = head.creator
    /\ head.rev = q.expected /\ head'.rev = head.rev + 1
    /\ Logged(q.cmd, r)
\* The decision creates the research.
Founds(q, r) ==
    /\ ~head.live /\ head'.live /\ head'.creator = q.cmd
    /\ head'.rev = 0 /\ r.outcome = "ok"
    /\ Logged(q.cmd, r)
\* Thread t decides its command with receipt r: it refuses it and leaves the
\* row, or applies it to the revision its client saw, or creates the research.
Decides(t, r) ==
    LET q == thread[t].req IN
    /\ q \in Request /\ q.cmd \in Command
    /\ receipt[q.cmd].status \notin DecidedStatus
    /\ receipt' = [receipt EXCEPT ![q.cmd] = r]
    /\ r.payload = q /\ Verdict(r)
    /\ answers' = answers \cup {[req |-> q, ans |-> r.outcome]}
    /\ thread' = [thread EXCEPT ![t] = IdleThread]
    /\ q.kind = "confirm" => thread[t].pc \in ConfirmPc
    /\ Refuses(r) \/ Changes(q, r) \/ Founds(q, r)

\* Thread t claims the remote call of its confirmation.
Claims(t) ==
    LET q == thread[t].req IN
    /\ thread[t].pc \in ConfirmPc
    /\ receipt[q.cmd].status = "none"
    /\ \E r : /\ receipt' = [receipt EXCEPT ![q.cmd] = r]
              /\ r.status = "pending" /\ r.payload = q
    /\ thread'[t].req = q
    /\ \A u \in Thread \ {t} : thread'[u] = thread[u]
    /\ UNCHANGED <<head, events, answers>>

\* A store is opened.
Recovers ==
    /\ receipt' = Recovered
    /\ UNCHANGED <<head, events, answers>>
    /\ \/ \A u \in Thread : thread'[u].pc = "idle"
       \/ CliMayRun /\ UNCHANGED thread

\* The research is deleted.
Erases ==
    /\ head.live /\ ~head'.live /\ head'.rev = head.rev
    /\ events' = {} /\ answers' = {}
    /\ receipt' = [c \in Command |-> NoReceipt]
    /\ ThreadsGoOn

\* Every step of the journal is one of five.
JournalStep ==
    \/ Quietly
    \/ \E t \in Thread : \E r : Decides(t, r)
    \/ \E t \in Thread : Claims(t)
    \/ Recovers \/ Erases

\* The invariant of the answers.
AnswerInv ==
    /\ FreshInv
    /\ ReceiptInv
    /\ CreatorInv
    /\ AnsweredInv
    /\ ReceiptMatchesLog

\* A stored receipt tells the client that sent its command what was decided.
LEMMA StoredTells ==
  ASSUME ReceiptInv, NEW c \in Command, NEW q, receipt[c].payload = q
  PROVE  \/ Stored(receipt[c]) \notin Final
         \/ Tells(receipt[c], q, Stored(receipt[c]))
<1>1. /\ receipt[c].status = "committed" => Stored(receipt[c]) = receipt[c].outcome
      /\ receipt[c].status = "revision_conflict" => Stored(receipt[c]) = "conflict"
      /\ receipt[c].status \notin {"committed", "revision_conflict"} =>
            Stored(receipt[c]) \in {"pending", "unknown", "error"}
  BY DEF Stored
<1>2. QED BY <1>1 DEF ReceiptInv, Tells, Final

\* What a busy thread may say and where it may go.
LEMMA MovesTalk ==
  ASSUME TypeInv, NEW t \in Thread
  PROVE  /\ UNCHANGED <<thread, answers>> => Talks
         /\ \A a : /\ Answer(t, a) \/ Done(t, a)
                   /\ \/ a \notin Final \/ Legacy(thread[t].req)
                      \/ Tells(receipt[thread[t].req.cmd], thread[t].req, a)
                   => Talks
         /\ \A new : /\ thread' = [thread EXCEPT ![t] = new]
                     /\ UNCHANGED answers
                     /\ new.pc \in ConfirmPc =>
                           \/ thread[t].pc \in ConfirmPc
                              /\ new.req = thread[t].req
                           \/ receipt[new.req.cmd].status = "none"
                     /\ new.pc \in Claimed =>
                           thread[t].pc \in Claimed /\ new.req = thread[t].req
                     => Talks
         /\ \A pc : /\ Goto(t, pc)
                    /\ pc \in ConfirmPc =>
                           \/ thread[t].pc \in ConfirmPc
                           \/ receipt[thread[t].req.cmd].status = "none"
                    /\ pc \in Claimed => thread[t].pc \in Claimed
                    => Talks
<1>t. ThreadsOK /\ thread[t] \in ThreadState BY DEF TypeInv, ThreadsOK
<1>1. UNCHANGED <<thread, answers>> => Talks
  BY DEF Talks, TellsTruth, ThreadsGoOn
<1>2. ASSUME NEW a, Answer(t, a),
             \/ a \notin Final \/ Legacy(thread[t].req)
             \/ Tells(receipt[thread[t].req.cmd], thread[t].req, a)
      PROVE  Talks
  <2>1. thread' = [thread EXCEPT ![t] = IdleThread] BY <1>2 DEF Answer
  <2>2. thread'[t] = IdleThread
        /\ \A u \in Thread \ {t} : thread'[u] = thread[u]
    BY <1>t, <2>1, OnlyThread
  <2>3. ThreadsGoOn
    BY <2>2, IdleThreadOK DEF ThreadsGoOn, ConfirmPc, Claimed
  <2>4. TellsTruth BY <1>2 DEF Answer, TellsTruth, Legacy
  <2>5. QED BY <2>3, <2>4 DEF Talks
<1>3. ASSUME NEW new, thread' = [thread EXCEPT ![t] = new], UNCHANGED answers,
             new.pc \in ConfirmPc =>
                \/ thread[t].pc \in ConfirmPc /\ new.req = thread[t].req
                \/ receipt[new.req.cmd].status = "none",
             new.pc \in Claimed =>
                thread[t].pc \in Claimed /\ new.req = thread[t].req
      PROVE  Talks
  <2>1. thread'[t] = new /\ \A u \in Thread \ {t} : thread'[u] = thread[u]
    BY <1>t, <1>3, OnlyThread
  <2>2. ThreadsGoOn BY <1>3, <2>1 DEF ThreadsGoOn
  <2>3. QED BY <1>3, <2>2 DEF Talks, TellsTruth
<1>4. ASSUME NEW pc, Goto(t, pc),
             pc \in ConfirmPc => \/ thread[t].pc \in ConfirmPc
                                 \/ receipt[thread[t].req.cmd].status = "none",
             pc \in Claimed => thread[t].pc \in Claimed
      PROVE  Talks
  <2> DEFINE new == [thread[t] EXCEPT !.pc = pc]
  <2>1. new.pc = pc /\ new.req = thread[t].req BY <1>t DEF ThreadState
  <2>2. thread' = [thread EXCEPT ![t] = new] /\ UNCHANGED answers
    BY <1>t, <1>4 DEF Goto, ThreadsOK
  <2> HIDE DEF new
  <2>3. QED BY <1>3, <1>4, <2>1, <2>2
<1>5. \A a : Done(t, a) => Answer(t, a) BY DEF Done
<1>6. QED BY <1>1, <1>2, <1>3, <1>4, <1>5

\* Nothing is decided in a step that leaves the row and says the truth.
LEMMA QuietStep ==
  ASSUME UNCHANGED <<head, events, receipt>>, Talks
  PROVE  JournalStep
  BY DEF JournalStep, Quietly, RowGoesOn

\* Nor in a legacy write.
LEMMA LegacyWriteStep ==
  ASSUME TypeInv, UNCHANGED receipt, Talks, head.live,
         NEW s, NEW b, NEW k, head' = Bumped(s, b),
         events' = events \cup {LegacyRow(k)}
  PROVE  JournalStep
<1>1. /\ head'.live = head.live /\ head'.creator = head.creator
      /\ head'.rev = head.rev + 1
  BY DEF Bumped
<1>2. LegacyRow(k).cmd = NoCommand BY DEF LegacyRow
<1>3. QED BY <1>1, <1>2 DEF JournalStep, Quietly, RowGoesOn

\* The transactions of CommandJournal.commit decide a command or say what
\* was decided before.
LEMMA CommitJournals ==
  ASSUME TypeInv, ReceiptInv, NEW t \in Thread,
         thread[t].req \in Request, thread[t].req.cmd \in Command,
         thread[t].req.kind = "confirm" => thread[t].pc \in ConfirmPc,
         NEW bound \in BOOLEAN, NEW failure \in BOOLEAN, NEW keep \in BOOLEAN
  PROVE  LET q == thread[t].req IN
         /\ CommitReplays(t, q, bound, failure)
               /\ UNCHANGED <<head, events, receipt>> => JournalStep
         /\ CommitConflicts(t, q, bound, failure, keep)
               /\ UNCHANGED <<head, events>> => JournalStep
         /\ \A s : CommitApplies(t, q, bound, s) => JournalStep
         /\ CommitRecordsFailure(t, q, keep) => JournalStep
<1> DEFINE q == thread[t].req
<1>q. /\ q \in Request /\ q.cmd \in Command
      /\ q.kind = "confirm" => thread[t].pc \in ConfirmPc
  OBVIOUS
<1>p. ASSUME NEW b, NEW f, CommitProceeds(q, b, f)
      PROVE  /\ receipt[q.cmd].status \notin DecidedStatus
             /\ receipt[q.cmd].status = "none" \/ receipt[q.cmd].payload = q
  BY <1>p DEF CommitProceeds, DecidedStatus
<1>1. ASSUME CommitReplays(t, q, bound, failure),
             UNCHANGED <<head, events, receipt>>
      PROVE  JournalStep
  <2>1. \E a : /\ Answer(t, a)
               /\ a \notin Final \/ Tells(receipt[q.cmd], q, a)
    <3>1. CASE Answer(t, "payload") BY <3>1 DEF Final
    <3>2. CASE receipt[q.cmd].payload = q /\ Answer(t, Stored(receipt[q.cmd]))
      BY <3>2, StoredTells
    <3>3. QED BY <1>1, <3>1, <3>2 DEF CommitReplays
  <2>2. Talks BY <2>1, MovesTalk
  <2>3. QED BY <1>1, <2>2, QuietStep
<1>2. ASSUME CommitConflicts(t, q, bound, failure, keep),
             UNCHANGED <<head, events>>
      PROVE  JournalStep
  <2> DEFINE r == Conflicted(q, keep)
  <2>1. /\ r.status = "revision_conflict" /\ r.outcome = "conflict"
        /\ r.payload = q
    BY <1>2, <1>p DEF CommitConflicts, Conflicted
  <2>2. /\ receipt' = [receipt EXCEPT ![q.cmd] = r]
        /\ thread' = [thread EXCEPT ![t] = IdleThread]
        /\ answers' = answers \cup {[req |-> q, ans |-> r.outcome]}
        /\ receipt[q.cmd].status \notin DecidedStatus
    BY <1>2, <1>p, <2>1 DEF CommitConflicts, Answer
  <2> HIDE DEF r
  <2>3. Decides(t, r)
    BY <1>q, <1>2, <2>1, <2>2 DEF Decides, Verdict, Refuses
  <2>4. QED BY <2>3 DEF JournalStep
<1>3. ASSUME NEW s, CommitApplies(t, q, bound, s) PROVE JournalStep
  <2> DEFINE r == Committed(q, "ok", receipt[q.cmd].budget, head.rev + 1)
             e == Row(q.kind, q)
  <2>1. /\ r.status = "committed" /\ r.outcome = "ok"
        /\ r.payload = q /\ r.revision = head.rev + 1
    BY <1>3, <1>p DEF CommitApplies, Committed
  <2>2. /\ receipt' = [receipt EXCEPT ![q.cmd] = r]
        /\ thread' = [thread EXCEPT ![t] = IdleThread]
        /\ answers' = answers \cup {[req |-> q, ans |-> r.outcome]}
        /\ receipt[q.cmd].status \notin DecidedStatus
    BY <1>3, <1>p, <2>1 DEF CommitApplies, Applied, Answer
  <2>3. /\ head.live /\ head.rev = q.expected
        /\ head' = Bumped(s, OpensVersion(q.kind))
        /\ events' = events \cup {e}
    BY <1>3 DEF CommitApplies, Applied, Matches
  <2>4. e.cmd = q.cmd /\ e.rev = head.rev + 1 BY DEF Row
  <2>5. /\ head'.live /\ head'.creator = head.creator
        /\ head'.rev = head.rev + 1
    BY <2>3 DEF Bumped
  <2> HIDE DEF r, e
  <2>6. Changes(q, r)
    BY <2>1, <2>3, <2>4, <2>5 DEF Changes, Logged
  <2>7. Decides(t, r)
    BY <1>q, <2>1, <2>2, <2>6 DEF Decides, Verdict
  <2>8. QED BY <2>7 DEF JournalStep
<1>4. ASSUME CommitRecordsFailure(t, q, keep) PROVE JournalStep
  <2> DEFINE r == Committed(q, "failed", IF keep THEN 1 ELSE 0, head.rev + 1)
             e == Row("confirm_failed", q)
  <2>1. /\ r.status = "committed" /\ r.outcome = "failed"
        /\ r.payload = q /\ r.revision = head.rev + 1
    BY <1>4, <1>p DEF CommitRecordsFailure, Committed
  <2>2. /\ receipt' = [receipt EXCEPT ![q.cmd] = r]
        /\ thread' = [thread EXCEPT ![t] = IdleThread]
        /\ answers' = answers \cup {[req |-> q, ans |-> r.outcome]}
        /\ receipt[q.cmd].status \notin DecidedStatus
    BY <1>4, <1>p, <2>1 DEF CommitRecordsFailure, FailureNoted, Answer
  <2>3. /\ head.live /\ head.rev = q.expected
        /\ head' = Bumped(head.status, FALSE)
        /\ events' = events \cup {e}
    BY <1>4 DEF CommitRecordsFailure, FailureNoted, Matches
  <2>4. e.cmd = q.cmd /\ e.rev = head.rev + 1 BY DEF Row
  <2>5. /\ head'.live /\ head'.creator = head.creator
        /\ head'.rev = head.rev + 1
    BY <2>3 DEF Bumped
  <2> HIDE DEF r, e
  <2>6. Changes(q, r)
    BY <2>1, <2>3, <2>4, <2>5 DEF Changes, Logged
  <2>7. Decides(t, r)
    BY <1>q, <2>1, <2>2, <2>6 DEF Decides, Verdict
  <2>8. QED BY <2>7 DEF JournalStep
<1>5. QED BY <1>1, <1>2, <1>3, <1>4

\* Creation, deletion and the writes without a lock are steps of those kinds.
LEMMA GenericJournals ==
  ASSUME HandlerInv, AnswerInv, NEW t \in Thread,
         Create(t) \/ Delete(t) \/ GenericStep(t)
  PROVE  JournalStep
<1> DEFINE q == thread[t].req
<1>t. /\ TypeInv /\ ThreadsOK /\ receipt \in [Command -> Receipt]
      /\ thread[t] \in ThreadState /\ head \in Head /\ ReceiptInv
      /\ thread[t].pc # "idle" => q \in Request
  BY DEF HandlerInv, TypeInv, TablesOK, ThreadsOK, AnswerInv
<1>f. /\ {"payload", "error", "view", "pending", "unknown"} \cap Final = {}
      /\ {"dispatch", "boost", "open", "write"}
            \cap (ConfirmPc \cup Claimed) = {}
  BY DEF Final, ConfirmPc, Claimed
<1>1. CASE Create(t)
  <2>1. /\ q \in Request /\ q.cmd \in Command /\ q.kind # "confirm"
        /\ q.cmd # NoCommand
    BY <1>1, <1>t, RequestOK, RequestAssumption DEF Create
  <2>2. CASE /\ Answer(t, IF receipt[q.cmd].payload # q THEN "payload"
                          ELSE Stored(receipt[q.cmd]))
             /\ UNCHANGED <<head, events, receipt>>
    <3>1. \E a : /\ Answer(t, a)
                 /\ a \notin Final \/ Tells(receipt[q.cmd], q, a)
      BY <1>t, <1>f, <2>1, <2>2, StoredTells
    <3>2. Talks BY <1>t, <3>1, MovesTalk
    <3>3. QED BY <2>2, <3>2, QuietStep
  <2>3. CASE /\ receipt[q.cmd].status = "none" /\ head.live
             /\ UNCHANGED <<head, events>>
             /\ IF head.creator = q.cmd
                THEN /\ receipt' = [receipt EXCEPT
                                      ![q.cmd] = CreateReceipt(q, head.rev)]
                     /\ Answer(t, "ok")
                ELSE Answer(t, "error") /\ UNCHANGED receipt
    <3>1. head.creator # q.cmd
      BY <2>1, <2>3 DEF AnswerInv, CreatorInv
    <3>2. Answer(t, "error") /\ UNCHANGED receipt BY <2>3, <3>1
    <3>3. Talks BY <1>t, <1>f, <3>2, MovesTalk
    <3>4. QED BY <2>3, <3>2, <3>3, QuietStep
  <2>4. CASE /\ receipt[q.cmd].status = "none" /\ ~head.live
             /\ head' = [live |-> TRUE, rev |-> 0, seq |-> 1,
                         stamp |-> head.stamp + 1, status |-> "draft",
                         versions |-> 0, creator |-> q.cmd]
             /\ events' = events \cup {[seq |-> 1, kind |-> "create",
                                        cmd |-> q.cmd, expected |-> 0,
                                        rev |-> 0]}
             /\ receipt' = [receipt EXCEPT ![q.cmd] = CreateReceipt(q, 0)]
             /\ Answer(t, "ok")
    <3> DEFINE r == CreateReceipt(q, 0)
               e == [seq |-> 1, kind |-> "create", cmd |-> q.cmd,
                     expected |-> 0, rev |-> 0]
    <3>1. /\ r.status = "committed" /\ r.outcome = "ok" /\ r.payload = q
          /\ r.revision = 0
      BY DEF CreateReceipt
    <3>2. e.cmd = q.cmd /\ e.rev = 0 /\ events' = events \cup {e}
      BY <2>4
    <3>3. head'.live /\ head'.creator = q.cmd /\ head'.rev = 0 BY <2>4
    <3>4. /\ thread' = [thread EXCEPT ![t] = IdleThread]
          /\ answers' = answers \cup {[req |-> q, ans |-> "ok"]}
          /\ receipt' = [receipt EXCEPT ![q.cmd] = r]
      BY <2>4 DEF Answer
    <3> HIDE DEF r, e
    <3>5. Founds(q, r) BY <2>4, <3>1, <3>2, <3>3 DEF Founds, Logged
    <3>6. Decides(t, r)
      BY <2>1, <2>4, <3>1, <3>4, <3>5 DEF Decides, Verdict, DecidedStatus
    <3>7. QED BY <3>6 DEF JournalStep
  <2>5. QED BY <1>1, <2>2, <2>3, <2>4 DEF Create
<1>2. CASE Delete(t)
  <2>1. thread'[t] = IdleThread
        /\ \A u \in Thread \ {t} : thread'[u] = thread[u]
    BY <1>2, <1>t, OnlyThread DEF Delete
  <2>2. ThreadsGoOn
    BY <2>1, IdleThreadOK DEF ThreadsGoOn, ConfirmPc, Claimed
  <2>3. CASE head.live
    <3>1. /\ head' = [head EXCEPT !.live = FALSE] /\ events' = {}
          /\ receipt' = [c \in Command |-> NoReceipt] /\ answers' = {}
      BY <1>2, <2>3 DEF Delete
    <3>2. ~head'.live /\ head'.rev = head.rev BY <1>t, <3>1 DEF Head
    <3>3. QED BY <2>2, <2>3, <3>1, <3>2 DEF JournalStep, Erases
  <2>4. CASE ~head.live
    <3>1. UNCHANGED <<head, events, receipt, answers>>
      BY <1>2, <2>4 DEF Delete
    <3>2. Talks BY <2>2, <3>1 DEF Talks, TellsTruth
    <3>3. QED BY <3>1, <3>2, QuietStep
  <2>5. QED BY <2>3, <2>4
<1>3. CASE Load(t)
  <2>1. UNCHANGED <<head, events, receipt>> BY <1>3 DEF Load
  <2>2. CASE Answer(t, "error")
    BY <1>t, <1>f, <2>1, <2>2, MovesTalk, QuietStep
  <2>3. CASE thread' = [thread EXCEPT ![t] =
                  [@ EXCEPT !.pc = NextPc(q.kind), !.stamp = head.stamp,
                            !.status = head.status]]
             /\ UNCHANGED answers
    <3> DEFINE new == [thread[t] EXCEPT !.pc = NextPc(q.kind),
                         !.stamp = head.stamp, !.status = head.status]
    <3>1. new.pc \in {"boost", "open", "write"}
      BY <1>t DEF ThreadState, NextPc
    <3>2. thread' = [thread EXCEPT ![t] = new] BY <1>t, <2>3 DEF ThreadsOK
    <3> HIDE DEF new
    <3>3. Talks BY <1>t, <1>f, <2>3, <3>1, <3>2, MovesTalk
    <3>4. QED BY <2>1, <3>3, QuietStep
  <2>4. QED BY <1>3, <2>2, <2>3 DEF Load
<1>4. CASE Boost(t)
  <2>1. UNCHANGED <<events, receipt>> BY <1>4 DEF Boost
  <2>2. CASE Answer(t, "error") /\ UNCHANGED head
    BY <1>t, <1>f, <2>1, <2>2, MovesTalk, QuietStep
  <2>3. CASE /\ head' = [head EXCEPT !.stamp = head.stamp + 1]
             /\ thread' = [thread EXCEPT ![t] =
                  [@ EXCEPT !.pc = "write", !.stamp = head.stamp + 1]]
             /\ UNCHANGED answers
    <3> DEFINE new == [thread[t] EXCEPT !.pc = "write",
                                        !.stamp = head.stamp + 1]
    <3>1. new.pc = "write" BY <1>t DEF ThreadState
    <3>2. thread' = [thread EXCEPT ![t] = new] BY <1>t, <2>3 DEF ThreadsOK
    <3> HIDE DEF new
    <3>3. Talks BY <1>t, <1>f, <2>3, <3>1, <3>2, MovesTalk
    <3>4. RowGoesOn BY <1>t, <2>1, <2>3 DEF RowGoesOn, Head
    <3>5. QED BY <2>1, <3>3, <3>4 DEF JournalStep, Quietly
  <2>4. QED BY <1>4, <2>2, <2>3 DEF Boost
<1>5. CASE Open(t)
  <2>1. UNCHANGED <<head, events, receipt>> BY <1>5 DEF Open
  <2>2. Answer(t, "error") \/ Goto(t, "write") BY <1>5 DEF Open
  <2>3. Talks BY <1>t, <1>f, <2>2, MovesTalk
  <2>4. QED BY <2>1, <2>3, QuietStep
<1>6. CASE Write(t)
  <2>1. /\ q \in Request /\ q.cmd \in Command /\ q.kind # "confirm"
    BY <1>6, <1>t, RequestOK DEF Write, HandlerInv, ServeInv, Generic
  <2>2. \/ CommitReplays(t, q, FALSE, FALSE)
              /\ UNCHANGED <<head, events, receipt>>
        \/ CommitConflicts(t, q, FALSE, FALSE, FALSE)
              /\ UNCHANGED <<head, events>>
        \/ \E s : CommitApplies(t, q, FALSE, s)
        \/ Answer(t, "error") /\ UNCHANGED <<head, events, receipt>>
    BY <1>6 DEF Write
  <2>3. CASE Answer(t, "error") /\ UNCHANGED <<head, events, receipt>>
    BY <1>t, <1>f, <2>3, MovesTalk, QuietStep
  <2>4. QED BY <1>t, <2>1, <2>2, <2>3, CommitJournals
<1>7. CASE LegacyWrite(t)
  <2>1. PICK s : SaveWithEvent(t, q.kind, s, OpensVersion(q.kind))
    BY <1>7 DEF LegacyWrite
  <2>2. Legacy(q) /\ UNCHANGED receipt BY <1>7 DEF LegacyWrite
  <2>3. Talks BY <1>t, <2>1, <2>2, MovesTalk DEF SaveWithEvent
  <2>4. CASE head.live /\ head.stamp = thread[t].stamp
    <3>1. /\ head' = Bumped(s, OpensVersion(q.kind))
          /\ events' = events \cup {LegacyRow(q.kind)}
      BY <2>1, <2>4 DEF SaveWithEvent
    <3>2. QED BY <1>t, <2>2, <2>3, <2>4, <3>1, LegacyWriteStep
  <2>5. CASE ~(head.live /\ head.stamp = thread[t].stamp)
    BY <2>1, <2>2, <2>3, <2>5, QuietStep DEF SaveWithEvent
  <2>6. QED BY <2>4, <2>5
<1>8. QED BY <1>1, <1>2, <1>3, <1>4, <1>5, <1>6, <1>7 DEF GenericStep

\* So are the steps of a journaled confirmation.
LEMMA ConfirmJournals ==
  ASSUME HandlerInv, AnswerInv, NEW t \in Thread, ConfirmStep(t)
  PROVE  JournalStep
<1> DEFINE q == thread[t].req
           c == q.cmd
<1>t. /\ TypeInv /\ ThreadsOK /\ receipt \in [Command -> Receipt]
      /\ thread[t] \in ThreadState /\ head \in Head /\ ReceiptInv
  BY DEF HandlerInv, TypeInv, TablesOK, ThreadsOK, AnswerInv
<1>c. thread[t].pc \in ConfirmPc =>
         /\ q \in Request /\ c \in Command /\ q.kind = "confirm"
         /\ ClaimOK(thread[t], receipt[c])
         /\ receipt[c].status = "none" \/ receipt[c].payload = q
  BY DEF HandlerInv, TypeInv, ThreadsOK, ServeInv, ClaimInv, ConfirmPc,
         AnswerInv, FreshInv
<1>f. {"payload", "error", "view", "pending", "unknown"} \cap Final = {}
  BY DEF Final
<1>s. \A d \in Command : receipt[d].payload = q =>
         \/ Stored(receipt[d]) \notin Final
         \/ Tells(receipt[d], q, Stored(receipt[d]))
  BY <1>t, StoredTells
<1>1. CASE ConfirmLock(t)
  <2>1. UNCHANGED <<head, events, receipt>> /\ c \in Command
    BY <1>1, <1>t, RequestOK DEF ConfirmLock, ThreadsOK
  <2>2. \/ Goto(t, "c_load") /\ receipt[c].status = "none"
        \/ Answer(t, "payload")
        \/ receipt[c].payload = q /\ Answer(t, Stored(receipt[c]))
    BY <1>1 DEF ConfirmLock
  <2>3. "c_load" \notin Claimed BY DEF Claimed
  <2>4. Talks BY <1>t, <1>f, <1>s, <2>1, <2>2, <2>3, MovesTalk
  <2>5. QED BY <2>1, <2>4, QuietStep
<1>2. CASE ConfirmLoad(t)
  <2>1. UNCHANGED <<head, events, receipt>> /\ thread[t].pc \in ConfirmPc
    BY <1>2 DEF ConfirmLoad, ConfirmPc
  <2>2. CASE Done(t, "error")
    BY <1>t, <1>f, <2>1, <2>2, MovesTalk, QuietStep
  <2>3. CASE /\ UNCHANGED answers
             /\ thread' = [thread EXCEPT ![t] =
                  [@ EXCEPT !.pc = "c_check", !.stamp = head.stamp,
                            !.status = head.status]]
    <3> DEFINE new == [thread[t] EXCEPT !.pc = "c_check",
                         !.stamp = head.stamp, !.status = head.status]
    <3>1. new.pc = "c_check" /\ new.req = q BY <1>t DEF ThreadState
    <3>2. thread' = [thread EXCEPT ![t] = new] BY <1>t, <2>3 DEF ThreadsOK
    <3> HIDE DEF new
    <3>3. "c_check" \notin Claimed BY DEF Claimed
    <3>4. Talks BY <1>t, <2>1, <2>3, <3>1, <3>2, <3>3, MovesTalk
    <3>5. QED BY <2>1, <3>4, QuietStep
  <2>4. QED BY <1>2, <2>2, <2>3 DEF ConfirmLoad
<1>3. CASE ConfirmCheck(t)
  <2>1. UNCHANGED <<head, events, receipt>> /\ thread[t].pc \in ConfirmPc
    BY <1>3 DEF ConfirmCheck, ConfirmPc
  <2>2. \/ \E a \in {"error", "view"} : Done(t, a)
        \/ \E pc \in {"c_conflict", "c_bind"} : Goto(t, pc)
    BY <1>3 DEF ConfirmCheck
  <2>3. {"c_conflict", "c_bind"} \cap Claimed = {} BY DEF Claimed
  <2>4. Talks BY <1>t, <1>f, <2>1, <2>2, <2>3, MovesTalk
  <2>5. QED BY <2>1, <2>4, QuietStep
<1>4. CASE ConfirmConflict(t)
  <2>1. UNCHANGED <<head, events>> /\ thread[t].pc \in ConfirmPc
        /\ thread[t].pc \in PreClaim
    BY <1>4 DEF ConfirmConflict, ConfirmPc, PreClaim
  <2>2. receipt[c].status = "none" BY <1>c, <2>1 DEF ClaimOK
  <2>3. CASE Done(t, "error") /\ UNCHANGED receipt
    BY <1>t, <1>f, <2>1, <2>3, MovesTalk, QuietStep
  <2>4. CASE Done(t, "conflict")
             /\ receipt' = [receipt EXCEPT ![c] = Conflicted(q, FALSE)]
    <3> DEFINE r == Conflicted(q, FALSE)
    <3>1. /\ r.status = "revision_conflict" /\ r.outcome = "conflict"
          /\ r.payload = q
      BY <2>2 DEF Conflicted
    <3>2. /\ receipt' = [receipt EXCEPT ![c] = r]
          /\ thread' = [thread EXCEPT ![t] = IdleThread]
          /\ answers' = answers \cup {[req |-> q, ans |-> r.outcome]}
      BY <2>4, <3>1 DEF Done, Answer
    <3> HIDE DEF r
    <3>3. Decides(t, r)
      BY <1>c, <2>1, <2>2, <3>1, <3>2
      DEF Decides, Verdict, Refuses, DecidedStatus
    <3>4. QED BY <3>3 DEF JournalStep
  <2>5. QED BY <1>4, <2>2, <2>3, <2>4 DEF ConfirmConflict
<1>5. CASE ConfirmBind(t)
  <2>1. UNCHANGED <<head, events, receipt>> /\ thread[t].pc \in ConfirmPc
    BY <1>5 DEF ConfirmBind, ConfirmPc
  <2>2. CASE Done(t, "error")
    BY <1>t, <1>f, <2>1, <2>2, MovesTalk, QuietStep
  <2>3. CASE /\ UNCHANGED answers
             /\ thread' = [thread EXCEPT ![t] =
                  [@ EXCEPT !.pc = "c_claim", !.bound = head.stamp,
                            !.boundVersions = head.versions]]
    <3> DEFINE new == [thread[t] EXCEPT !.pc = "c_claim",
                         !.bound = head.stamp, !.boundVersions = head.versions]
    <3>1. new.pc = "c_claim" /\ new.req = q BY <1>t DEF ThreadState
    <3>2. thread' = [thread EXCEPT ![t] = new] BY <1>t, <2>3 DEF ThreadsOK
    <3> HIDE DEF new
    <3>3. "c_claim" \notin Claimed BY DEF Claimed
    <3>4. Talks BY <1>t, <2>1, <2>3, <3>1, <3>2, <3>3, MovesTalk
    <3>5. QED BY <2>1, <3>4, QuietStep
  <2>4. QED BY <1>5, <2>2, <2>3 DEF ConfirmBind
<1>6. CASE ConfirmClaim(t)
  <2>1. UNCHANGED <<head, events>> /\ thread[t].pc \in ConfirmPc
    BY <1>6 DEF ConfirmClaim, ConfirmPc
  <2>2. CASE /\ receipt[c].status = "none" /\ Goto(t, "c_probe")
             /\ receipt' = [receipt EXCEPT ![c] =
                             [status |-> "pending", payload |-> q,
                              outcome |-> "none", budget |-> 1,
                              revision |-> q.expected]]
    <3> DEFINE new == [thread[t] EXCEPT !.pc = "c_probe"]
    <3>1. new.req = q BY <1>t DEF ThreadState
    <3>2. thread' = [thread EXCEPT ![t] = new] /\ UNCHANGED answers
      BY <1>t, <2>2 DEF ThreadsOK, Goto
    <3> HIDE DEF new
    <3>3. thread'[t].req = q
          /\ \A u \in Thread \ {t} : thread'[u] = thread[u]
      BY <1>t, <3>1, <3>2, OnlyThread
    <3>4. \E r : /\ receipt' = [receipt EXCEPT ![c] = r]
                 /\ r.status = "pending" /\ r.payload = q
      <4> DEFINE r == [status |-> "pending", payload |-> q,
                       outcome |-> "none", budget |-> 1,
                       revision |-> q.expected]
      <4>1. r.status = "pending" /\ r.payload = q OBVIOUS
      <4>2. receipt' = [receipt EXCEPT ![c] = r] BY <2>2
      <4> HIDE DEF r
      <4>3. QED BY <4>1, <4>2
    <3>5. Claims(t) BY <2>1, <2>2, <3>2, <3>3, <3>4 DEF Claims
    <3>6. QED BY <3>5 DEF JournalStep
  <2>3. CASE UNCHANGED receipt
             /\ Done(t, IF receipt[c].payload # q THEN "payload"
                        ELSE Stored(receipt[c]))
    <3>1. Talks BY <1>t, <1>c, <1>f, <1>s, <2>1, <2>3, MovesTalk
    <3>2. QED BY <2>1, <2>3, <3>1, QuietStep
  <2>4. QED BY <1>6, <2>2, <2>3 DEF ConfirmClaim
<1>7. CASE ConfirmProbe(t) \/ ConfirmProbed(t) \/ ConfirmOpen(t)
  <2>1. /\ UNCHANGED <<head, events, receipt>>
        /\ thread[t].pc \in ConfirmPc /\ thread[t].pc \in Claimed
    BY <1>7 DEF ConfirmProbe, ConfirmProbed, ConfirmOpen, ConfirmPc, Claimed,
       table
  <2>2. Done(t, "error") \/ \E pc : Goto(t, pc)
    BY <1>7 DEF ConfirmProbe, ConfirmProbed, ConfirmOpen
  <2>3. Talks BY <1>t, <1>f, <2>1, <2>2, MovesTalk
  <2>4. QED BY <2>1, <2>3, QuietStep
<1>8. CASE ConfirmCommit(t)
  <2>1. thread[t].pc \in ConfirmPc BY <1>8 DEF ConfirmCommit, ConfirmPc
  <2>2. \/ CommitReplays(t, q, TRUE, FALSE)
              /\ UNCHANGED <<head, events, receipt>>
        \/ CommitConflicts(t, q, TRUE, FALSE, TRUE)
              /\ UNCHANGED <<head, events>>
        \/ CommitApplies(t, q, TRUE, "running")
        \/ Answer(t, "error") /\ UNCHANGED <<head, events, receipt>>
    BY <1>8 DEF ConfirmCommit
  <2>3. CASE Answer(t, "error") /\ UNCHANGED <<head, events, receipt>>
    BY <1>t, <1>f, <2>3, MovesTalk, QuietStep
  <2>4. QED BY <1>t, <1>c, <2>1, <2>2, <2>3, CommitJournals
<1>9. ASSUME NEW keep \in BOOLEAN, ConfirmFail(t, keep) PROVE JournalStep
  <2>1. thread[t].pc \in ConfirmPc BY <1>9 DEF ConfirmFail, ConfirmPc
  <2>2. \/ CommitReplays(t, q, TRUE, TRUE)
              /\ UNCHANGED <<head, events, receipt>>
        \/ CommitConflicts(t, q, TRUE, TRUE, keep)
              /\ UNCHANGED <<head, events>>
        \/ CommitRecordsFailure(t, q, keep)
        \/ Answer(t, "error") /\ UNCHANGED <<head, events, receipt>>
    BY <1>9 DEF ConfirmFail
  <2>3. CASE Answer(t, "error") /\ UNCHANGED <<head, events, receipt>>
    BY <1>t, <1>f, <2>3, MovesTalk, QuietStep
  <2>4. QED BY <1>t, <1>c, <2>1, <2>2, <2>3, CommitJournals
<1>10. CASE ConfirmFailNote(t)
  <2>1. /\ UNCHANGED <<head, events>> /\ thread[t].pc \in ConfirmPc
        /\ thread[t].pc \in Claimed
    BY <1>10 DEF ConfirmFailNote, ConfirmPc, Claimed
  <2>2. CASE Answer(t, "error") /\ UNCHANGED receipt
    BY <1>t, <1>f, <2>1, <2>2, MovesTalk, QuietStep
  <2>3. CASE /\ Answer(t, "failed")
             /\ receipt' = [receipt EXCEPT ![c] =
                              Committed(q, "failed", 0, head.rev)]
    <3> DEFINE r == Committed(q, "failed", 0, head.rev)
    <3>1. /\ receipt[c].status \notin DecidedStatus
          /\ receipt[c].status = "none" \/ receipt[c].payload = q
      BY <1>c, <2>1 DEF ClaimOK, DecidedStatus
    <3>2. /\ r.status = "committed" /\ r.outcome = "failed" /\ r.payload = q
      BY <3>1 DEF Committed
    <3>3. /\ receipt' = [receipt EXCEPT ![c] = r]
          /\ thread' = [thread EXCEPT ![t] = IdleThread]
          /\ answers' = answers \cup {[req |-> q, ans |-> r.outcome]}
      BY <2>3, <3>2 DEF Answer
    <3> HIDE DEF r
    <3>4. Decides(t, r)
      BY <1>c, <2>1, <3>1, <3>2, <3>3 DEF Decides, Verdict, Refuses
    <3>5. QED BY <3>4 DEF JournalStep
  <2>4. QED BY <1>10, <2>2, <2>3 DEF ConfirmFailNote
<1>11. QED
  BY <1>1, <1>2, <1>3, <1>4, <1>5, <1>6, <1>7, <1>8, <1>9, <1>10
  DEF ConfirmStep

\* So are those of a legacy confirmation, which names no command.
LEMMA LegacyJournals ==
  ASSUME HandlerInv, AnswerInv, NEW t \in Thread, LegacyStep(t)
  PROVE  JournalStep
<1> DEFINE q == thread[t].req
<1>t. /\ TypeInv /\ ThreadsOK /\ thread[t] \in ThreadState /\ head \in Head
  BY DEF HandlerInv, TypeInv, TablesOK, ThreadsOK
<1>l. Legacy(q)
  BY DEF LegacyStep, LegacyLock, LegacyLoad, LegacyProbe, LegacyProbed,
         LegacyFail, LegacySave, LegacyReload, LegacyOpen, HandlerInv,
         ServeInv, LegacyPc
<1>a. \A a : Answer(t, a) \/ Done(t, a) => Talks BY <1>t, <1>l, MovesTalk
<1>g. \A pc \in LegacyPc : Goto(t, pc) => Talks
  <2>1. \A pc \in LegacyPc : pc \notin ConfirmPc /\ pc \notin Claimed
    BY DEF LegacyPc, ConfirmPc, Claimed
  <2>2. QED BY <1>t, <2>1, MovesTalk
<1>n. ASSUME NEW pc \in LegacyPc, UNCHANGED answers,
             thread' = [thread EXCEPT ![t] =
                [@ EXCEPT !.pc = pc, !.stamp = head.stamp,
                          !.status = head.status]]
      PROVE  Talks
  <2> DEFINE new == [thread[t] EXCEPT !.pc = pc, !.stamp = head.stamp,
                                      !.status = head.status]
  <2>1. new.pc = pc BY <1>t DEF ThreadState
  <2>2. thread' = [thread EXCEPT ![t] = new] BY <1>t, <1>n DEF ThreadsOK
  <2> HIDE DEF new
  <2>3. pc \notin ConfirmPc /\ pc \notin Claimed
    BY DEF LegacyPc, ConfirmPc, Claimed
  <2>4. QED BY <1>t, <1>n, <2>1, <2>2, <2>3, MovesTalk
<1>r. UNCHANGED receipt
  BY DEF LegacyStep, LegacyLock, LegacyLoad, LegacyProbe, LegacyProbed,
         LegacyFail, LegacySave, LegacyReload, LegacyOpen, table
<1>1. CASE LegacyLock(t) \/ LegacyProbe(t) \/ LegacyProbed(t)
  <2>1. UNCHANGED <<head, events>>
    BY <1>1 DEF LegacyLock, LegacyProbe, LegacyProbed, table
  <2>2. (\E a : Done(t, a)) \/ (\E pc \in LegacyPc : Goto(t, pc))
    BY <1>1 DEF LegacyLock, LegacyProbe, LegacyProbed, LegacyPc
  <2>3. QED BY <1>a, <1>g, <1>r, <2>1, <2>2, QuietStep
<1>2. CASE LegacyLoad(t)
  <2>1. UNCHANGED <<head, events>> BY <1>2 DEF LegacyLoad, table
  <2>2. CASE \E a : Done(t, a) BY <1>a, <1>r, <2>1, <2>2, QuietStep
  <2>3. CASE /\ UNCHANGED answers
             /\ thread' = [thread EXCEPT ![t] =
                  [@ EXCEPT !.pc = "l_probe", !.stamp = head.stamp,
                            !.status = head.status]]
    <3>1. "l_probe" \in LegacyPc BY DEF LegacyPc
    <3>2. Talks BY <1>n, <2>3, <3>1
    <3>3. QED BY <1>r, <2>1, <3>2, QuietStep
  <2>4. QED BY <1>2, <2>2, <2>3 DEF LegacyLoad
<1>3. CASE LegacyReload(t)
  <2>1. UNCHANGED <<head, events>> BY <1>3 DEF LegacyReload, table
  <2>2. CASE \E a : Done(t, a) BY <1>a, <1>r, <2>1, <2>2, QuietStep
  <2>3. CASE /\ UNCHANGED answers
             /\ thread' = [thread EXCEPT ![t] =
                  [@ EXCEPT !.pc = "l_write", !.stamp = head.stamp,
                            !.status = head.status]]
    <3>1. "l_write" \in LegacyPc BY DEF LegacyPc
    <3>2. Talks BY <1>n, <2>3, <3>1
    <3>3. QED BY <1>r, <2>1, <3>2, QuietStep
  <2>4. QED BY <1>3, <2>2, <2>3 DEF LegacyReload
<1>4. CASE LegacyFail(t)
  <2>1. Talks BY <1>4, <1>a DEF LegacyFail
  <2>2. \/ UNCHANGED <<head, events>>
        \/ /\ head.live /\ head' = Bumped(head.status, FALSE)
           /\ events' = events \cup {LegacyRow("confirm_failed")}
    BY <1>4 DEF LegacyFail
  <2>3. QED BY <1>t, <1>r, <2>1, <2>2, QuietStep, LegacyWriteStep
<1>5. CASE LegacySave(t)
  <2>1. Talks
    <3>1. "l_reload" \in LegacyPc BY DEF LegacyPc
    <3>2. QED BY <1>5, <1>a, <1>g, <3>1 DEF LegacySave
  <2>2. UNCHANGED events
        /\ (UNCHANGED head \/ head' = [head EXCEPT !.stamp = @ + 1])
    BY <1>5 DEF LegacySave
  <2>3. RowGoesOn BY <1>t, <2>2 DEF RowGoesOn, Head
  <2>4. QED BY <1>r, <2>1, <2>3 DEF JournalStep, Quietly
<1>6. CASE LegacyOpen(t)
  <2>1. SaveWithEvent(t, "confirm", "running", TRUE) BY <1>6 DEF LegacyOpen
  <2>2. Talks BY <1>a, <2>1 DEF SaveWithEvent
  <2>3. \/ UNCHANGED <<head, events>>
        \/ /\ head.live /\ head' = Bumped("running", TRUE)
           /\ events' = events \cup {LegacyRow("confirm")}
    BY <2>1 DEF SaveWithEvent
  <2>4. QED BY <1>t, <1>r, <2>2, <2>3, QuietStep, LegacyWriteStep
<1>7. QED BY <1>1, <1>2, <1>3, <1>4, <1>5, <1>6 DEF LegacyStep

\* So is everything else.
LEMMA OutsideJournals ==
  ASSUME HandlerInv, AnswerInv,
         \/ \E t \in Thread : \E q \in Request : Prepare(t, q)
         \/ LoopCommit \/ LoopSave \/ Restart \/ CliStatus
         \/ UNCHANGED vars
  PROVE  JournalStep
<1>t. /\ TypeInv /\ ThreadsOK /\ head \in Head /\ ReceiptInv
  BY DEF HandlerInv, TypeInv, TablesOK, AnswerInv
<1>1. ASSUME NEW t \in Thread, NEW q \in Request, Prepare(t, q)
      PROVE  JournalStep
  <2>1. UNCHANGED <<head, events, receipt>> BY <1>1 DEF Prepare
  <2>2. CASE Serve(t, q, "dispatch") /\ UNCHANGED answers
    <3> DEFINE new == [IdleThread EXCEPT !.pc = "dispatch", !.req = q]
    <3>1. new.pc = "dispatch" BY DEF IdleThread
    <3>2. thread' = [thread EXCEPT ![t] = new] BY <2>2 DEF Serve
    <3> HIDE DEF new
    <3>3. "dispatch" \notin ConfirmPc /\ "dispatch" \notin Claimed
      BY DEF ConfirmPc, Claimed
    <3>4. Talks BY <1>t, <2>2, <3>1, <3>2, <3>3, MovesTalk
    <3>5. QED BY <2>1, <3>4, QuietStep
  <2>3. ASSUME NEW a, AnswerNow(q, a),
               \/ a \notin Final
               \/ q.cmd # NoCommand => Tells(receipt[q.cmd], q, a)
        PROVE  JournalStep
    <3>1. TellsTruth BY <2>3 DEF AnswerNow, TellsTruth
    <3>2. ThreadsGoOn BY <2>3 DEF AnswerNow, ThreadsGoOn
    <3>3. QED BY <2>1, <3>1, <3>2, QuietStep DEF Talks
  <2>4. "unknown" \notin Final /\ "payload" \notin Final BY DEF Final
  <2>5. CASE PrepareLegacy(t, q) BY <2>5, <2>2 DEF PrepareLegacy
  <2>6. CASE PrepareFresh(t, q) BY <2>6, <2>2, <2>3, <2>4 DEF PrepareFresh
  <2>7. CASE PrepareKnown(t, q)
    <3>1. q.cmd \in Command BY <2>7, RequestOK DEF PrepareKnown
    <3>2. receipt[q.cmd].payload = q =>
             \/ Stored(receipt[q.cmd]) \notin Final
             \/ Tells(receipt[q.cmd], q, Stored(receipt[q.cmd]))
      BY <1>t, <3>1, StoredTells
    <3>3. QED BY <2>3, <2>4, <2>7, <3>2 DEF PrepareKnown
  <2>8. QED BY <1>1, <2>5, <2>6, <2>7 DEF Prepare
<1>2. CASE LoopCommit
  <2>1. /\ head.live /\ \E s : head' = Bumped(s, FALSE)
        /\ events' = events \cup {LegacyRow("round")}
        /\ UNCHANGED <<receipt, thread, answers>>
    BY <1>2 DEF LoopCommit
  <2>2. Talks BY <2>1 DEF Talks, TellsTruth, ThreadsGoOn
  <2>3. QED BY <1>t, <2>1, <2>2, LegacyWriteStep
<1>3. CASE LoopSave
  <2>1. /\ \E s : head' = [head EXCEPT !.stamp = @ + 1, !.status = s]
        /\ UNCHANGED <<events, receipt, thread, answers>>
    BY <1>3 DEF LoopSave
  <2>2. Talks BY <2>1 DEF Talks, TellsTruth, ThreadsGoOn
  <2>3. RowGoesOn BY <1>t, <2>1 DEF RowGoesOn, Head
  <2>4. QED BY <2>1, <2>2, <2>3 DEF JournalStep, Quietly
<1>4. CASE Restart
  <2>1. \A t \in Thread : thread'[t].pc = "idle"
    BY <1>4, IdleThreadOK DEF Restart
  <2>2. QED BY <1>4, <2>1 DEF Restart, JournalStep, Recovers
<1>5. CASE CliStatus BY <1>5 DEF CliStatus, JournalStep, Recovers
<1>6. CASE UNCHANGED vars
  <2>1. UNCHANGED <<head, events, receipt, thread, answers>>
    BY <1>6 DEF vars
  <2>2. Talks BY <2>1 DEF Talks, TellsTruth, ThreadsGoOn
  <2>3. QED BY <2>1, <2>2, QuietStep
<1>7. QED BY <1>1, <1>2, <1>3, <1>4, <1>5, <1>6

\* Every step of the journal is of one of the five kinds.
LEMMA StepsJournal ==
  ASSUME HandlerInv, AnswerInv, [Next]_vars
  PROVE  JournalStep
<1>1. CASE \E t \in Thread : ThreadStep(t)
  BY <1>1, GenericJournals, ConfirmJournals, LegacyJournals DEF ThreadStep
<1>2. QED BY <1>1, OutsideJournals DEF Next

\* A confirmation's id is used for nothing else, so the receipt that
\* confirm_run sees is none or its own.
LEMMA FreshKept ==
  ASSUME FreshIds, HandlerInv, HandlerInv', FreshInv, JournalStep
  PROVE  FreshInv'
<1>t. /\ ThreadsOK /\ ThreadsOK' /\ receipt \in [Command -> Receipt]
      /\ receipt' \in [Command -> Receipt]
  BY DEF HandlerInv, TypeInv, TablesOK
<1> SUFFICES ASSUME NEW u \in Thread, thread'[u].pc \in ConfirmPc
             PROVE  \/ receipt'[thread'[u].req.cmd].status = "none"
                    \/ receipt'[thread'[u].req.cmd].payload = thread'[u].req
  BY DEF FreshInv
<1> DEFINE q == thread'[u].req
           c == q.cmd
<1>c. c \in Command /\ q \in Request /\ q.kind = "confirm" /\ c # NoCommand
      /\ lock' = u
  BY RequestAssumption
  DEF HandlerInv, TypeInv, ThreadsOK, ServeInv, LockInv, ConfirmPc
<1>o. ASSUME thread[u].pc \in ConfirmPc, thread[u].req = q
      PROVE  /\ receipt[c].status = "none" \/ receipt[c].payload = q
             /\ lock = u
  BY <1>o DEF FreshInv, HandlerInv, LockInv
<1>1. CASE Quietly \/ Erases
  <2>1. CASE Erases
    BY <2>1, <1>c DEF Erases, NoReceipt
  <2>2. CASE Quietly
    <3>1. \/ thread[u].pc \in ConfirmPc /\ thread[u].req = q
          \/ receipt[c].status = "none"
      BY <2>2 DEF Quietly, Talks, ThreadsGoOn
    <3>2. QED BY <2>2, <3>1, <1>o DEF Quietly
  <2>3. QED BY <1>1, <2>1, <2>2
<1>2. ASSUME NEW t \in Thread, NEW r, Decides(t, r)
      PROVE  \/ receipt'[c].status = "none" \/ receipt'[c].payload = q
  <2>1. thread'[t] = IdleThread
        /\ \A v \in Thread \ {t} : thread'[v] = thread[v]
    BY <1>2, <1>t, OnlyThread DEF Decides
  <2>2. u # t BY <2>1, IdleThreadOK DEF ConfirmPc
  <2>3. /\ thread[u].pc \in ConfirmPc /\ thread[u].req = q
        /\ thread[u] = thread'[u]
    BY <2>1, <2>2
  <2>4. lock = u /\ (receipt[c].status = "none" \/ receipt[c].payload = q)
    BY <1>o, <2>3
  <2>5. thread[t].req.cmd # c
    <3>1. SUFFICES ASSUME thread[t].req.cmd = c PROVE FALSE OBVIOUS
    <3>2. thread[t].req.kind = "confirm"
      BY <1>2, <1>c, <3>1 DEF Decides, FreshIds
    <3>3. thread[t].pc \in ConfirmPc BY <1>2, <3>2 DEF Decides
    <3>4. lock = t BY <3>3 DEF HandlerInv, LockInv
    <3>5. QED BY <2>2, <2>4, <3>4
  <2>6. receipt'[c] = receipt[c]
    BY <1>2, <1>t, <1>c, <2>5 DEF Decides
  <2>7. QED BY <2>4, <2>6
<1>3. ASSUME NEW t \in Thread, Claims(t)
      PROVE  \/ receipt'[c].status = "none" \/ receipt'[c].payload = q
  <2>1. CASE u = t
    <3>1. q = thread[t].req BY <1>3, <2>1 DEF Claims
    <3>2. PICK r : /\ receipt' = [receipt EXCEPT ![c] = r] /\ r.payload = q
      BY <1>3, <3>1 DEF Claims
    <3>3. receipt'[c] = r BY <3>2, <1>c, <1>t
    <3>4. QED BY <3>2, <3>3
  <2>2. CASE u # t
    <3>1. thread'[u] = thread[u] BY <1>3, <2>2 DEF Claims
    <3>2. lock = u BY <3>1, <1>o
    <3>3. lock = t BY <1>3 DEF Claims, HandlerInv, LockInv
    <3>4. QED BY <2>2, <3>2, <3>3
  <2>3. QED BY <2>1, <2>2
<1>4. CASE Recovers
  <2>1. thread' = thread
    BY <1>4, <1>c DEF Recovers, ConfirmPc
  <2>2. receipt[c].status = "none" \/ receipt[c].payload = q BY <2>1, <1>o
  <2>3. receipt'[c] = IF receipt[c].status = "pending"
                      THEN [receipt[c] EXCEPT !.status = "unknown"]
                      ELSE receipt[c]
    BY <1>4, <1>c DEF Recovers, Recovered
  <2>4. receipt[c] \in Receipt BY <1>t, <1>c
  <2>5. receipt'[c].payload = receipt[c].payload
        /\ (receipt[c].status = "none" => receipt'[c].status = "none")
    BY <2>3, <2>4 DEF Receipt
  <2>6. QED BY <2>2, <2>5
<1>5. QED BY <1>1, <1>2, <1>3, <1>4 DEF JournalStep

\* How the receipts move in such a step: a decided one only by a deletion.
LEMMA ReceiptsMove ==
  ASSUME TypeInv, JournalStep, NEW c \in Command
  PROVE  \/ receipt'[c] = receipt[c]
         \/ /\ receipt[c].status \notin DecidedStatus
            /\ receipt'[c].status \in {"pending", "unknown"}
         \/ /\ receipt[c].status \notin DecidedStatus
            /\ \E t \in Thread : thread[t].req.cmd = c
                                 /\ Decides(t, receipt'[c])
         \/ Erases /\ receipt'[c] = NoReceipt
<1>t. receipt \in [Command -> Receipt] BY DEF TypeInv, TablesOK
<1>1. CASE Quietly BY <1>1 DEF Quietly
<1>2. ASSUME NEW t \in Thread, NEW r, Decides(t, r)
      PROVE  \/ receipt'[c] = receipt[c]
             \/ /\ receipt[c].status \notin DecidedStatus
                /\ thread[t].req.cmd = c /\ Decides(t, receipt'[c])
  <2>1. CASE thread[t].req.cmd = c
    <3>1. receipt'[c] = r BY <1>2, <1>t, <2>1 DEF Decides
    <3>2. receipt[c].status \notin DecidedStatus BY <1>2, <2>1 DEF Decides
    <3>3. QED BY <1>2, <2>1, <3>1, <3>2
  <2>2. CASE thread[t].req.cmd # c BY <1>2, <1>t, <2>2 DEF Decides
  <2>3. QED BY <2>1, <2>2
<1>3. ASSUME NEW t \in Thread, Claims(t)
      PROVE  \/ receipt'[c] = receipt[c]
             \/ /\ receipt[c].status \notin DecidedStatus
                /\ receipt'[c].status \in {"pending", "unknown"}
  BY <1>3, <1>t DEF Claims, DecidedStatus
<1>4. CASE Recovers
  <2>1. receipt'[c] = IF receipt[c].status = "pending"
                      THEN [receipt[c] EXCEPT !.status = "unknown"]
                      ELSE receipt[c]
    BY <1>4 DEF Recovers, Recovered
  <2>2. receipt[c] \in Receipt BY <1>t
  <2>3. QED BY <2>1, <2>2 DEF Receipt, DecidedStatus
<1>5. CASE Erases BY <1>5 DEF Erases
<1>6. QED BY <1>1, <1>2, <1>3, <1>4, <1>5 DEF JournalStep

\* The receipts, the row's creator, the answers and the log agree again.
LEMMA AnswersKept ==
  ASSUME HandlerInv, JournalInv, AnswerInv, JournalStep, TypeInv'
  PROVE  ReceiptInv' /\ CreatorInv' /\ AnsweredInv' /\ ReceiptMatchesLog'
<1>t. /\ TypeInv /\ receipt \in [Command -> Receipt]
      /\ head.creator \in Command \cup {NoCommand}
      /\ head'.creator \in Command \cup {NoCommand}
      /\ \A e \in events : e.cmd \in Command \cup {NoCommand}
      /\ \A a \in answers : a.req \in Request
      /\ \A a \in answers' : a.req \in Request
  BY DEF HandlerInv, TypeInv, TablesOK, ThreadsOK, Head, Event
<1>m. \A c \in Command :
         \/ receipt'[c] = receipt[c]
         \/ /\ receipt[c].status \notin DecidedStatus
            /\ receipt'[c].status \in {"pending", "unknown"}
         \/ /\ receipt[c].status \notin DecidedStatus
            /\ \E t \in Thread : thread[t].req.cmd = c
                                 /\ Decides(t, receipt'[c])
         \/ Erases /\ receipt'[c] = NoReceipt
  BY <1>t, ReceiptsMove
<1>1. ReceiptInv'
  <2>1. SUFFICES ASSUME NEW c \in Command
                 PROVE  /\ receipt'[c].status = "committed" =>
                              receipt'[c].outcome \in {"ok", "failed"}
                        /\ receipt'[c].status = "revision_conflict" =>
                              receipt'[c].outcome = "conflict"
    BY DEF ReceiptInv
  <2>2. \A t : Decides(t, receipt'[c]) => Verdict(receipt'[c])
    BY DEF Decides
  <2>3. QED BY <1>m, <2>2 DEF Verdict, NoReceipt, AnswerInv, ReceiptInv
<1>2. CreatorInv'
  <2>1. SUFFICES ASSUME head'.live, head'.creator # NoCommand
                 PROVE  receipt'[head'.creator].status # "none"
    BY DEF CreatorInv
  <2>2. ~Erases BY <2>1 DEF Erases
  <2>3. \A c \in Command : receipt[c].status # "none" =>
                              receipt'[c].status # "none"
    BY <1>m, <2>2 DEF Decides, Verdict
  <2>4. CASE head.live /\ head'.creator = head.creator
    <3>1. receipt[head.creator].status # "none"
      BY <2>1, <2>4 DEF AnswerInv, CreatorInv
    <3>2. QED BY <1>t, <2>1, <2>3, <2>4, <3>1
  <2>5. ASSUME NEW t \in Thread, NEW r, Decides(t, r), Founds(thread[t].req, r)
        PROVE  receipt'[head'.creator].status # "none"
    <3>1. /\ head'.creator = thread[t].req.cmd /\ thread[t].req.cmd \in Command
          /\ receipt' = [receipt EXCEPT ![thread[t].req.cmd] = r]
          /\ r.status = "committed"
      BY <2>5 DEF Decides, Founds, Logged
    <3>2. QED BY <3>1, <1>t
  <2>6. \/ head.live /\ head'.creator = head.creator
        \/ \E t \in Thread : \E r : Decides(t, r) /\ Founds(thread[t].req, r)
    <3>1. CASE Quietly BY <2>1, <3>1 DEF Quietly, RowGoesOn
    <3>2. ASSUME NEW t \in Thread, NEW r, Decides(t, r)
          PROVE  \/ head.live /\ head'.creator = head.creator
                 \/ Founds(thread[t].req, r)
      BY <2>1, <3>2 DEF Decides, Refuses, Changes
    <3>3. CASE \/ \E t \in Thread : Claims(t)
               \/ Recovers
      BY <2>1, <3>3 DEF Claims, Recovers
    <3>4. QED BY <2>2, <3>1, <3>2, <3>3 DEF JournalStep
  <2>7. QED BY <2>4, <2>5, <2>6
<1>3. AnsweredInv'
  <2>1. SUFFICES ASSUME NEW a \in answers', a.req.cmd # NoCommand,
                        a.ans \in Final
                 PROVE  Tells(receipt'[a.req.cmd], a.req, a.ans)
    BY DEF AnsweredInv
  <2>2. a.req.cmd \in Command BY <1>t, <2>1, RequestOK
  <2>3. ASSUME Tells(receipt[a.req.cmd], a.req, a.ans), ~Erases
        PROVE  Tells(receipt'[a.req.cmd], a.req, a.ans)
    <3>1. receipt'[a.req.cmd] = receipt[a.req.cmd]
      BY <1>m, <2>2, <2>3 DEF Tells, DecidedStatus
    <3>2. QED BY <2>3, <3>1
  <2>4. a \in answers => Tells(receipt[a.req.cmd], a.req, a.ans)
    BY <2>1 DEF AnswerInv, AnsweredInv
  <2>5. ~Erases BY <2>1 DEF Erases
  <2>6. CASE Quietly
    BY <2>1, <2>3, <2>4, <2>5, <2>6 DEF Quietly, Talks, TellsTruth
  <2>7. ASSUME NEW t \in Thread, NEW r, Decides(t, r)
        PROVE  Tells(receipt'[a.req.cmd], a.req, a.ans)
    <3>1. CASE a \in answers BY <2>3, <2>4, <2>5, <3>1
    <3>2. CASE a = [req |-> thread[t].req, ans |-> r.outcome]
      <4>1. a.req = thread[t].req /\ a.ans = r.outcome BY <3>2
      <4>2. receipt'[a.req.cmd] = r BY <1>t, <2>2, <2>7, <4>1 DEF Decides
      <4>3. QED BY <2>7, <4>1, <4>2 DEF Decides, Verdict, Tells
    <3>3. QED BY <2>1, <2>7, <3>1, <3>2 DEF Decides
  <2>8. CASE \/ \E t \in Thread : Claims(t)
             \/ Recovers
    BY <2>1, <2>3, <2>4, <2>5, <2>8 DEF Claims, Recovers
  <2>9. QED BY <2>5, <2>6, <2>7, <2>8 DEF JournalStep
<1>4. ReceiptMatchesLog'
  <2>c. \A e \in events : e.cmd # NoCommand =>
           /\ e.cmd \in Command /\ receipt[e.cmd].status = "committed"
           /\ receipt[e.cmd].revision = e.rev
    BY <1>t DEF AnswerInv, ReceiptMatchesLog
  <2>d. \A c \in Command : receipt[c].status = "committed"
                             /\ receipt[c].outcome = "ok" =>
           \E e \in events : e.cmd = c /\ e.rev = receipt[c].revision
    BY DEF AnswerInv, ReceiptMatchesLog
  <2>k. ASSUME ~Erases, NEW c \in Command, receipt[c].status = "committed"
        PROVE  receipt'[c] = receipt[c]
    BY <1>m, <2>k DEF DecidedStatus
  <2>1. CASE Erases
    BY <2>1 DEF Erases, ReceiptMatchesLog, NoReceipt
  <2>2. CASE /\ ~Erases /\ events \subseteq events'
             /\ \A e \in events' : e \in events \/ e.cmd = NoCommand
             /\ \A c \in Command : receipt'[c].status = "committed" =>
                                      receipt'[c] = receipt[c]
    <3>1. ASSUME NEW e \in events', e.cmd # NoCommand
          PROVE  /\ receipt'[e.cmd].status = "committed"
                 /\ receipt'[e.cmd].revision = e.rev
      BY <2>2, <2>c, <2>k, <3>1
    <3>2. ASSUME NEW c \in Command, receipt'[c].status = "committed",
                 receipt'[c].outcome = "ok"
          PROVE  \E e \in events' : e.cmd = c /\ e.rev = receipt'[c].revision
      <4>1. receipt'[c] = receipt[c] BY <2>2, <3>2
      <4>2. PICK e \in events : e.cmd = c /\ e.rev = receipt[c].revision
        BY <2>d, <3>2, <4>1
      <4>3. QED BY <2>2, <4>1, <4>2
    <3>3. QED BY <3>1, <3>2 DEF ReceiptMatchesLog
  <2>3. ASSUME NEW t \in Thread, NEW r, Decides(t, r), ~Erases
        PROVE  ReceiptMatchesLog'
    <3> DEFINE q == thread[t].req
    <3>1. /\ q.cmd \in Command /\ receipt'[q.cmd] = r
          /\ \A c \in Command \ {q.cmd} : receipt'[c] = receipt[c]
          /\ receipt[q.cmd].status # "committed"
      BY <1>t, <2>3 DEF Decides, DecidedStatus
    <3>2. CASE Refuses(r)
      <4>1. ASSUME NEW e \in events', e.cmd # NoCommand
            PROVE  /\ receipt'[e.cmd].status = "committed"
                   /\ receipt'[e.cmd].revision = e.rev
        BY <2>c, <3>1, <3>2, <4>1 DEF Refuses
      <4>2. ASSUME NEW c \in Command, receipt'[c].status = "committed",
                   receipt'[c].outcome = "ok"
            PROVE  \E e \in events' : e.cmd = c /\ e.rev = receipt'[c].revision
        <5>1. c # q.cmd BY <3>1, <3>2, <4>2 DEF Refuses
        <5>2. QED BY <2>d, <3>1, <3>2, <4>2, <5>1 DEF Refuses
      <4>3. QED BY <4>1, <4>2 DEF ReceiptMatchesLog
    <3>3. CASE Logged(q.cmd, r)
      <4>1. PICK e : /\ events' = events \cup {e}
                     /\ e.cmd = q.cmd /\ e.rev = r.revision
        BY <3>3 DEF Logged
      <4>2. r.status = "committed" BY <3>3 DEF Logged
      <4>3. ASSUME NEW f \in events', f.cmd # NoCommand
            PROVE  /\ receipt'[f.cmd].status = "committed"
                   /\ receipt'[f.cmd].revision = f.rev
        <5>1. CASE f = e BY <3>1, <4>1, <4>2, <5>1
        <5>2. CASE f \in events BY <2>c, <3>1, <4>3, <5>2
        <5>3. QED BY <4>1, <5>1, <5>2
      <4>4. ASSUME NEW c \in Command, receipt'[c].status = "committed",
                   receipt'[c].outcome = "ok"
            PROVE  \E f \in events' : f.cmd = c /\ f.rev = receipt'[c].revision
        <5>1. CASE c = q.cmd BY <3>1, <4>1, <5>1
        <5>2. CASE c # q.cmd BY <2>d, <3>1, <4>1, <4>4, <5>2
        <5>3. QED BY <5>1, <5>2
      <4>5. QED BY <4>3, <4>4 DEF ReceiptMatchesLog
    <3>4. QED BY <2>3, <3>2, <3>3 DEF Decides, Changes, Founds
  <2>4. CASE Quietly /\ ~Erases
    <3>1. events \subseteq events'
          /\ \A e \in events' : e \in events \/ e.cmd = NoCommand
      BY <2>4 DEF Quietly, RowGoesOn
    <3>2. QED BY <2>2, <2>4, <3>1 DEF Quietly
  <2>5. CASE ~Erases /\ (\/ \E t \in Thread : Claims(t)
                         \/ Recovers)
    <3>1. UNCHANGED events BY <2>5 DEF Claims, Recovers
    <3>2. \A c \in Command : receipt'[c].status = "committed" =>
                                receipt'[c] = receipt[c]
      <4>1. CASE \E t \in Thread : Claims(t) BY <1>t, <4>1 DEF Claims
      <4>2. CASE Recovers
        <5>1. ASSUME NEW c \in Command, receipt'[c].status = "committed"
              PROVE  receipt'[c] = receipt[c]
          <6>1. receipt'[c] = IF receipt[c].status = "pending"
                              THEN [receipt[c] EXCEPT !.status = "unknown"]
                              ELSE receipt[c]
            BY <4>2 DEF Recovers, Recovered
          <6>2. receipt[c] \in Receipt BY <1>t
          <6>3. [receipt[c] EXCEPT !.status = "unknown"].status # "committed"
            BY <6>2 DEF Receipt
          <6>4. QED BY <5>1, <6>1, <6>3
        <5>2. QED BY <5>1
      <4>3. QED BY <2>5, <4>1, <4>2
    <3>3. QED BY <2>2, <2>5, <3>1, <3>2
  <2>6. QED BY <2>1, <2>3, <2>4, <2>5 DEF JournalStep
<1>5. QED BY <1>1, <1>2, <1>3, <1>4

\* With fresh ids, the invariant of the answers is inductive.
LEMMA AnswerInductive ==
  ASSUME FreshIds
  PROVE  HandlerInv /\ JournalInv /\ AnswerInv /\ [Next]_vars => AnswerInv'
<1> SUFFICES ASSUME HandlerInv, JournalInv, AnswerInv, [Next]_vars
             PROVE  AnswerInv'
  OBVIOUS
<1>1. JournalStep BY StepsJournal
<1>2. HandlerInv' /\ TypeInv' BY HandlerInductive DEF HandlerInv
<1>3. FreshInv' BY <1>1, <1>2, FreshKept DEF AnswerInv
<1>4. QED BY <1>1, <1>2, <1>3, AnswersKept DEF AnswerInv

\* It holds at first: nobody has been told anything.
LEMMA AnswerInit == Init => AnswerInv
<1> SUFFICES ASSUME Init PROVE AnswerInv OBVIOUS
<1>1. \A t \in Thread : thread[t].pc = "idle" BY IdleThreadOK DEF Init
<1>2. \A c \in Command : receipt[c].status = "none"
  BY DEF Init, NoReceipt
<1>3. events = {} /\ answers = {} BY DEF Init
<1>4. head.creator = NoCommand BY DEF Init, FirstHead
<1>5. FreshInv BY <1>1 DEF FreshInv, ConfirmPc
<1>6. QED
  BY <1>2, <1>3, <1>4, <1>5 DEF AnswerInv, ReceiptInv, CreatorInv,
     AnsweredInv, ReceiptMatchesLog

\* A claim is called unknown when the engine starts, and only then, unless a
\* CLI opens the store beside it.
LEMMA UnknownKept ==
  ASSUME ~CliMayRun, TypeInv, UnknownMeansLost, JournalStep
  PROVE  UnknownMeansLost'
<1>t. ThreadsOK /\ receipt \in [Command -> Receipt]
  BY DEF TypeInv, TablesOK
<1> SUFFICES ASSUME NEW c \in Command, receipt'[c].status = "unknown",
                    NEW u \in Thread, thread'[u].pc \in Claimed,
                    thread'[u].req.cmd = c
             PROVE  FALSE
  BY DEF UnknownMeansLost
<1>o. ASSUME receipt[c].status = "unknown", thread[u].pc \in Claimed,
             thread[u].req = thread'[u].req
      PROVE  FALSE
  BY <1>o DEF UnknownMeansLost
<1>1. CASE Quietly BY <1>1, <1>o DEF Quietly, Talks, ThreadsGoOn
<1>2. ASSUME NEW t \in Thread, NEW r, Decides(t, r) PROVE FALSE
  <2>1. thread'[t] = IdleThread
        /\ \A v \in Thread \ {t} : thread'[v] = thread[v]
    BY <1>2, <1>t, OnlyThread DEF Decides
  <2>2. thread'[u] = thread[u] BY <2>1, IdleThreadOK DEF Claimed
  <2>3. receipt[c].status = "unknown"
    BY <1>2, <1>t DEF Decides, Verdict
  <2>4. QED BY <1>o, <2>2, <2>3
<1>3. ASSUME NEW t \in Thread, Claims(t) PROVE FALSE
  <2>1. receipt[c].status = "unknown" /\ c # thread[t].req.cmd
    BY <1>3, <1>t DEF Claims
  <2>2. u # t BY <1>3, <2>1 DEF Claims
  <2>3. thread'[u] = thread[u] BY <1>3, <2>2 DEF Claims
  <2>4. QED BY <1>o, <2>1, <2>3
<1>4. CASE Recovers BY <1>4 DEF Recovers, Claimed
<1>5. CASE Erases BY <1>5 DEF Erases, NoReceipt
<1>6. QED BY <1>1, <1>2, <1>3, <1>4, <1>5 DEF JournalStep

\* Two final answers to one command are the answer of its receipt.
LEMMA AnswersAgree == AnsweredInv => OneFinalAnswer
<1> SUFFICES ASSUME AnsweredInv, NEW a \in answers, NEW b \in answers,
                    a.req = b.req, a.req.cmd # NoCommand,
                    a.ans \in Final, b.ans \in Final
             PROVE  a.ans = b.ans
  BY DEF OneFinalAnswer
<1>1. Tells(receipt[a.req.cmd], a.req, a.ans)
      /\ Tells(receipt[b.req.cmd], b.req, b.ans)
  BY DEF AnsweredInv
<1>2. QED BY <1>1 DEF Tells

\* When confirmations have ids of their own, the receipts tell what the log
\* says and no command has two final answers, with crashes and with a CLI
\* that opens the store beside the engine (command_journal.py, commit).
THEOREM ReceiptsTellTheLog ==
  FreshIds => (Spec => [](ReceiptMatchesLog /\ OneFinalAnswer))
<1> SUFFICES ASSUME FreshIds
             PROVE  Spec => [](ReceiptMatchesLog /\ OneFinalAnswer)
  OBVIOUS
<1>1. HandlerInv /\ JournalInv /\ AnswerInv /\ [Next]_vars => AnswerInv'
  BY AnswerInductive
<1>2. AnswerInv => ReceiptMatchesLog /\ OneFinalAnswer
  BY AnswersAgree DEF AnswerInv
<1>3. QED
  BY HandlerInit, HandlerInductive, JournalInvInit, JournalInvInductive,
     AnswerInit, <1>1, <1>2, PTL DEF Spec

\* Without that CLI, a claim is called unknown only when its handler is
\* gone: every answer is true (store.py, _recover_pending_receipts).
THEOREM AnswersAreTrueAlways ==
  FreshIds /\ ~CliMayRun => (Spec => []AnswersAreTrue)
<1> SUFFICES ASSUME FreshIds, ~CliMayRun PROVE Spec => []AnswersAreTrue
  OBVIOUS
<1>1. HandlerInv /\ JournalInv /\ AnswerInv /\ [Next]_vars => AnswerInv'
  BY AnswerInductive
<1>2. HandlerInv /\ AnswerInv /\ UnknownMeansLost /\ [Next]_vars =>
         UnknownMeansLost'
  BY StepsJournal, UnknownKept DEF HandlerInv
<1>3. Init => UnknownMeansLost
  BY DEF Init, NoReceipt, UnknownMeansLost
<1>4. AnswerInv /\ UnknownMeansLost => AnswersAreTrue
  BY AnswersAgree DEF AnswerInv, AnswersAreTrue
<1>5. QED
  BY HandlerInit, HandlerInductive, JournalInvInit, JournalInvInductive,
     AnswerInit, <1>1, <1>2, <1>3, <1>4, PTL DEF Spec

-----------------------------------------------------------------------------
(* The journal implements the command log *)

\* What the abstract log calls the verdicts.
Verdicts == [c \in Command |-> Decided(receipt[c])]

\* A verdict is given by the steps that decide, and taken back by a deletion.
LEMMA VerdictsMove ==
  ASSUME TypeInv
  PROVE  /\ Quietly \/ (\E t \in Thread : Claims(t)) \/ Recovers =>
               Verdicts' = Verdicts
         /\ \A t \in Thread : \A r : Decides(t, r) =>
               /\ Verdicts[thread[t].req.cmd] = "open"
               /\ Verdicts' = [Verdicts EXCEPT ![thread[t].req.cmd] = r.outcome]
         /\ Erases => Verdicts' = [c \in Command |-> "open"]
<1>t. receipt \in [Command -> Receipt] BY DEF TypeInv, TablesOK
<1>1. ASSUME Quietly PROVE Verdicts' = Verdicts
  BY <1>1 DEF Quietly, Verdicts
<1>2. ASSUME NEW t \in Thread, NEW r, Decides(t, r)
      PROVE  /\ Verdicts[thread[t].req.cmd] = "open"
             /\ Verdicts' = [Verdicts EXCEPT ![thread[t].req.cmd] = r.outcome]
  <2> DEFINE c == thread[t].req.cmd
  <2>1. /\ c \in Command /\ receipt' = [receipt EXCEPT ![c] = r]
        /\ receipt[c].status \notin DecidedStatus /\ Verdict(r)
    BY <1>2 DEF Decides
  <2>2. Decided(r) = r.outcome /\ Decided(receipt[c]) = "open"
    BY <2>1 DEF Decided, Verdict, DecidedStatus
  <2> HIDE DEF c
  <2>3. \A d \in Command :
           Decided(receipt'[d]) = IF d = c THEN r.outcome
                                  ELSE Decided(receipt[d])
    BY <1>t, <2>1, <2>2
  <2>4. QED BY <2>1, <2>2, <2>3 DEF Verdicts, c
<1>3. ASSUME NEW t \in Thread, Claims(t) PROVE Verdicts' = Verdicts
  <2>1. \A d \in Command : Decided(receipt'[d]) = Decided(receipt[d])
    BY <1>3, <1>t DEF Claims, Decided
  <2>2. QED BY <2>1 DEF Verdicts
<1>4. ASSUME Recovers PROVE Verdicts' = Verdicts
  <2>1. ASSUME NEW d \in Command
        PROVE  Decided(receipt'[d]) = Decided(receipt[d])
    <3>1. receipt'[d] = IF receipt[d].status = "pending"
                        THEN [receipt[d] EXCEPT !.status = "unknown"]
                        ELSE receipt[d]
      BY <1>4 DEF Recovers, Recovered
    <3>2. receipt[d] \in Receipt BY <1>t
    <3>3. [receipt[d] EXCEPT !.status = "unknown"].status = "unknown"
      BY <3>2 DEF Receipt
    <3>4. QED BY <3>1, <3>3 DEF Decided
  <2>2. QED BY <2>1 DEF Verdicts
<1>5. ASSUME Erases PROVE Verdicts' = [c \in Command |-> "open"]
  BY <1>5 DEF Erases, Verdicts, Decided, NoReceipt
<1>6. QED BY <1>1, <1>2, <1>3, <1>4, <1>5

\* Every step of the journal is a step of the log or none at all.
LEMMA JournalStepIsLogged ==
  ASSUME TypeInv, TypeInv', JournalStep
  PROVE  [Log!LogNext]_<<head.live, head.rev, Verdicts>>
<1>1. CASE Quietly
  <2>1. Verdicts' = Verdicts BY <1>1, VerdictsMove
  <2>2. CASE head'.rev = head.rev
    BY <1>1, <2>1, <2>2 DEF Quietly, RowGoesOn
  <2>3. CASE head.live /\ head'.rev = head.rev + 1
    <3>1. Log!Elsewhere
      BY <1>1, <2>1, <2>3 DEF Quietly, RowGoesOn, Log!Elsewhere, Verdicts
    <3>2. QED BY <3>1 DEF Log!LogNext
  <2>4. QED BY <1>1, <2>2, <2>3 DEF Quietly, RowGoesOn
<1>2. ASSUME NEW t \in Thread, NEW r, Decides(t, r)
      PROVE  Log!LogNext
  <2> DEFINE q == thread[t].req
             c == q.cmd
  <2>1. /\ q \in Request /\ c \in Command /\ Verdict(r)
        /\ Refuses(r) \/ Changes(q, r) \/ Founds(q, r)
    BY <1>2 DEF Decides
  <2>o. /\ Verdicts[c] = "open"
        /\ Verdicts' = [Verdicts EXCEPT ![c] = r.outcome]
    BY <1>2, VerdictsMove
  <2>2. CASE Refuses(r)
    <3>1. Log!Refuse(c)
      BY <2>o, <2>1, <2>2 DEF Refuses, Verdict, Log!Refuse, Verdicts
    <3>2. QED BY <2>1, <3>1 DEF Log!LogNext
  <2>3. CASE Changes(q, r)
    <3>1. r.outcome \in {"ok", "failed"}
      BY <2>1, <2>3 DEF Changes, Logged, Verdict
    <3>2. Log!Apply(c, q)
      BY <2>o, <2>1, <2>3, <3>1, TypeInv'
      DEF Changes, Log!Apply, Verdicts, TypeInv, TablesOK, Head
    <3>3. QED BY <2>1, <3>2 DEF Log!LogNext
  <2>4. CASE Founds(q, r)
    <3>1. Log!Create(c)
      BY <2>o, <2>1, <2>4 DEF Founds, Log!Create, Verdicts, TypeInv, TablesOK, Head
    <3>2. QED BY <2>1, <3>1 DEF Log!LogNext
  <2>5. QED BY <2>1, <2>2, <2>3, <2>4
<1>3. CASE Erases
  <2>1. Verdicts' = [c \in Command |-> "open"] BY <1>3, VerdictsMove
  <2>2. head.live \in BOOLEAN /\ head'.live \in BOOLEAN
    BY DEF TypeInv, TablesOK, Head
  <2>3. /\ head.live /\ head'.live = FALSE /\ head'.rev = head.rev
    BY <1>3, <2>2 DEF Erases
  <2>4. Log!Delete
    BY <2>1, <2>3 DEF Log!Delete, Log!Undecided, Verdicts
  <2>5. QED BY <2>4 DEF Log!LogNext
<1>4. CASE (\E t \in Thread : Claims(t)) \/ Recovers
  <2>1. Verdicts' = Verdicts BY <1>4, VerdictsMove
  <2>2. QED BY <1>4, <2>1 DEF Claims, Recovers
<1>5. QED BY <1>1, <1>2, <1>3, <1>4 DEF JournalStep

\* The journal implements the command log (module CommandLog): every command
\* of a client has at most one verdict, takes effect in the step that gives
\* it, and on the revision that client saw.
THEOREM JournalImplementsLog == FreshIds => (Spec => ImplementsLog)
<1> SUFFICES ASSUME FreshIds PROVE Spec => ImplementsLog OBVIOUS
<1>1. HandlerInv /\ JournalInv /\ AnswerInv /\ [Next]_vars => AnswerInv'
  BY AnswerInductive
<1>2. ASSUME Init PROVE Log!LogInit
  <2>1. PICK found \in Found : head = FirstHead(found) BY <1>2 DEF Init
  <2>2. head.live \in BOOLEAN /\ head.rev = 0 BY <2>1 DEF FirstHead
  <2>3. \A c \in Command : Decided(receipt[c]) = "open"
    BY <1>2 DEF Init, NoReceipt, Decided
  <2>4. QED BY <2>2, <2>3 DEF Log!LogInit, Log!Undecided
<1>3. ASSUME HandlerInv, AnswerInv, [Next]_vars
      PROVE  [Log!LogNext]_<<head.live, head.rev, Verdicts>>
  <2>1. TypeInv /\ TypeInv' BY <1>3, HandlerInductive DEF HandlerInv
  <2>2. JournalStep BY <1>3, StepsJournal
  <2>3. QED BY <2>1, <2>2, JournalStepIsLogged
<1>4. [Log!LogNext]_<<head.live, head.rev, Verdicts>> =>
      [Log!LogNext]_<<head.live, head.rev,
                      [c \in Command |-> Decided(receipt[c])]>>
  BY DEF Verdicts
<1>5. QED
  BY HandlerInit, HandlerInductive, JournalInvInit, JournalInvInductive,
     AnswerInit, <1>1, <1>2, <1>3, <1>4, PTL
  DEF Spec, ImplementsLog, Log!LogSpec

-----------------------------------------------------------------------------
(* A probe is spent once *)

\* delete_research erases the receipts, and what they knew of a probe that is
\* still out.
NoDeletion == \A q \in Request : q.kind # "delete"

\* The claim of a handler is the receipt of its request, with its budget; no
\* probe was sent for it before c_wait, and none is billed once the pool
\* refused it.  A command without a receipt was never probed.
ProbeInv ==
    /\ \A t \in Thread : thread[t].pc \in Claimed =>
          /\ receipt[thread[t].req.cmd].status \in {"pending", "unknown"}
          /\ receipt[thread[t].req.cmd].payload = thread[t].req
          /\ receipt[thread[t].req.cmd].budget = 1
    /\ \A t \in Thread : thread[t].pc = "c_probe" => probes[thread[t].req.cmd] = 0
    /\ \A t \in Thread : thread[t].pc \in {"c_probe", "c_fail_drop", "c_fail_note"} =>
          thread[t].req.cmd \notin billed
    /\ \A c \in Command : receipt[c].status = "none" => probes[c] = 0 /\ c \notin billed

\* The four kinds of steps around a probe.  Nothing is spent: a receipt that
\* changes was pending, and is unknown now.
SpendsNothing ==
    /\ UNCHANGED <<probes, billed>>
    /\ \A c \in Command :
          \/ receipt'[c] = receipt[c]
          \/ /\ receipt[c].status = "pending"
             /\ receipt'[c] = [receipt[c] EXCEPT !.status = "unknown"]
    /\ \A u \in Thread : thread'[u] = thread[u] \/ thread'[u].pc \notin Claimed

\* A command gets its first receipt, from confirm_run as a claim.
OpensReceipt(t) ==
    LET q == thread[t].req IN
    /\ UNCHANGED <<probes, billed>>
    /\ receipt[q.cmd].status = "none"
    /\ \E r : /\ receipt' = [receipt EXCEPT ![q.cmd] = r]
              /\ r.status # "none"
              /\ \/ thread'[t].pc \notin Claimed
                 \/ /\ r.status = "pending" /\ r.payload = q /\ r.budget = 1
                    /\ thread[t].pc \in ConfirmPc
                    /\ thread'[t].pc = "c_probe" /\ thread'[t].req = q
    /\ \A u \in Thread \ {t} : thread'[u] = thread[u]

\* The handler of a claim settles it, and keeps what it has billed reserved.
Settles(t) ==
    LET q == thread[t].req IN
    /\ thread[t].pc \in Claimed
    /\ UNCHANGED <<probes, billed>>
    /\ \E r : /\ receipt' = [receipt EXCEPT ![q.cmd] = r]
              /\ r.status # "none"
              /\ q.cmd \in billed => r.budget = 1
    /\ thread'[t].pc = "idle"
    /\ \A u \in Thread \ {t} : thread'[u] = thread[u]

\* The handler of a claim goes on: it sends the probe, it learns that the
\* probe was not billed, or neither.
ProbeGoesOn(t) ==
    LET c == thread[t].req.cmd IN
    /\ thread[t].pc \in Claimed /\ thread'[t].pc \in Claimed
    /\ thread'[t].req = thread[t].req
    /\ UNCHANGED receipt
    /\ \A u \in Thread \ {t} : thread'[u] = thread[u]
    /\ \/ /\ thread[t].pc = "c_probe" /\ thread'[t].pc = "c_wait"
          /\ probes' = [probes EXCEPT ![c] = @ + 1]
          /\ billed' = billed \cup {c}
       \/ /\ thread'[t].pc \in {"c_fail_drop", "c_fail_note"}
          /\ UNCHANGED probes /\ billed' = billed \ {c}
       \/ /\ thread'[t].pc \notin {"c_probe", "c_fail_drop", "c_fail_note"}
          /\ UNCHANGED <<probes, billed>>

\* Every step is one of the four.
SpendStep ==
    \/ SpendsNothing
    \/ \E t \in Thread : OpensReceipt(t) \/ Settles(t) \/ ProbeGoesOn(t)

\* The invariant of the probes.
SpendInv == ProbeInv /\ ProbeIsSpentOnce

\* Each of them keeps the books.
LEMMA SpendStepKeeps ==
  ASSUME HandlerInv, HandlerInv', SpendInv, SpendStep
  PROVE  SpendInv'
<1>t. /\ ThreadsOK /\ receipt \in [Command -> Receipt]
      /\ receipt' \in [Command -> Receipt]
      /\ probes \in [Command -> Nat] /\ billed \subseteq Command
  BY DEF HandlerInv, TypeInv, TablesOK
<1>l. \A u, v \in Thread : thread[u].pc \in Claimed /\ thread[v].pc \in ConfirmPc
                              => u = v
  BY DEF HandlerInv, LockInv, Claimed, ConfirmPc
<1>k. Claimed \subseteq ConfirmPc BY DEF Claimed, ConfirmPc
<1>c. \A u \in Thread : thread[u].pc \in Claimed => thread[u].req.cmd \in Command
  BY DEF HandlerInv, TypeInv, ThreadsOK, Claimed, ConfirmPc
<1>p. /\ \A u \in Thread : thread[u].pc \in Claimed =>
            /\ receipt[thread[u].req.cmd].status \in {"pending", "unknown"}
            /\ receipt[thread[u].req.cmd].payload = thread[u].req
            /\ receipt[thread[u].req.cmd].budget = 1
      /\ \A u \in Thread : thread[u].pc = "c_probe" =>
            probes[thread[u].req.cmd] = 0
      /\ \A u \in Thread :
            thread[u].pc \in {"c_probe", "c_fail_drop", "c_fail_note"} =>
               thread[u].req.cmd \notin billed
      /\ \A c \in Command : receipt[c].status = "none" =>
            probes[c] = 0 /\ c \notin billed
      /\ \A c \in Command : probes[c] <= 1
      /\ \A c \in billed : receipt[c].budget = 1
  BY DEF SpendInv, ProbeInv, ProbeIsSpentOnce, ProbedOnce, BilledIsReserved
<1>g. {"c_probe", "c_fail_drop", "c_fail_note"} \subseteq Claimed
  BY DEF Claimed
<1>s. ASSUME
      /\ \A u \in Thread : thread'[u].pc \in Claimed =>
            /\ receipt'[thread'[u].req.cmd].status \in {"pending", "unknown"}
            /\ receipt'[thread'[u].req.cmd].payload = thread'[u].req
            /\ receipt'[thread'[u].req.cmd].budget = 1
            /\ thread'[u].pc = "c_probe" => probes'[thread'[u].req.cmd] = 0
            /\ thread'[u].pc \in {"c_probe", "c_fail_drop", "c_fail_note"} =>
                  thread'[u].req.cmd \notin billed'
      /\ \A c \in Command :
            /\ receipt'[c].status = "none" => probes'[c] = 0 /\ c \notin billed'
            /\ probes'[c] <= 1
            /\ c \in billed' => receipt'[c].budget = 1
      PROVE  SpendInv'
  <2>1. billed' \subseteq Command BY DEF HandlerInv, TypeInv, TablesOK
  <2>2. QED
    BY <1>g, <1>s, <2>1
    DEF SpendInv, ProbeInv, ProbeIsSpentOnce, ProbedOnce, BilledIsReserved
<1>1. CASE SpendsNothing
  <2>1. ASSUME NEW c \in Command
        PROVE  /\ receipt'[c].payload = receipt[c].payload
               /\ receipt'[c].budget = receipt[c].budget
               /\ \/ receipt'[c].status = receipt[c].status
                  \/ /\ receipt[c].status = "pending"
                     /\ receipt'[c].status = "unknown"
    <3>1. receipt[c] \in Receipt BY <1>t
    <3>2. \/ receipt'[c] = receipt[c]
          \/ /\ receipt[c].status = "pending"
             /\ receipt'[c] = [receipt[c] EXCEPT !.status = "unknown"]
      BY <1>1 DEF SpendsNothing
    <3>3. /\ [receipt[c] EXCEPT !.status = "unknown"].status = "unknown"
          /\ [receipt[c] EXCEPT !.status = "unknown"].payload
                = receipt[c].payload
          /\ [receipt[c] EXCEPT !.status = "unknown"].budget
                = receipt[c].budget
      BY <3>1 DEF Receipt
    <3>4. QED BY <3>2, <3>3
  <2>2. UNCHANGED <<probes, billed>> BY <1>1 DEF SpendsNothing
  <2>3. ASSUME NEW u \in Thread, thread'[u].pc \in Claimed
        PROVE  thread'[u] = thread[u] /\ thread[u].req.cmd \in Command
    <3>1. thread'[u] = thread[u] BY <1>1, <2>3 DEF SpendsNothing
    <3>2. QED BY <2>3, <3>1, <1>c
  <2>4. \A u \in Thread : thread'[u].pc \in Claimed =>
            /\ receipt'[thread'[u].req.cmd].status \in {"pending", "unknown"}
            /\ receipt'[thread'[u].req.cmd].payload = thread'[u].req
            /\ receipt'[thread'[u].req.cmd].budget = 1
            /\ thread'[u].pc = "c_probe" => probes'[thread'[u].req.cmd] = 0
            /\ thread'[u].pc \in {"c_probe", "c_fail_drop", "c_fail_note"} =>
                  thread'[u].req.cmd \notin billed'
    BY <2>1, <2>2, <2>3, <1>p
  <2>5. \A c \in Command :
            /\ receipt'[c].status = "none" => probes'[c] = 0 /\ c \notin billed'
            /\ probes'[c] <= 1
            /\ c \in billed' => receipt'[c].budget = 1
    BY <2>1, <2>2, <1>p
  <2>6. QED BY <2>4, <2>5, <1>s
<1>2. ASSUME NEW t \in Thread, OpensReceipt(t) PROVE SpendInv'
  <2> DEFINE q == thread[t].req
             d == q.cmd
  <2>1. PICK r : /\ receipt' = [receipt EXCEPT ![d] = r]
                 /\ r.status # "none"
                 /\ \/ thread'[t].pc \notin Claimed
                    \/ /\ r.status = "pending" /\ r.payload = q /\ r.budget = 1
                       /\ thread[t].pc \in ConfirmPc
                       /\ thread'[t].pc = "c_probe" /\ thread'[t].req = q
    BY <1>2 DEF OpensReceipt
  <2>2. /\ UNCHANGED <<probes, billed>> /\ receipt[d].status = "none"
        /\ \A u \in Thread \ {t} : thread'[u] = thread[u]
    BY <1>2 DEF OpensReceipt
  <2>3. \A c \in Command : receipt'[c] = IF c = d THEN r ELSE receipt[c]
    BY <2>1, <1>t
  <2>4. ASSUME NEW u \in Thread, thread'[u].pc \in Claimed, u # t
        PROVE  /\ thread'[u] = thread[u] /\ thread[u].req.cmd \in Command
               /\ thread[u].req.cmd # d
               /\ receipt'[thread[u].req.cmd] = receipt[thread[u].req.cmd]
    <3>1. thread'[u] = thread[u] BY <2>2, <2>4
    <3>2. /\ thread[u].req.cmd \in Command
          /\ receipt[thread[u].req.cmd].status \in {"pending", "unknown"}
      BY <1>c, <1>p, <2>4, <3>1
    <3>3. QED BY <2>2, <2>3, <3>1, <3>2
  <2>5. ASSUME thread'[t].pc \in Claimed
        PROVE  /\ d \in Command /\ receipt'[d] = r
               /\ r.status = "pending" /\ r.payload = q /\ r.budget = 1
               /\ thread'[t].req = q /\ probes[d] = 0 /\ d \notin billed
    <3>1. d \in Command
      BY <2>1, <2>5, <1>t DEF ThreadsOK
    <3>2. QED BY <2>1, <2>2, <2>3, <2>5, <3>1, <1>p
  <2>6. \A u \in Thread : thread'[u].pc \in Claimed =>
            /\ receipt'[thread'[u].req.cmd].status \in {"pending", "unknown"}
            /\ receipt'[thread'[u].req.cmd].payload = thread'[u].req
            /\ receipt'[thread'[u].req.cmd].budget = 1
            /\ thread'[u].pc = "c_probe" => probes'[thread'[u].req.cmd] = 0
            /\ thread'[u].pc \in {"c_probe", "c_fail_drop", "c_fail_note"} =>
                  thread'[u].req.cmd \notin billed'
    BY <2>2, <2>4, <2>5, <1>p
  <2>7. \A c \in Command :
            /\ receipt'[c].status = "none" => probes'[c] = 0 /\ c \notin billed'
            /\ probes'[c] <= 1
            /\ c \in billed' => receipt'[c].budget = 1
    BY <2>1, <2>2, <2>3, <1>p
  <2>8. QED BY <2>6, <2>7, <1>s
<1>3. ASSUME NEW t \in Thread, Settles(t) PROVE SpendInv'
  <2> DEFINE d == thread[t].req.cmd
  <2>1. PICK r : /\ receipt' = [receipt EXCEPT ![d] = r]
                 /\ r.status # "none"
                 /\ d \in billed => r.budget = 1
    BY <1>3 DEF Settles
  <2>2. /\ UNCHANGED <<probes, billed>> /\ thread[t].pc \in Claimed
        /\ \A u \in Thread \ {t} : thread'[u] = thread[u]
        /\ thread'[t].pc = "idle"
    BY <1>3 DEF Settles
  <2>3. \A c \in Command : receipt'[c] = IF c = d THEN r ELSE receipt[c]
    BY <2>1, <1>t
  <2>4. \A u \in Thread : thread'[u].pc \notin Claimed
    <3>1. ASSUME NEW u \in Thread, u # t PROVE thread'[u].pc \notin Claimed
      BY <2>2, <3>1, <1>l, <1>k
    <3>2. thread'[t].pc \notin Claimed BY <2>2 DEF Claimed
    <3>3. QED BY <3>1, <3>2
  <2>5. \A c \in Command :
            /\ receipt'[c].status = "none" => probes'[c] = 0 /\ c \notin billed'
            /\ probes'[c] <= 1
            /\ c \in billed' => receipt'[c].budget = 1
    BY <2>1, <2>2, <2>3, <1>p
  <2>6. QED BY <2>4, <2>5, <1>s
<1>4. ASSUME NEW t \in Thread, ProbeGoesOn(t) PROVE SpendInv'
  <2> DEFINE d == thread[t].req.cmd
  <2>1. /\ thread[t].pc \in Claimed /\ thread'[t].pc \in Claimed
        /\ thread'[t].req = thread[t].req /\ receipt' = receipt
        /\ \A u \in Thread \ {t} : thread'[u] = thread[u]
        /\ d \in Command
    BY <1>4, <1>c DEF ProbeGoesOn
  <2>2. \A u \in Thread : thread'[u].pc \in Claimed => u = t
    BY <2>1, <1>l, <1>k
  <2>3. /\ receipt[d].status \in {"pending", "unknown"}
        /\ receipt[d].payload = thread[t].req
        /\ receipt[d].budget = 1
    BY <2>1, <1>p
  <2>4. CASE /\ thread[t].pc = "c_probe" /\ thread'[t].pc = "c_wait"
             /\ probes' = [probes EXCEPT ![d] = @ + 1]
             /\ billed' = billed \cup {d}
    <3>1. probes[d] = 0 BY <2>4, <1>p
    <3>2. \A c \in Command : probes'[c] = IF c = d THEN 1 ELSE probes[c]
      BY <2>4, <3>1, <1>t
    <3>3. \A c \in Command :
            /\ receipt'[c].status = "none" => probes'[c] = 0 /\ c \notin billed'
            /\ probes'[c] <= 1
            /\ c \in billed' => receipt'[c].budget = 1
      BY <2>1, <2>3, <2>4, <3>2, <1>p
    <3>4. QED BY <2>1, <2>2, <2>3, <2>4, <3>3, <1>s
  <2>5. CASE /\ thread'[t].pc \in {"c_fail_drop", "c_fail_note"}
             /\ UNCHANGED probes /\ billed' = billed \ {d}
    BY <2>1, <2>2, <2>3, <2>5, <1>p, <1>s
  <2>6. CASE /\ thread'[t].pc \notin {"c_probe", "c_fail_drop", "c_fail_note"}
             /\ UNCHANGED <<probes, billed>>
    BY <2>1, <2>2, <2>3, <2>6, <1>p, <1>s
  <2>7. QED BY <1>4, <2>4, <2>5, <2>6 DEF ProbeGoesOn
<1>5. QED BY <1>1, <1>2, <1>3, <1>4 DEF SpendStep

\* A thread that holds no claim afterwards spends nothing if the receipts stay.
LEMMA QuietSpends ==
  ASSUME ThreadsOK, NEW t \in Thread, NEW new,
         thread' = [thread EXCEPT ![t] = new], new.pc \notin Claimed,
         UNCHANGED <<receipt, probes, billed>>
  PROVE  SpendStep
<1>1. thread'[t] = new /\ \A u \in Thread \ {t} : thread'[u] = thread[u]
  BY OnlyThread
<1>2. \A u \in Thread : thread'[u] = thread[u] \/ thread'[u].pc \notin Claimed
  BY <1>1
<1>3. QED BY <1>2 DEF SpendStep, SpendsNothing

\* Start-up recovery spends nothing.
LEMMA RecoverySpends ==
  ASSUME receipt' = Recovered, UNCHANGED <<probes, billed>>,
         \A u \in Thread : thread'[u] = thread[u] \/ thread'[u].pc \notin Claimed
  PROVE  SpendStep
<1>1. \A c \in Command :
         \/ receipt'[c] = receipt[c]
         \/ /\ receipt[c].status = "pending"
            /\ receipt'[c] = [receipt[c] EXCEPT !.status = "unknown"]
  BY DEF Recovered
<1>2. QED BY <1>1 DEF SpendStep, SpendsNothing

\* The first receipt of a command, from a handler that makes no claim.
LEMMA FirstReceiptSpends ==
  ASSUME ThreadsOK, NEW t \in Thread,
         thread' = [thread EXCEPT ![t] = IdleThread],
         receipt[thread[t].req.cmd].status = "none",
         NEW r, r.status # "none",
         receipt' = [receipt EXCEPT ![thread[t].req.cmd] = r],
         UNCHANGED <<probes, billed>>
  PROVE  SpendStep
<1>1. /\ thread'[t] = IdleThread
      /\ \A u \in Thread \ {t} : thread'[u] = thread[u]
  BY OnlyThread
<1>2. thread'[t].pc \notin Claimed BY <1>1, IdleThreadOK DEF Claimed
<1>3. OpensReceipt(t) BY <1>1, <1>2 DEF OpensReceipt
<1>4. QED BY <1>3 DEF SpendStep

\* A settlement by the handler of the claim.
LEMMA SettlementSpends ==
  ASSUME ThreadsOK, NEW t \in Thread, thread[t].pc \in Claimed,
         thread' = [thread EXCEPT ![t] = IdleThread],
         NEW r, r.status # "none", thread[t].req.cmd \in billed => r.budget = 1,
         receipt' = [receipt EXCEPT ![thread[t].req.cmd] = r],
         UNCHANGED <<probes, billed>>
  PROVE  SpendStep
<1>1. /\ thread'[t] = IdleThread
      /\ \A u \in Thread \ {t} : thread'[u] = thread[u]
  BY OnlyThread
<1>2. thread'[t].pc = "idle" BY <1>1, IdleThreadOK
<1>3. Settles(t) BY <1>1, <1>2 DEF Settles
<1>4. QED BY <1>3 DEF SpendStep

\* Requests, the loop, recovery and the handlers that make no remote call.
LEMMA OthersSpend ==
  ASSUME HandlerInv, NoDeletion,
         \/ \E t \in Thread : \E q \in Request : Prepare(t, q)
         \/ \E t \in Thread :
               Create(t) \/ Delete(t) \/ GenericStep(t) \/ LegacyStep(t)
         \/ LoopCommit \/ LoopSave \/ Restart \/ CliStatus
         \/ UNCHANGED vars
  PROVE  SpendStep
<1>t. /\ ThreadsOK /\ receipt \in [Command -> Receipt]
      /\ \A t \in Thread : thread[t] \in ThreadState
  BY DEF HandlerInv, TypeInv, TablesOK, ThreadsOK
<1>i. IdleThread.pc \notin Claimed BY IdleThreadOK DEF Claimed
<1>s. ASSUME UNCHANGED <<thread, receipt, probes, billed>> PROVE SpendStep
  BY <1>s DEF SpendStep, SpendsNothing
<1>g. ASSUME NEW t \in Thread, NEW new, thread' = [thread EXCEPT ![t] = new],
             new.pc \in {"dispatch", "boost", "open", "write"} \cup LegacyPc,
             UNCHANGED <<receipt, probes, billed>>
      PROVE  SpendStep
  <2>1. new.pc \notin Claimed BY <1>g DEF Claimed, LegacyPc
  <2>2. QED BY <1>t, <1>g, <2>1, QuietSpends
<1>1. ASSUME NEW t \in Thread, NEW q \in Request, Prepare(t, q)
      PROVE  SpendStep
  <2>1. UNCHANGED <<receipt, probes, billed>> BY <1>1 DEF Prepare, observed
  <2>2. CASE UNCHANGED thread BY <1>s, <2>1, <2>2
  <2>3. CASE Serve(t, q, "dispatch")
    <3> DEFINE new == [IdleThread EXCEPT !.pc = "dispatch", !.req = q]
    <3>1. new.pc = "dispatch" BY DEF IdleThread
    <3>2. thread' = [thread EXCEPT ![t] = new] BY <2>3 DEF Serve
    <3> HIDE DEF new
    <3>3. QED BY <1>g, <2>1, <3>1, <3>2
  <2>4. QED
    BY <1>1, <2>2, <2>3 DEF Prepare, PrepareLegacy, PrepareFresh,
       PrepareKnown, AnswerNow
<1>2. ASSUME NEW t \in Thread, Create(t) PROVE SpendStep
  <2> DEFINE q == thread[t].req
  <2>1. /\ UNCHANGED <<probes, billed>>
        /\ thread' = [thread EXCEPT ![t] = IdleThread]
    BY <1>2 DEF Create, observed, Answer
  <2>2. \/ UNCHANGED receipt
        \/ /\ receipt[q.cmd].status = "none"
           /\ \E n : receipt' = [receipt EXCEPT ![q.cmd] = CreateReceipt(q, n)]
    BY <1>2 DEF Create
  <2>3. \A n : CreateReceipt(q, n).status # "none" BY DEF CreateReceipt
  <2>4. QED BY <1>t, <1>i, <2>1, <2>2, <2>3, QuietSpends, FirstReceiptSpends
<1>3. ASSUME NEW t \in Thread, Delete(t) PROVE SpendStep
  BY <1>t, <1>3 DEF Delete, NoDeletion, ThreadsOK
<1>4. ASSUME NEW t \in Thread, GenericStep(t) PROVE SpendStep
  <2> DEFINE q == thread[t].req
  <2>1. CASE Load(t)
    <3>1. UNCHANGED <<receipt, probes, billed>> BY <2>1 DEF Load, observed
    <3>2. CASE Answer(t, "error")
      BY <1>t, <1>i, <3>1, <3>2, QuietSpends DEF Answer
    <3>3. CASE thread' = [thread EXCEPT ![t] =
                  [@ EXCEPT !.pc = NextPc(q.kind), !.stamp = head.stamp,
                            !.status = head.status]]
      <4> DEFINE new == [thread[t] EXCEPT !.pc = NextPc(q.kind),
                           !.stamp = head.stamp, !.status = head.status]
      <4>1. new.pc \in {"boost", "open", "write"}
        BY <1>t DEF ThreadState, NextPc
      <4>2. thread' = [thread EXCEPT ![t] = new] BY <1>t, <3>3 DEF ThreadsOK
      <4> HIDE DEF new
      <4>3. QED BY <1>g, <3>1, <4>1, <4>2
    <3>4. QED BY <2>1, <3>2, <3>3 DEF Load
  <2>2. CASE Boost(t)
    <3>1. UNCHANGED <<receipt, probes, billed>> BY <2>2 DEF Boost
    <3>2. CASE Answer(t, "error")
      BY <1>t, <1>i, <3>1, <3>2, QuietSpends DEF Answer
    <3>3. CASE thread' = [thread EXCEPT ![t] =
                  [@ EXCEPT !.pc = "write", !.stamp = head.stamp + 1]]
      <4> DEFINE new == [thread[t] EXCEPT !.pc = "write",
                                          !.stamp = head.stamp + 1]
      <4>1. new.pc = "write" BY <1>t DEF ThreadState
      <4>2. thread' = [thread EXCEPT ![t] = new] BY <1>t, <3>3 DEF ThreadsOK
      <4> HIDE DEF new
      <4>3. QED BY <1>g, <3>1, <4>1, <4>2
    <3>4. QED BY <2>2, <3>2, <3>3 DEF Boost
  <2>3. CASE Open(t)
    <3>1. UNCHANGED <<receipt, probes, billed>> BY <2>3 DEF Open, observed
    <3>2. CASE Answer(t, "error")
      BY <1>t, <1>i, <3>1, <3>2, QuietSpends DEF Answer
    <3>3. CASE Goto(t, "write")
      <4> DEFINE new == [thread[t] EXCEPT !.pc = "write"]
      <4>1. new.pc = "write" BY <1>t DEF ThreadState
      <4>2. thread' = [thread EXCEPT ![t] = new]
        BY <1>t, <3>3 DEF ThreadsOK, Goto
      <4> HIDE DEF new
      <4>3. QED BY <1>g, <3>1, <4>1, <4>2
    <3>4. QED BY <2>3, <3>2, <3>3 DEF Open
  <2>4. CASE Write(t)
    <3>1. /\ UNCHANGED <<probes, billed>>
          /\ \E s : \/ CommitReplays(t, q, FALSE, FALSE) /\ UNCHANGED receipt
                    \/ CommitConflicts(t, q, FALSE, FALSE, FALSE)
                    \/ CommitApplies(t, q, FALSE, s)
                    \/ Answer(t, "error") /\ UNCHANGED receipt
      BY <2>4 DEF Write, observed
    <3>2. thread' = [thread EXCEPT ![t] = IdleThread]
      BY <3>1, CommitEnds DEF Answer
    <3>3. CASE UNCHANGED receipt BY <1>t, <1>i, <3>1, <3>2, <3>3, QuietSpends
    <3>4. CASE CommitConflicts(t, q, FALSE, FALSE, FALSE)
      <4>1. /\ receipt[q.cmd].status = "none"
            /\ receipt' = [receipt EXCEPT ![q.cmd] = Conflicted(q, FALSE)]
        BY <3>4 DEF CommitConflicts, CommitProceeds
      <4>2. Conflicted(q, FALSE).status # "none" BY DEF Conflicted
      <4>3. QED BY <1>t, <3>1, <3>2, <4>1, <4>2, FirstReceiptSpends
    <3>5. ASSUME NEW s, CommitApplies(t, q, FALSE, s) PROVE SpendStep
      <4> DEFINE r == Committed(q, "ok", receipt[q.cmd].budget, head.rev + 1)
      <4>1. /\ receipt[q.cmd].status = "none"
            /\ receipt' = [receipt EXCEPT ![q.cmd] = r]
        BY <3>5 DEF CommitApplies, CommitProceeds, Applied
      <4>2. r.status # "none" BY DEF Committed
      <4>3. QED BY <1>t, <3>1, <3>2, <4>1, <4>2, FirstReceiptSpends
    <3>6. QED BY <3>1, <3>3, <3>4, <3>5
  <2>5. CASE LegacyWrite(t)
    BY <1>t, <1>i, <2>5, QuietSpends
    DEF LegacyWrite, SaveWithEvent, Answer, observed
  <2>6. QED BY <1>4, <2>1, <2>2, <2>3, <2>4, <2>5 DEF GenericStep
<1>5. ASSUME NEW t \in Thread, LegacyStep(t) PROVE SpendStep
  <2>1. UNCHANGED <<receipt, probes, billed>>
    BY <1>5 DEF LegacyStep, LegacyLock, LegacyLoad, LegacyProbe, LegacyProbed,
       LegacyFail, LegacySave, LegacyReload, LegacyOpen, table, observed
  <2>2. CASE \E a : Answer(t, a)
    BY <1>t, <1>i, <2>1, <2>2, QuietSpends DEF Answer
  <2>3. CASE \E pc \in LegacyPc : Goto(t, pc)
    <3>1. PICK pc \in LegacyPc : Goto(t, pc) BY <2>3
    <3> DEFINE new == [thread[t] EXCEPT !.pc = pc]
    <3>2. new.pc = pc BY <1>t DEF ThreadState
    <3>3. thread' = [thread EXCEPT ![t] = new]
      BY <1>t, <3>1 DEF ThreadsOK, Goto
    <3> HIDE DEF new
    <3>4. QED BY <1>g, <2>1, <3>1, <3>2, <3>3
  <2>4. CASE \E pc \in LegacyPc :
               thread' = [thread EXCEPT ![t] =
                            [@ EXCEPT !.pc = pc, !.stamp = head.stamp,
                                      !.status = head.status]]
    <3>1. PICK pc \in LegacyPc :
               thread' = [thread EXCEPT ![t] =
                            [@ EXCEPT !.pc = pc, !.stamp = head.stamp,
                                      !.status = head.status]]
      BY <2>4
    <3> DEFINE new == [thread[t] EXCEPT !.pc = pc, !.stamp = head.stamp,
                                        !.status = head.status]
    <3>2. new.pc = pc BY <1>t DEF ThreadState
    <3>3. thread' = [thread EXCEPT ![t] = new] BY <1>t, <3>1 DEF ThreadsOK
    <3> HIDE DEF new
    <3>4. QED BY <1>g, <2>1, <3>1, <3>2, <3>3
  <2>5. /\ {"l_load", "l_probe", "l_wait", "l_save", "l_fail", "l_reload",
            "l_write"} \subseteq LegacyPc
    BY DEF LegacyPc
  <2>6. CASE LegacyLock(t) BY <2>3, <2>5, <2>6 DEF LegacyLock
  <2>7. CASE LegacyLoad(t) BY <2>2, <2>4, <2>5, <2>7 DEF LegacyLoad, Done
  <2>8. CASE LegacyProbe(t) BY <2>3, <2>5, <2>8 DEF LegacyProbe
  <2>9. CASE LegacyProbed(t) BY <2>2, <2>3, <2>5, <2>9 DEF LegacyProbed, Done
  <2>10. CASE LegacyFail(t) BY <2>2, <2>10 DEF LegacyFail, Done
  <2>11. CASE LegacySave(t) BY <2>2, <2>3, <2>5, <2>11 DEF LegacySave, Done
  <2>12. CASE LegacyReload(t)
    BY <2>2, <2>4, <2>5, <2>12 DEF LegacyReload, Done
  <2>13. CASE LegacyOpen(t) BY <2>2, <2>13 DEF LegacyOpen, SaveWithEvent
  <2>14. QED
    BY <1>5, <2>6, <2>7, <2>8, <2>9, <2>10, <2>11, <2>12, <2>13 DEF LegacyStep
<1>6. CASE LoopCommit \/ LoopSave \/ UNCHANGED vars
  BY <1>6, <1>s DEF LoopCommit, LoopSave, vars, observed
<1>7. CASE Restart
  <2>1. /\ receipt' = Recovered /\ UNCHANGED <<probes, billed>>
        /\ \A u \in Thread : thread'[u].pc \notin Claimed
    BY <1>7, <1>i DEF Restart, observed
  <2>2. QED BY <2>1, RecoverySpends
<1>8. CASE CliStatus
  <2>1. receipt' = Recovered /\ UNCHANGED <<thread, probes, billed>>
    BY <1>8 DEF CliStatus, observed
  <2>2. QED BY <2>1, RecoverySpends
<1>9. QED BY <1>1, <1>2, <1>3, <1>4, <1>5, <1>6, <1>7, <1>8

\* The steps of confirm_run.
LEMMA ConfirmSpends ==
  ASSUME HandlerInv, SpendInv, NEW t \in Thread, ConfirmStep(t)
  PROVE  SpendStep
<1> DEFINE q == thread[t].req
<1>t. /\ ThreadsOK /\ receipt \in [Command -> Receipt]
      /\ thread[t] \in ThreadState
  BY DEF HandlerInv, TypeInv, TablesOK, ThreadsOK
<1>i. IdleThread.pc \notin Claimed BY IdleThreadOK DEF Claimed
<1>e. ASSUME NEW a, Answer(t, a), UNCHANGED <<receipt, probes, billed>>
      PROVE  SpendStep
  BY <1>t, <1>i, <1>e, QuietSpends DEF Answer
<1>b. ASSUME thread[t].pc \in Claimed PROVE receipt[q.cmd].budget = 1
  BY <1>b DEF SpendInv, ProbeInv
<1>d. ASSUME thread[t].pc \in {"c_fail_drop", "c_fail_note"}
      PROVE  q.cmd \notin billed
  BY <1>d DEF SpendInv, ProbeInv
<1>c. ASSUME NEW keep \in BOOLEAN, thread[t].pc \in Claimed,
             keep \/ q.cmd \notin billed, NEW f, NEW s,
             UNCHANGED <<probes, billed>>,
             \/ CommitConflicts(t, q, TRUE, f, keep)
             \/ CommitApplies(t, q, TRUE, s)
             \/ CommitRecordsFailure(t, q, keep)
      PROVE  SpendStep
  <2>1. thread' = [thread EXCEPT ![t] = IdleThread] BY <1>c, CommitEnds
  <2>2. ASSUME NEW r, receipt' = [receipt EXCEPT ![q.cmd] = r],
               r.status # "none", q.cmd \in billed => r.budget = 1
        PROVE  SpendStep
    BY <1>t, <1>c, <2>1, <2>2, SettlementSpends
  <2>3. receipt[q.cmd].budget = 1 BY <1>b, <1>c
  <2>4. CASE CommitConflicts(t, q, TRUE, f, keep)
    <3>1. /\ receipt' = [receipt EXCEPT ![q.cmd] = Conflicted(q, keep)]
          /\ Conflicted(q, keep).status # "none"
          /\ q.cmd \in billed => Conflicted(q, keep).budget = 1
      BY <1>c, <2>3, <2>4 DEF CommitConflicts, Conflicted
    <3>2. QED BY <2>2, <3>1
  <2>5. CASE CommitApplies(t, q, TRUE, s)
    <3> DEFINE r == Committed(q, "ok", receipt[q.cmd].budget, head.rev + 1)
    <3>1. /\ receipt' = [receipt EXCEPT ![q.cmd] = r]
          /\ r.status # "none" /\ r.budget = 1
      BY <2>3, <2>5 DEF CommitApplies, Applied, Committed
    <3>2. QED BY <2>2, <3>1
  <2>6. CASE CommitRecordsFailure(t, q, keep)
    <3> DEFINE r == Committed(q, "failed", IF keep THEN 1 ELSE 0, head.rev + 1)
    <3>1. /\ receipt' = [receipt EXCEPT ![q.cmd] = r]
          /\ r.status # "none"
          /\ q.cmd \in billed => r.budget = 1
      BY <1>c, <2>6 DEF CommitRecordsFailure, FailureNoted, Committed
    <3>2. QED BY <2>2, <3>1
  <2>7. QED BY <1>c, <2>4, <2>5, <2>6
<1>m. ASSUME NEW pc \in Pc, Goto(t, pc)
      PROVE  /\ thread'[t].pc = pc /\ thread'[t].req = q
             /\ \A u \in Thread \ {t} : thread'[u] = thread[u]
             /\ pc \notin Claimed /\ UNCHANGED <<receipt, probes, billed>>
                   => SpendStep
  <2> DEFINE new == [thread[t] EXCEPT !.pc = pc]
  <2>1. new.pc = pc /\ new.req = q BY <1>t DEF ThreadState
  <2>2. thread' = [thread EXCEPT ![t] = new] BY <1>t, <1>m DEF ThreadsOK, Goto
  <2> HIDE DEF new
  <2>3. QED BY <1>t, <2>1, <2>2, OnlyThread, QuietSpends
<1>p. /\ PreClaim \cap Claimed = {} /\ PreClaim \subseteq Pc
      /\ PreClaim \subseteq ConfirmPc
      /\ Claimed \subseteq Pc
  BY DEF PreClaim, Claimed, Pc, ConfirmPc
<1>q. /\ {"c_load", "c_check", "c_conflict", "c_bind", "c_claim"} = PreClaim
      /\ {"c_probe", "c_wait", "c_open", "c_commit", "c_fail_keep",
          "c_fail_drop", "c_fail_note"} = Claimed
  BY DEF PreClaim, Claimed
<1>1. CASE ConfirmLock(t)
  <2>1. UNCHANGED <<receipt, probes, billed>> BY <1>1 DEF ConfirmLock, observed
  <2>2. (\E a : Answer(t, a)) \/ Goto(t, "c_load") BY <1>1 DEF ConfirmLock
  <2>3. QED BY <1>e, <1>m, <1>p, <1>q, <2>1, <2>2
<1>2. CASE ConfirmLoad(t)
  <2>1. UNCHANGED <<receipt, probes, billed>> BY <1>2 DEF ConfirmLoad, observed
  <2>2. CASE \E a : Answer(t, a) BY <1>e, <2>1, <2>2
  <2>3. CASE thread' = [thread EXCEPT ![t] =
                          [@ EXCEPT !.pc = "c_check", !.stamp = head.stamp,
                                    !.status = head.status]]
    <3> DEFINE new == [thread[t] EXCEPT !.pc = "c_check", !.stamp = head.stamp,
                                        !.status = head.status]
    <3>1. new.pc = "c_check" BY <1>t DEF ThreadState
    <3>2. thread' = [thread EXCEPT ![t] = new] BY <1>t, <2>3 DEF ThreadsOK
    <3> HIDE DEF new
    <3>3. QED BY <1>t, <1>p, <1>q, <2>1, <3>1, <3>2, QuietSpends
  <2>4. QED BY <1>2, <2>2, <2>3 DEF ConfirmLoad, Done
<1>3. CASE ConfirmCheck(t)
  <2>1. UNCHANGED <<receipt, probes, billed>>
    BY <1>3 DEF ConfirmCheck, observed
  <2>2. (\E a : Answer(t, a)) \/ Goto(t, "c_conflict") \/ Goto(t, "c_bind")
    BY <1>3 DEF ConfirmCheck, Done
  <2>3. QED BY <1>e, <1>m, <1>p, <1>q, <2>1, <2>2
<1>4. CASE ConfirmConflict(t)
  <2>1. /\ UNCHANGED <<probes, billed>> /\ \E a : Answer(t, a)
        /\ thread[t].pc \in PreClaim
    BY <1>4, <1>q DEF ConfirmConflict, observed, Done
  <2>2. CASE UNCHANGED receipt BY <1>e, <2>1, <2>2
  <2>3. CASE /\ receipt[q.cmd].status = "none" \/ receipt[q.cmd].payload = q
             /\ receipt' = [receipt EXCEPT ![q.cmd] = Conflicted(q, FALSE)]
    <3>1. receipt[q.cmd].status = "none"
      BY <1>p, <2>1, <2>3 DEF HandlerInv, ClaimInv, ClaimOK
    <3>2. Conflicted(q, FALSE).status # "none" BY DEF Conflicted
    <3>3. thread' = [thread EXCEPT ![t] = IdleThread] BY <2>1 DEF Answer
    <3>4. QED BY <1>t, <2>1, <2>3, <3>1, <3>2, <3>3, FirstReceiptSpends
  <2>4. QED BY <1>4, <2>2, <2>3 DEF ConfirmConflict
<1>5. CASE ConfirmBind(t)
  <2>1. UNCHANGED <<receipt, probes, billed>> BY <1>5 DEF ConfirmBind, observed
  <2>2. CASE \E a : Answer(t, a) BY <1>e, <2>1, <2>2
  <2>3. CASE thread' = [thread EXCEPT ![t] =
                          [@ EXCEPT !.pc = "c_claim", !.bound = head.stamp,
                                    !.boundVersions = head.versions]]
    <3> DEFINE new == [thread[t] EXCEPT !.pc = "c_claim", !.bound = head.stamp,
                                        !.boundVersions = head.versions]
    <3>1. new.pc = "c_claim" BY <1>t DEF ThreadState
    <3>2. thread' = [thread EXCEPT ![t] = new] BY <1>t, <2>3 DEF ThreadsOK
    <3> HIDE DEF new
    <3>3. QED BY <1>t, <1>p, <1>q, <2>1, <3>1, <3>2, QuietSpends
  <2>4. QED BY <1>5, <2>2, <2>3 DEF ConfirmBind, Done
<1>6. CASE ConfirmClaim(t)
  <2>1. UNCHANGED <<probes, billed>> /\ thread[t].pc \in ConfirmPc
    BY <1>6, <1>p, <1>q DEF ConfirmClaim, observed
  <2>2. CASE UNCHANGED receipt /\ \E a : Answer(t, a) BY <1>e, <2>1, <2>2
  <2>3. CASE /\ receipt[q.cmd].status = "none"
             /\ receipt' = [receipt EXCEPT ![q.cmd] =
                             [status |-> "pending", payload |-> q,
                              outcome |-> "none", budget |-> 1,
                              revision |-> q.expected]]
             /\ Goto(t, "c_probe")
    <3> DEFINE r == [status |-> "pending", payload |-> q, outcome |-> "none",
                     budget |-> 1, revision |-> q.expected]
    <3>1. /\ r.status = "pending" /\ r.payload = q /\ r.budget = 1
          /\ receipt' = [receipt EXCEPT ![q.cmd] = r]
      BY <2>3
    <3> HIDE DEF r
    <3>2. /\ thread'[t].pc = "c_probe" /\ thread'[t].req = q
          /\ \A u \in Thread \ {t} : thread'[u] = thread[u]
      BY <1>m, <1>p, <1>q, <2>3
    <3>3. OpensReceipt(t) BY <2>1, <2>3, <3>1, <3>2 DEF OpensReceipt
    <3>4. QED BY <3>3 DEF SpendStep
  <2>4. QED BY <1>6, <2>2, <2>3 DEF ConfirmClaim, Done
<1>7. CASE ConfirmProbe(t)
  <2>1. /\ thread[t].pc = "c_probe" /\ UNCHANGED receipt
        /\ probes' = [probes EXCEPT ![q.cmd] = @ + 1]
        /\ billed' = billed \cup {q.cmd}
        /\ Goto(t, "c_wait")
    BY <1>7 DEF ConfirmProbe, table
  <2>2. /\ thread'[t].pc = "c_wait" /\ thread'[t].req = q
        /\ \A u \in Thread \ {t} : thread'[u] = thread[u]
    BY <1>m, <1>p, <1>q, <2>1
  <2>3. ProbeGoesOn(t) BY <1>q, <2>1, <2>2 DEF ProbeGoesOn
  <2>4. QED BY <2>3 DEF SpendStep
<1>8. CASE ConfirmProbed(t)
  <2>1. thread[t].pc = "c_wait" /\ UNCHANGED <<receipt, probes>>
    BY <1>8 DEF ConfirmProbed, table
  <2>2. ASSUME NEW pc \in {"c_open", "c_fail_keep"}, Goto(t, pc),
               UNCHANGED billed
        PROVE  SpendStep
    <3>1. /\ thread'[t].pc = pc /\ thread'[t].req = q
          /\ \A u \in Thread \ {t} : thread'[u] = thread[u]
      BY <1>m, <1>p, <1>q, <2>2
    <3>2. ProbeGoesOn(t) BY <1>q, <2>1, <2>2, <3>1 DEF ProbeGoesOn
    <3>3. QED BY <3>2 DEF SpendStep
  <2>3. ASSUME NEW pc \in {"c_fail_drop", "c_fail_note"}, Goto(t, pc),
               billed' = billed \ {q.cmd}
        PROVE  SpendStep
    <3>1. /\ thread'[t].pc = pc /\ thread'[t].req = q
          /\ \A u \in Thread \ {t} : thread'[u] = thread[u]
      BY <1>m, <1>p, <1>q, <2>3
    <3>2. ProbeGoesOn(t) BY <1>q, <2>1, <2>3, <3>1 DEF ProbeGoesOn
    <3>3. QED BY <3>2 DEF SpendStep
  <2>4. CASE Answer(t, "error") /\ UNCHANGED billed BY <1>e, <2>1, <2>4
  <2>5. QED BY <1>8, <2>2, <2>3, <2>4 DEF ConfirmProbed, Done
<1>9. CASE ConfirmOpen(t)
  <2>1. thread[t].pc = "c_open" /\ UNCHANGED <<receipt, probes, billed>>
    BY <1>9 DEF ConfirmOpen, observed
  <2>2. CASE \E a : Answer(t, a) BY <1>e, <2>1, <2>2
  <2>3. CASE Goto(t, "c_commit")
    <3>1. /\ thread'[t].pc = "c_commit" /\ thread'[t].req = q
          /\ \A u \in Thread \ {t} : thread'[u] = thread[u]
      BY <1>m, <1>p, <1>q, <2>3
    <3>2. ProbeGoesOn(t) BY <1>q, <2>1, <3>1 DEF ProbeGoesOn
    <3>3. QED BY <3>2 DEF SpendStep
  <2>4. QED BY <1>9, <2>2, <2>3 DEF ConfirmOpen, Done
<1>10. CASE ConfirmCommit(t)
  <2>1. thread[t].pc \in Claimed /\ UNCHANGED <<probes, billed>>
    BY <1>10, <1>q DEF ConfirmCommit, observed
  <2>2. CASE UNCHANGED receipt /\ \E a : Answer(t, a) BY <1>e, <2>1, <2>2
  <2>3. CASE CommitConflicts(t, q, TRUE, FALSE, TRUE) BY <1>c, <2>1, <2>3
  <2>4. CASE CommitApplies(t, q, TRUE, "running")
    <3>1. TRUE \in BOOLEAN OBVIOUS
    <3>2. QED BY <1>c, <2>1, <2>4, <3>1
  <2>5. QED
    BY <1>10, <2>2, <2>3, <2>4 DEF ConfirmCommit, CommitReplays
<1>11. ASSUME NEW keep \in BOOLEAN, ConfirmFail(t, keep) PROVE SpendStep
  <2>1. /\ thread[t].pc \in Claimed /\ UNCHANGED <<probes, billed>>
        /\ keep \/ thread[t].pc = "c_fail_drop"
    BY <1>11, <1>q DEF ConfirmFail, observed
  <2>2. CASE UNCHANGED receipt /\ \E a : Answer(t, a) BY <1>e, <2>1, <2>2
  <2>3. CASE \/ CommitConflicts(t, q, TRUE, TRUE, keep)
             \/ CommitRecordsFailure(t, q, keep)
    <3>1. keep \/ q.cmd \notin billed BY <1>d, <2>1
    <3>2. QED BY <1>c, <2>1, <2>3, <3>1
  <2>4. QED BY <1>11, <2>2, <2>3 DEF ConfirmFail, CommitReplays
<1>12. CASE ConfirmFailNote(t)
  <2>1. /\ thread[t].pc = "c_fail_note" /\ UNCHANGED <<probes, billed>>
        /\ \E a : Answer(t, a)
    BY <1>12 DEF ConfirmFailNote, observed
  <2>2. CASE UNCHANGED receipt BY <1>e, <2>1, <2>2
  <2>3. CASE receipt' = [receipt EXCEPT ![q.cmd] =
                             Committed(q, "failed", 0, head.rev)]
    <3>1. Committed(q, "failed", 0, head.rev).status # "none" BY DEF Committed
    <3>2. thread' = [thread EXCEPT ![t] = IdleThread] BY <2>1 DEF Answer
    <3>3. q.cmd \notin billed /\ thread[t].pc \in Claimed
      BY <1>d, <1>q, <2>1
    <3>4. QED BY <1>t, <2>1, <2>3, <3>1, <3>2, <3>3, SettlementSpends
  <2>4. QED BY <1>12, <2>2, <2>3 DEF ConfirmFailNote
<1>13. QED
  BY <1>1, <1>2, <1>3, <1>4, <1>5, <1>6, <1>7, <1>8, <1>9, <1>10, <1>11,
     <1>12 DEF ConfirmStep

\* The inductive step.
LEMMA SpendInductive ==
  ASSUME NoDeletion, HandlerInv, HandlerInv', SpendInv, [Next]_vars
  PROVE  SpendInv'
<1>1. SpendStep
  BY OthersSpend, ConfirmSpends DEF Next, ThreadStep
<1>2. QED BY <1>1, SpendStepKeeps

\* It holds at first: nothing was probed.
LEMMA SpendInit == Init => SpendInv
<1> SUFFICES ASSUME Init PROVE SpendInv OBVIOUS
<1>1. /\ \A t \in Thread : thread[t].pc = "idle"
      /\ \A c \in Command : probes[c] = 0
      /\ billed = {}
  BY IdleThreadOK DEF Init
<1>2. QED
  BY <1>1 DEF SpendInv, ProbeInv, ProbeIsSpentOnce, ProbedOnce,
     BilledIsReserved, Claimed

\* A draft is confirmed once, from however many clients, threads, retries and
\* restarts: one version, and for each command one probe, whose budget stays
\* reserved (main.py:1170).  A deletion is excluded: it forgets the receipts,
\* and with them that a command was probed.
THEOREM ConfirmedOnceAlways == NoDeletion => (Spec => []ConfirmedOnce)
<1> SUFFICES ASSUME NoDeletion PROVE Spec => []ConfirmedOnce OBVIOUS
<1>1. Init => HandlerInv /\ SpendInv BY HandlerInit, SpendInit
<1>2. HandlerInv /\ SpendInv /\ [Next]_vars => (HandlerInv /\ SpendInv)'
  BY HandlerInductive, SpendInductive
<1>3. SpendInv => ProbeIsSpentOnce BY DEF SpendInv
<1>4. ProbeIsSpentOnce /\ OneConfirmedVersion <=> ConfirmedOnce
  BY DEF ConfirmedOnce
<1>5. QED
  BY <1>1, <1>2, <1>3, <1>4, ConfirmedVersionIsOne, PTL DEF Spec

-----------------------------------------------------------------------------
(* No second probe while the outcome of one is unknown *)

\* Every client sends its confirmations with an envelope.
AllConfirmsJournaled == \A q \in Request : q.kind = "confirm" => q.cmd # NoCommand
\* A request that is not authorised is before its remote call only while
\* nothing is unknown.
ResendInv ==
    \A t \in Thread :
        /\ thread[t].pc \in {"dispatch"} \cup PreClaim \cup {"c_probe"}
        /\ thread[t].req.kind = "confirm"
        /\ ~thread[t].req.auth
        => ~HasUnknown

\* The steps up to the remote call.
EarlyPc == {"dispatch"} \cup PreClaim \cup {"c_probe"}

\* A handler's step: no receipt becomes unknown, and the thread is before the
\* remote call only where it was before.
Proceeds(t) ==
    /\ \A c \in Command : receipt'[c].status = "unknown" =>
                            receipt'[c] = receipt[c]
    /\ \A u \in Thread \ {t} : thread'[u] = thread[u]
    /\ thread'[t].pc \in EarlyPc =>
          thread[t].pc \in EarlyPc /\ thread'[t].req = thread[t].req

\* What a handler does to the receipts: nothing, all of them, or its own.
LEMMA HandlersSettle ==
  ASSUME ThreadsOK, receipt \in [Command -> Receipt], NEW t \in Thread,
         ThreadStep(t), NEW c \in Command, receipt'[c].status = "unknown"
  PROVE  receipt'[c] = receipt[c]
<1> DEFINE q == thread[t].req
<1>1. ASSUME NEW d, NEW r, receipt' = [receipt EXCEPT ![d] = r],
             r.status # "unknown"
      PROVE  receipt'[c] = receipt[c]
  BY <1>1
<1>2. /\ \A k : Conflicted(q, k).status # "unknown"
      /\ \A o, b, n : Committed(q, o, b, n).status # "unknown"
      /\ \A n : CreateReceipt(q, n).status # "unknown"
      /\ NoReceipt.status # "unknown"
  BY DEF Conflicted, Committed, CreateReceipt, NoReceipt
<1>3. ASSUME NEW b, NEW f, NEW k, NEW s,
             \/ CommitConflicts(t, q, b, f, k)
             \/ CommitApplies(t, q, b, s)
             \/ CommitRecordsFailure(t, q, k)
      PROVE  receipt'[c] = receipt[c]
  <2>1. \/ receipt' = [receipt EXCEPT ![q.cmd] = Conflicted(q, k)]
        \/ receipt' = [receipt EXCEPT ![q.cmd] =
                         Committed(q, "ok", receipt[q.cmd].budget, head.rev + 1)]
        \/ receipt' = [receipt EXCEPT ![q.cmd] =
                         Committed(q, "failed", IF k THEN 1 ELSE 0,
                                   head.rev + 1)]
        \/ q.cmd \notin Command /\ UNCHANGED receipt
    BY <1>3 DEF CommitConflicts, CommitApplies, Applied,
       CommitRecordsFailure, FailureNoted
  <2>2. QED BY <1>1, <1>2, <2>1
<1>4. CASE Create(t) \/ Delete(t)
  <2>1. \/ UNCHANGED receipt
        \/ \E n : receipt' = [receipt EXCEPT ![q.cmd] = CreateReceipt(q, n)]
        \/ receipt' = [d \in Command |-> NoReceipt]
    BY <1>4 DEF Create, Delete
  <2>2. QED BY <1>1, <1>2, <2>1
<1>5. CASE GenericStep(t)
  <2>1. CASE Write(t)
    <3>1. \/ UNCHANGED receipt
          \/ CommitConflicts(t, q, FALSE, FALSE, FALSE)
          \/ \E s : CommitApplies(t, q, FALSE, s)
      BY <2>1 DEF Write
    <3>2. QED BY <1>3, <3>1
  <2>2. CASE Load(t) \/ Boost(t) \/ Open(t) \/ LegacyWrite(t)
    BY <2>2 DEF Load, Boost, Open, LegacyWrite
  <2>3. QED BY <1>5, <2>1, <2>2 DEF GenericStep
<1>6. CASE ConfirmStep(t)
  <2>1. CASE ConfirmConflict(t)
    <3>1. \/ UNCHANGED receipt
          \/ receipt' = [receipt EXCEPT ![q.cmd] = Conflicted(q, FALSE)]
      BY <2>1 DEF ConfirmConflict
    <3>2. QED BY <1>1, <1>2, <3>1
  <2>2. CASE ConfirmClaim(t)
    <3> DEFINE r == [status |-> "pending", payload |-> q, outcome |-> "none",
                     budget |-> 1, revision |-> q.expected]
    <3>1. UNCHANGED receipt \/ receipt' = [receipt EXCEPT ![q.cmd] = r]
      BY <2>2 DEF ConfirmClaim
    <3>2. r.status # "unknown" OBVIOUS
    <3> HIDE DEF r
    <3>3. QED BY <1>1, <3>1, <3>2
  <2>3. CASE ConfirmCommit(t)
    <3>1. \/ UNCHANGED receipt
          \/ CommitConflicts(t, q, TRUE, FALSE, TRUE)
          \/ CommitApplies(t, q, TRUE, "running")
      BY <2>3 DEF ConfirmCommit
    <3>2. QED BY <1>3, <3>1
  <2>4. ASSUME NEW k, ConfirmFail(t, k) PROVE receipt'[c] = receipt[c]
    <3>1. \/ UNCHANGED receipt
          \/ CommitConflicts(t, q, TRUE, TRUE, k)
          \/ CommitRecordsFailure(t, q, k)
      BY <2>4 DEF ConfirmFail
    <3>2. QED BY <1>3, <3>1
  <2>5. CASE ConfirmFailNote(t)
    <3>1. \/ UNCHANGED receipt
          \/ receipt' = [receipt EXCEPT ![q.cmd] =
                           Committed(q, "failed", 0, head.rev)]
      BY <2>5 DEF ConfirmFailNote
    <3>2. QED BY <1>1, <1>2, <3>1
  <2>6. CASE \/ ConfirmLock(t) \/ ConfirmLoad(t) \/ ConfirmCheck(t)
             \/ ConfirmBind(t) \/ ConfirmProbe(t) \/ ConfirmProbed(t)
             \/ ConfirmOpen(t)
    BY <2>6 DEF ConfirmLock, ConfirmLoad, ConfirmCheck, ConfirmBind,
       ConfirmProbe, ConfirmProbed, ConfirmOpen, table
  <2>7. QED
    BY <1>6, <2>1, <2>2, <2>3, <2>4, <2>5, <2>6 DEF ConfirmStep
<1>7. CASE LegacyStep(t)
  BY <1>7 DEF LegacyStep, LegacyLock, LegacyLoad, LegacyProbe, LegacyProbed,
     LegacyFail, LegacySave, LegacyReload, LegacyOpen, table
<1>8. QED BY <1>4, <1>5, <1>6, <1>7 DEF ThreadStep

\* A handler stays before its remote call, or leaves those steps for good.
LEMMA HandlersProceed ==
  ASSUME HandlerInv, NEW t \in Thread, ThreadStep(t)
  PROVE  Proceeds(t)
<1> DEFINE q == thread[t].req
<1>t. /\ ThreadsOK /\ receipt \in [Command -> Receipt]
      /\ thread[t] \in ThreadState
  BY DEF HandlerInv, TypeInv, TablesOK, ThreadsOK
<1>r. \A c \in Command : receipt'[c].status = "unknown" =>
                           receipt'[c] = receipt[c]
  BY <1>t, HandlersSettle
<1>n. ASSUME NEW new, thread' = [thread EXCEPT ![t] = new],
             new.pc \in EarlyPc => thread[t].pc \in EarlyPc /\ new.req = q
      PROVE  Proceeds(t)
  BY <1>t, <1>r, <1>n, OnlyThread DEF Proceeds
<1>e. ASSUME NEW a, Answer(t, a) PROVE Proceeds(t)
  <2>1. IdleThread.pc \notin EarlyPc
    BY IdleThreadOK DEF EarlyPc, PreClaim
  <2>2. QED BY <1>e, <1>n, <2>1 DEF Answer
<1>m. ASSUME NEW pc, Goto(t, pc), pc \in EarlyPc => thread[t].pc \in EarlyPc
      PROVE  Proceeds(t)
  <2> DEFINE new == [thread[t] EXCEPT !.pc = pc]
  <2>1. new.pc = pc /\ new.req = q BY <1>t DEF ThreadState
  <2>2. thread' = [thread EXCEPT ![t] = new] BY <1>t, <1>m DEF ThreadsOK, Goto
  <2> HIDE DEF new
  <2>3. QED BY <1>m, <1>n, <2>1, <2>2
<1>l. ASSUME NEW pc, pc \in EarlyPc => thread[t].pc \in EarlyPc,
             thread' = [thread EXCEPT ![t] =
                          [@ EXCEPT !.pc = pc, !.stamp = head.stamp,
                                    !.status = head.status]]
      PROVE  Proceeds(t)
  <2> DEFINE new == [thread[t] EXCEPT !.pc = pc, !.stamp = head.stamp,
                                      !.status = head.status]
  <2>1. new.pc = pc /\ new.req = q BY <1>t DEF ThreadState
  <2>2. thread' = [thread EXCEPT ![t] = new] BY <1>t, <1>l DEF ThreadsOK
  <2> HIDE DEF new
  <2>3. QED BY <1>l, <1>n, <2>1, <2>2
<1>p. /\ {"dispatch", "c_load", "c_check", "c_conflict", "c_bind", "c_claim",
          "c_probe"} = EarlyPc
      /\ ({"boost", "open", "write", "c_wait", "c_open", "c_commit",
           "c_fail_keep", "c_fail_drop", "c_fail_note"} \cup LegacyPc)
             \cap EarlyPc = {}
  BY DEF EarlyPc, PreClaim, LegacyPc
<1>1. CASE Create(t) BY <1>1, <1>e DEF Create
<1>2. CASE Delete(t)
  <2>1. IdleThread.pc \notin EarlyPc
    BY IdleThreadOK DEF EarlyPc, PreClaim
  <2>2. QED BY <1>2, <1>n, <2>1 DEF Delete
<1>3. CASE Load(t)
  <2>1. NextPc(q.kind) \notin EarlyPc BY <1>p DEF NextPc
  <2>2. QED BY <1>3, <1>e, <1>l, <2>1 DEF Load
<1>4. CASE Boost(t)
  <2>1. CASE thread' = [thread EXCEPT ![t] =
                  [@ EXCEPT !.pc = "write", !.stamp = head.stamp + 1]]
    <3> DEFINE new == [thread[t] EXCEPT !.pc = "write",
                                        !.stamp = head.stamp + 1]
    <3>1. new.pc = "write" BY <1>t DEF ThreadState
    <3>2. thread' = [thread EXCEPT ![t] = new] BY <1>t, <2>1 DEF ThreadsOK
    <3> HIDE DEF new
    <3>3. QED BY <1>n, <1>p, <3>1, <3>2
  <2>2. QED BY <1>4, <1>e, <2>1 DEF Boost
<1>5. CASE Open(t) BY <1>5, <1>e, <1>m, <1>p DEF Open
<1>6. CASE Write(t)
  <2>1. \E s : \/ CommitReplays(t, q, FALSE, FALSE)
               \/ CommitConflicts(t, q, FALSE, FALSE, FALSE)
               \/ CommitApplies(t, q, FALSE, s)
               \/ Answer(t, "error")
    BY <1>6 DEF Write
  <2>2. \E a : Answer(t, a)
    BY <2>1 DEF CommitReplays, CommitConflicts, CommitApplies, Applied
  <2>3. QED BY <1>e, <2>2
<1>7. CASE LegacyWrite(t) BY <1>7, <1>e DEF LegacyWrite, SaveWithEvent
<1>8. CASE ConfirmStep(t)
  <2>1. CASE ConfirmLock(t) BY <2>1, <1>e, <1>m, <1>p DEF ConfirmLock
  <2>2. CASE ConfirmLoad(t) BY <2>2, <1>e, <1>l, <1>p DEF ConfirmLoad, Done
  <2>3. CASE ConfirmCheck(t) BY <2>3, <1>e, <1>m, <1>p DEF ConfirmCheck, Done
  <2>4. CASE ConfirmConflict(t) BY <2>4, <1>e DEF ConfirmConflict, Done
  <2>5. CASE ConfirmBind(t)
    <3>1. CASE thread' = [thread EXCEPT ![t] =
                          [@ EXCEPT !.pc = "c_claim", !.bound = head.stamp,
                                    !.boundVersions = head.versions]]
      <4> DEFINE new == [thread[t] EXCEPT !.pc = "c_claim",
                           !.bound = head.stamp,
                           !.boundVersions = head.versions]
      <4>1. new.req = q /\ thread[t].pc \in EarlyPc
        BY <1>t, <1>p, <2>5 DEF ThreadState, ConfirmBind
      <4>2. thread' = [thread EXCEPT ![t] = new] BY <1>t, <3>1 DEF ThreadsOK
      <4> HIDE DEF new
      <4>3. QED BY <1>n, <4>1, <4>2
    <3>2. QED BY <2>5, <1>e, <3>1 DEF ConfirmBind, Done
  <2>6. CASE ConfirmClaim(t) BY <2>6, <1>e, <1>m, <1>p DEF ConfirmClaim, Done
  <2>7. CASE ConfirmProbe(t) BY <2>7, <1>m, <1>p DEF ConfirmProbe
  <2>8. CASE ConfirmProbed(t)
    BY <2>8, <1>e, <1>m, <1>p DEF ConfirmProbed, Done
  <2>9. CASE ConfirmOpen(t) BY <2>9, <1>e, <1>m, <1>p DEF ConfirmOpen, Done
  <2>10. CASE ConfirmCommit(t)
    <3>1. \E a : Answer(t, a)
      BY <2>10 DEF ConfirmCommit, CommitReplays, CommitConflicts,
         CommitApplies, Applied
    <3>2. QED BY <1>e, <3>1
  <2>11. ASSUME NEW k, ConfirmFail(t, k) PROVE Proceeds(t)
    <3>1. \E a : Answer(t, a)
      BY <2>11 DEF ConfirmFail, CommitReplays, CommitConflicts,
         CommitRecordsFailure, FailureNoted
    <3>2. QED BY <1>e, <3>1
  <2>12. CASE ConfirmFailNote(t) BY <2>12, <1>e DEF ConfirmFailNote
  <2>13. QED
    BY <1>8, <2>1, <2>2, <2>3, <2>4, <2>5, <2>6, <2>7, <2>8, <2>9, <2>10,
       <2>11, <2>12 DEF ConfirmStep
<1>9. CASE LegacyStep(t)
  <2>1. {"l_load", "l_probe", "l_wait", "l_save", "l_fail", "l_reload",
         "l_write"} \cap EarlyPc = {}
    BY <1>p DEF LegacyPc
  <2>2. CASE LegacyLock(t) BY <2>2, <1>m, <2>1 DEF LegacyLock
  <2>3. CASE LegacyLoad(t) BY <2>3, <1>e, <1>l, <2>1 DEF LegacyLoad, Done
  <2>4. CASE LegacyProbe(t) BY <2>4, <1>m, <2>1 DEF LegacyProbe
  <2>5. CASE LegacyProbed(t) BY <2>5, <1>e, <1>m, <2>1 DEF LegacyProbed, Done
  <2>6. CASE LegacyFail(t) BY <2>6, <1>e DEF LegacyFail, Done
  <2>7. CASE LegacySave(t) BY <2>7, <1>e, <1>m, <2>1 DEF LegacySave, Done
  <2>8. CASE LegacyReload(t) BY <2>8, <1>e, <1>l, <2>1 DEF LegacyReload, Done
  <2>9. CASE LegacyOpen(t) BY <2>9, <1>e DEF LegacyOpen, SaveWithEvent
  <2>10. QED
    BY <1>9, <2>2, <2>3, <2>4, <2>5, <2>6, <2>7, <2>8, <2>9 DEF LegacyStep
<1>10. QED
  BY <1>1, <1>2, <1>3, <1>4, <1>5, <1>6, <1>7, <1>8, <1>9
  DEF ThreadStep, GenericStep

\* The inductive step: a request that is not authorised enters the handlers
\* only while nothing is unknown, and only a restart makes something unknown.
LEMMA ResendInductive ==
  ASSUME ~CliMayRun, AllConfirmsJournaled, HandlerInv, ResendInv, [Next]_vars
  PROVE  ResendInv'
<1>t. ThreadsOK BY DEF HandlerInv, TypeInv
<1>1. ASSUME NEW t \in Thread, Proceeds(t) PROVE ResendInv'
  <2>1. HasUnknown' => HasUnknown BY <1>1 DEF Proceeds, HasUnknown
  <2>2. ASSUME NEW u \in Thread, thread'[u].pc \in EarlyPc
        PROVE  thread[u].pc \in EarlyPc /\ thread'[u].req = thread[u].req
    BY <1>1, <2>2 DEF Proceeds
  <2>3. QED BY <2>1, <2>2 DEF ResendInv, EarlyPc
<1>2. ASSUME NEW t \in Thread, NEW q \in Request, Prepare(t, q)
      PROVE  ResendInv'
  <2>1. HasUnknown' = HasUnknown BY <1>2 DEF Prepare, HasUnknown
  <2>2. CASE UNCHANGED thread BY <2>1, <2>2 DEF ResendInv
  <2>3. CASE Serve(t, q, "dispatch")
    <3> DEFINE new == [IdleThread EXCEPT !.pc = "dispatch", !.req = q]
    <3>1. new.req = q BY DEF IdleThread
    <3>2. thread' = [thread EXCEPT ![t] = new] BY <2>3 DEF Serve
    <3> HIDE DEF new
    <3>3. thread'[t] = new /\ \A u \in Thread \ {t} : thread'[u] = thread[u]
      BY <1>t, <3>2, OnlyThread
    <3>4. ASSUME q.kind = "confirm", ~q.auth PROVE ~HasUnknown
      <4>1. ~Legacy(q) BY <3>4 DEF AllConfirmsJournaled, Legacy
      <4>2. PrepareFresh(t, q) \/ PrepareKnown(t, q)
        BY <1>2, <3>4, <4>1 DEF Prepare, PrepareLegacy
      <4>3. thread'[t] # thread[t]
        <5>1. thread[t].pc = "idle" BY <1>2 DEF Prepare
        <5>2. new.pc = "dispatch" BY DEF new, IdleThread
        <5>3. QED BY <3>3, <5>1, <5>2
      <4>4. QED
        BY <3>4, <4>2, <4>3 DEF PrepareFresh, PrepareKnown, AnswerNow
    <3>5. QED BY <2>1, <3>1, <3>3, <3>4 DEF ResendInv
  <2>4. QED
    BY <1>2, <2>2, <2>3 DEF Prepare, PrepareLegacy, PrepareFresh,
       PrepareKnown, AnswerNow
<1>3. CASE LoopCommit \/ LoopSave \/ UNCHANGED vars
  BY <1>3 DEF LoopCommit, LoopSave, vars, ResendInv, HasUnknown
<1>4. CASE Restart
  <2>1. \A t \in Thread : thread'[t].pc = "idle"
    BY <1>4, IdleThreadOK DEF Restart
  <2>2. QED BY <2>1 DEF ResendInv, PreClaim
<1>5. CASE CliStatus BY <1>5 DEF CliStatus
<1>6. QED
  BY <1>1, <1>2, <1>3, <1>4, <1>5, HandlersProceed DEF Next

\* While the outcome of a remote call is unknown, no client that journals its
\* confirmations sends another one without authorising it: the claim is made
\* under the lock, long after prepare asked, and nothing becomes unknown in
\* between unless the process dies (command_journal.py, prepare).  The CLI,
\* which recovers receipts beside a running engine, is excluded.
THEOREM ResendIsAuthorizedAlways ==
  ~CliMayRun /\ AllConfirmsJournaled => (Spec => ResendIsAuthorized)
<1> SUFFICES ASSUME ~CliMayRun, AllConfirmsJournaled
             PROVE  Spec => ResendIsAuthorized
  OBVIOUS
<1>1. Init => ResendInv
  <2>1. Init => \A t \in Thread : thread[t].pc = "idle"
    BY IdleThreadOK DEF Init
  <2>2. QED BY <2>1 DEF ResendInv, PreClaim
<1>2. HandlerInv /\ ResendInv /\ [Next]_vars => ResendInv'
  BY ResendInductive
<1>3. HandlerInv /\ ResendInv /\ [Next]_vars =>
        [\A t \in Thread : Probes(t) /\ HasUnknown => thread[t].req.auth]_vars
  <2> SUFFICES ASSUME HandlerInv, ResendInv, NEW t \in Thread, Probes(t),
                      HasUnknown
               PROVE  thread[t].req.auth
    OBVIOUS
  <2>1. thread[t].pc \in {"c_probe", "l_probe"} /\ thread[t].req \in Request
    BY DEF Probes, HandlerInv, TypeInv, ThreadsOK
  <2>2. thread[t].pc # "l_probe"
    BY <2>1 DEF HandlerInv, ServeInv, LegacyPc, Legacy, AllConfirmsJournaled
  <2>3. thread[t].req.kind = "confirm"
    BY <2>1, <2>2 DEF HandlerInv, ServeInv, ConfirmPc
  <2>4. QED BY <2>1, <2>2, <2>3 DEF ResendInv
<1>4. QED
  BY HandlerInit, HandlerInductive, <1>1, <1>2, <1>3, PTL
  DEF Spec, ResendIsAuthorized
=============================================================================
