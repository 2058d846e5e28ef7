---------------------------- MODULE Publication ----------------------------
(***************************************************************************)
(* Exporting a research as a ZIP and re-verifying a round it exported:     *)
(* files that become visible by a rename, an authorization row that says   *)
(* which bytes may, and the research row that lists the exports, each      *)
(* written in a transaction of its own.                                    *)
(*                                                                         *)
(* Sources: engine/research/publish.py, engine/export.py,                  *)
(* engine/research/reverify_run.py, engine/research/state_machine.py,      *)
(* engine/research/evidence_window.py, the tables of engine/research/      *)
(* store.py and the two ways engine/main.py saves (_save).                 *)
(*                                                                         *)
(* One research.  A step is one transaction, or what a handler does to     *)
(* the files between two of them.  The loop and the commands that only     *)
(* move the research are single steps: modules RoundLoop and               *)
(* CommandJournal show how they become one.  A file is the number of the   *)
(* build that wrote it.                                                    *)
(***************************************************************************)
EXTENDS Integers, FiniteSets, Sequences

CONSTANTS
    Threads,      \* threads of the HTTP server
    Exports,      \* command ids of exports
    Packs,        \* those that ask for a strategy pack, not for a record
    Journaled,    \* those sent with a command id and an expected revision
    Begins,       \* sources of the first version
    Outcomes,     \* what a round may pass: subsets of Check
    Methods,      \* methods a round is re-verified by
    MaxRounds,    \* bound: rounds the loop commits
    MaxWrites,    \* bound: revisions of the research
    MaxBuilds,    \* bound: ZIP files built
    MaxCrashes,   \* bound: crashes of the process
    Overlap,      \* may a client send a command again while it is in flight
    Rereads       \* may it expect another revision when it sends it again

Status == {"running", "paused", "awaiting", "completed", "ended"}
Source == {"licensed", "unlicensed"}
Check == {"methods", "pit", "coverage", "grade"}
Method == {"builtin", "library"}
Pc == {"idle", "decide", "build", "authorize", "rename", "save"}

ASSUME PublicationAssumption ==
    /\ Packs \subseteq Exports /\ Journaled \subseteq Exports
    /\ "none" \notin Exports
    /\ Begins \subseteq Source /\ Methods \subseteq Method
    /\ Outcomes \subseteq SUBSET Check
    /\ MaxRounds \in Nat \ {0} /\ MaxWrites \in Nat /\ MaxBuilds \in Nat
    /\ MaxCrashes \in Nat
    /\ Overlap \in BOOLEAN /\ Rereads \in BOOLEAN

VARIABLES
    row,        \* the research: state_json of table researches
    updatedAt,  \* its updated_at
    revision,   \* its revision
    receipts,   \* table command_receipt
    auths,      \* table publish_authorization, by created_at
    private,    \* files under export-private
    visible,    \* files under exports
    built,      \* what each build put into its file
    handler,    \* what each thread is doing
    expects,    \* the revision a client expected when it sent a command
    crashes     \* crashes so far

files == <<private, visible, built>>
vars == <<row, updatedAt, revision, receipts, auths, private, visible, built,
          handler, expects, crashes>>

-----------------------------------------------------------------------------
(* Records *)

NoFile == 0
Never == -1     \* no revision: the command was not sent, or is not journaled
RoundNumber == 1..MaxRounds
Build == 1..MaxBuilds

\* A round keeps what it passed, and the source of its frozen prices: the
\* rounds frozen from one source hold the same bytes.
Round == [checks: SUBSET Check, source: Source]
Reverification == [round: RoundNumber, method: Method, passed: BOOLEAN]
Export == [id: Exports, kind: {"pack", "record"}, round: 0..MaxRounds,
           overturned: BOOLEAN]

\* card is the status the research had when it was asked to confirm.
Row == [st: Status, card: Status \cup {"none"}, source: Source,
        round: 0..MaxRounds, rounds: Seq(Round), eligible: BOOLEAN,
        reverified: SUBSET Reverification, audit: SUBSET Reverification,
        exports: SUBSET Export]
NewRow(source) ==
    [st |-> "running", card |-> "none", source |-> source, round |-> 0,
     rounds |-> <<>>, eligible |-> FALSE, reverified |-> {}, audit |-> {},
     exports |-> {}]

\* raw: the file holds prices, not only their fingerprint.
File == [raw: BOOLEAN, source: Source]
Authorization == [id: Exports, print: Build, receipt: Export]

\* out is the row a handler is about to save; keeps: under its old updated_at.
Handler == [pc: Pc, cmd: Exports \cup {"none"}, snap: Row, at: Nat,
            print: {NoFile} \cup Build, out: Row, keeps: BOOLEAN]
IdleHandler(r) == [pc |-> "idle", cmd |-> "none", snap |-> r, at |-> 0,
                   print |-> NoFile, out |-> r, keeps |-> FALSE]
Ended(t) == handler' = [handler EXCEPT ![t] = IdleHandler(NewRow("licensed"))]
Goto(t, pc) == handler' = [handler EXCEPT ![t].pc = pc]

AuthIds == {auths[i].id : i \in DOMAIN auths}
ExportIds(r) == {e.id : e \in r.exports}

-----------------------------------------------------------------------------
(* What makes a research a strategy pack *)

AllCurrentReverifiesPassed(r) ==
    \A v \in r.reverified : v.round = r.round => v.passed

\* strategy_pack_eligibility: the five handoff checks, coverage and grade.
Eligible(r) ==
    /\ r.st = "completed"
    /\ r.card = "none"
    /\ r.round # 0
    /\ {"methods", "pit"} \subseteq r.rounds[r.round].checks
    /\ AllCurrentReverifiesPassed(r)
    /\ {"coverage", "grade"} \subseteq r.rounds[r.round].checks

\* Slip: only the hash of the prices is compared.
DependsOnSource(r, e, v) ==
    /\ e.kind = "pack"
    /\ v.method = "builtin"
    /\ e.round # v.round
    /\ r.rounds[e.round].source = r.rounds[v.round].source

\* _export_dependency.  A re-verification by a built-in method carries the
\* hash of the frozen prices; one by a library method carries the digest of
\* another thing, which no export ever has.
Depends(r, e, v) ==
    /\ e.kind = "pack"
    /\ v.method = "builtin"
    /\ \/ e.round = v.round
       \/ r.rounds[e.round].source = r.rounds[v.round].source

\* Slip: the flag is cleared by any failure.
ClearsAlways(r, v) ==
    [r EXCEPT
       !.exports = {[e EXCEPT !.overturned = @ \/ Depends(r, e, v)] : e \in @},
       !.eligible = FALSE]

MarkOverturned(r, v) ==
    [r EXCEPT
       !.exports = {[e EXCEPT !.overturned = @ \/ Depends(r, e, v)] : e \in @},
       !.eligible = @ /\ v.round # r.round]

-----------------------------------------------------------------------------
(* The loop and the user move the research *)

Writes == revision < MaxWrites
Written(new) ==
    /\ row' = new
    /\ revision' = revision + 1
    /\ updatedAt' = revision + 1

\* The loop commits a round: it completes the research when its methods
\* pass, and may when its search has no more to try.
CommitRound ==
    /\ Writes
    /\ row.st = "running"
    /\ Len(row.rounds) < MaxRounds
    /\ \E checks \in Outcomes, st \in {"running", "completed", "ended"} :
          /\ "methods" \in checks => st = "completed"
          /\ Written([row EXCEPT
               !.rounds = Append(@, [checks |-> checks, source |-> row.source]),
               !.round = Len(row.rounds) + 1,
               !.st = st,
               !.eligible = @ \/ st = "completed"])
    /\ UNCHANGED <<receipts, auths, files, handler, expects, crashes>>

\* It stops the search without one.
StopSearch ==
    /\ Writes
    /\ row.st = "running"
    /\ \E st \in {"ended", "completed"} :
          Written([row EXCEPT !.st = st, !.eligible = @ \/ st = "completed"])
    /\ UNCHANGED <<receipts, auths, files, handler, expects, crashes>>

\* Slip: a new version keeps the round of the version before.
OpenedOnRound(r, source) ==
    [r EXCEPT !.st = "running", !.card = "none", !.source = source,
              !.eligible = FALSE, !.reverified = {}]

\* _open_version: it has no rounds and no re-verifications yet.
Opened(r, source) ==
    [r EXCEPT !.st = "running", !.card = "none", !.source = source,
              !.round = 0, !.eligible = FALSE, !.reverified = {}]

\* assert_can_manual_continue: only a round that did not pass is gone on from.
MayContinue(r) ==
    r.round # 0 /\ "methods" \notin r.rounds[r.round].checks

\* transition, for the events that re-verify nothing.
Moved(r) ==
    CASE r.st = "running" -> {[r EXCEPT !.st = "paused"]}
      [] r.st = "paused" -> {[r EXCEPT !.st = "running"],
                             Opened(r, r.source)}
      [] r.st = "completed" ->
            {Opened(r, r.source)} \cup
            (IF MayContinue(r)
             THEN {[r EXCEPT !.st = "running", !.eligible = FALSE]} ELSE {})
      [] r.st = "ended" -> {Opened(r, r.source)}
      [] r.st = "awaiting" -> {[r EXCEPT !.st = r.card, !.card = "none"],
                               [r EXCEPT !.st = "paused", !.card = "none"]}
                              \cup {Opened(r, s) : s \in Source}

RequestConfirm(r) ==
    IF r.st = "awaiting" THEN {}
    ELSE {[r EXCEPT !.st = "awaiting", !.card = r.st]}

MoveResearch ==
    /\ Writes
    /\ \E new \in Moved(row) \cup RequestConfirm(row) : Written(new)
    /\ UNCHANGED <<receipts, auths, files, handler, expects, crashes>>

-----------------------------------------------------------------------------
(* publish_export *)

InFlight(c) == \E t \in Threads : handler[t].pc # "idle" /\ handler[t].cmd = c

\* A client without an envelope gets a command id of its own each time.
Sends(c) ==
    /\ receipts[c] = "none"
    /\ c \notin Journaled => expects[c] = Never
    /\ Overlap \/ ~InFlight(c)

\* journal.prepare lets the command run, and the research is loaded.
StartExport(t, c) ==
    /\ handler[t].pc = "idle"
    /\ Sends(c)
    /\ \E again \in {FALSE, Rereads} :
          expects' = [expects EXCEPT ![c] = IF @ = Never \/ again
                                            THEN revision ELSE @]
    /\ handler' = [handler EXCEPT ![t] =
                     [IdleHandler(row) EXCEPT !.pc = "decide", !.cmd = c,
                                              !.at = updatedAt]]
    /\ UNCHANGED <<row, updatedAt, revision, receipts, auths, files, crashes>>

\* _refuse saves the research as it was loaded, under the same updated_at.
Refuse(t) ==
    LET h == handler[t] IN
    /\ h.pc = "decide"
    /\ h.cmd \in Packs
    /\ ~Eligible(h.snap)
    /\ IF updatedAt = h.at
       THEN Writes /\ row' = h.snap /\ revision' = revision + 1
       ELSE UNCHANGED <<row, revision>>
    /\ Ended(t)
    /\ UNCHANGED <<updatedAt, receipts, auths, files, expects, crashes>>

Allowed(t) == handler[t].cmd \notin Packs \/ Eligible(handler[t].snap)

\* build_strategy_pack: the frozen prices of the round, or, when the source
\* of the research forbids it, their fingerprint.
PackFile(r) == [raw |-> r.source = "licensed",
                source |-> r.rounds[r.round].source]

\* build_research_record_pack: never the prices.
RecordFile(r) == [raw |-> FALSE, source |-> r.source]

\* Slip: a pack that was authorized is built again.
BuildsAgain(t) ==
    LET h == handler[t] IN
    /\ h.pc = "decide"
    /\ Allowed(t)
    /\ Len(built) < MaxBuilds
    /\ private' = [private EXCEPT ![h.cmd] = Len(built) + 1]
    /\ built' = Append(built, [raw |-> FALSE, source |-> "licensed"])
    /\ Goto(t, "authorize")
    /\ UNCHANGED <<row, updatedAt, revision, receipts, auths, visible, expects,
                   crashes>>

\* The ZIP is built next to the visible ones, not among them.
BuildPack(t) ==
    LET h == handler[t] IN
    /\ h.pc = "decide"
    /\ Allowed(t)
    /\ h.cmd \notin AuthIds
    /\ Len(built) < MaxBuilds
    /\ private' = [private EXCEPT ![h.cmd] = Len(built) + 1]
    /\ built' = Append(built, IF h.cmd \in Packs THEN PackFile(h.snap)
                                                 ELSE RecordFile(h.snap))
    /\ Goto(t, "authorize")
    /\ UNCHANGED <<row, updatedAt, revision, receipts, auths, visible, expects,
                   crashes>>

Record(t) == [id |-> handler[t].cmd,
              kind |-> IF handler[t].cmd \in Packs THEN "pack" ELSE "record",
              round |-> handler[t].snap.round, overturned |-> FALSE]

\* Slip: the file becomes visible first, and is authorized then.
ShowsFirst(t) ==
    LET h == handler[t] IN
    /\ h.pc = "authorize"
    /\ visible' = [visible EXCEPT ![h.cmd] = private[h.cmd]]
    /\ handler' = [handler EXCEPT ![t].pc = "rename",
                                  ![t].print = private[h.cmd]]
    /\ UNCHANGED <<row, updatedAt, revision, receipts, auths, private, built,
                   expects, crashes>>

\* The hash of the private file and insert_publish_authorization, whose
\* primary key refuses a second row.
Authorize(t) ==
    LET h == handler[t]
        file == private[h.cmd]
    IN
    /\ h.pc = "authorize"
    /\ IF file = NoFile \/ h.cmd \in AuthIds
       THEN Ended(t) /\ UNCHANGED auths
       ELSE /\ auths' = Append(auths, [id |-> h.cmd, print |-> file,
                                       receipt |-> Record(t)])
            /\ handler' = [handler EXCEPT ![t].pc = "rename",
                                          ![t].print = file]
    /\ UNCHANGED <<row, updatedAt, revision, receipts, files, expects, crashes>>

\* Slip: the export is listed, and its file left private.
LeavesPrivate(t) ==
    LET h == handler[t] IN
    /\ h.pc = "rename"
    /\ handler' = [handler EXCEPT
          ![t].pc = "save", ![t].keeps = FALSE,
          ![t].out = [h.snap EXCEPT !.exports = @ \cup {Record(t)}]]
    /\ UNCHANGED <<row, updatedAt, revision, receipts, auths, files, expects,
                   crashes>>

\* os.replace, and the hash of what it made visible.
Rename(t) ==
    LET h == handler[t]
        file == private[h.cmd]
    IN
    /\ h.pc = "rename"
    /\ IF file = NoFile
       THEN Ended(t) /\ UNCHANGED files
       ELSE /\ private' = [private EXCEPT ![h.cmd] = NoFile]
            /\ visible' = [visible EXCEPT ![h.cmd] = file]
            /\ UNCHANGED built
            /\ IF file # h.print THEN Ended(t)
               ELSE handler' = [handler EXCEPT
                      ![t].pc = "save", ![t].keeps = FALSE,
                      ![t].out = [h.snap EXCEPT !.exports = @ \cup {Record(t)}]]
    /\ UNCHANGED <<row, updatedAt, revision, receipts, auths, expects, crashes>>

Missing(r, done) == {a.receipt : a \in {b \in done : b.id \notin ExportIds(r)}}

\* An authorization whose bytes are visible, or can be made so.
Restorable(a) == a.print \in {visible[a.id], private[a.id]}

\* recover_publish: the authorizations in order, up to the first whose bytes
\* are not found.  The research keeps its updated_at.
Recover(t) ==
    LET h == handler[t]
        Intact(i) == \A j \in 1..i : Restorable(auths[j])
        done == {auths[i] : i \in {j \in DOMAIN auths : Intact(j)}}
        moved == {a.id : a \in {b \in done : visible[b.id] # b.print}}
        lost == Missing(h.snap, done)
    IN
    /\ h.pc = "decide"
    /\ Allowed(t)
    /\ h.cmd \in AuthIds
    /\ visible' = [c \in Exports |-> IF c \in moved THEN private[c]
                                                    ELSE visible[c]]
    /\ private' = [c \in Exports |-> IF c \in moved THEN NoFile
                                                    ELSE private[c]]
    /\ IF Intact(Len(auths)) /\ lost # {}
       THEN handler' = [handler EXCEPT
              ![t].pc = "save", ![t].keeps = TRUE,
              ![t].out = [h.snap EXCEPT !.exports = @ \cup lost]]
       ELSE Ended(t)
    /\ UNCHANGED <<row, updatedAt, revision, receipts, auths, built, expects,
                   crashes>>

-----------------------------------------------------------------------------
(* reverify_round *)

\* _commit: a failure marks the exports; transition takes a pass, and the
\* failure of the current round, in a completed research only.
Reverified(r, v) ==
    LET with == [r EXCEPT !.reverified = @ \cup {v}, !.audit = @ \cup {v}]
    IN  IF v.passed THEN with ELSE MarkOverturned(with, v)

Reverify(t) ==
    /\ handler[t].pc = "idle"
    /\ \E v \in {x \in Reverification : x.method \in Methods} :
          /\ v.round \in DOMAIN row.rounds
          /\ v.passed \/ v.round = row.round => row.st = "completed"
          /\ handler' = [handler EXCEPT ![t] =
                [IdleHandler(row) EXCEPT !.pc = "save", !.at = updatedAt,
                                         !.out = Reverified(row, v)]]
    /\ UNCHANGED <<row, updatedAt, revision, receipts, auths, files, expects,
                   crashes>>

-----------------------------------------------------------------------------
(* _save *)

\* Slip: a command is saved whatever the research has become.
FitsAnyway(t) == TRUE

\* save_with_event compares updated_at; journal.commit the revision as well.
Fits(t) ==
    /\ updatedAt = handler[t].at
    /\ handler[t].cmd \in Journaled => revision = expects[handler[t].cmd]

Save(t) ==
    LET h == handler[t] IN
    /\ h.pc = "save"
    /\ h.cmd \in Exports => receipts[h.cmd] = "none"
    /\ Fits(t)
    /\ Writes
    /\ row' = h.out
    /\ revision' = revision + 1
    /\ updatedAt' = IF h.keeps THEN updatedAt ELSE revision + 1
    /\ receipts' = IF h.cmd \in Journaled
                   THEN [receipts EXCEPT ![h.cmd] = "committed"] ELSE receipts
    /\ Ended(t)
    /\ UNCHANGED <<auths, files, expects, crashes>>

\* ConcurrentWrite, or a conflict the journal remembers; or the journal
\* already has the answer.
SaveLost(t) ==
    LET h == handler[t] IN
    /\ h.pc = "save"
    /\ \/ ~Fits(t)
       \/ h.cmd \in Exports /\ receipts[h.cmd] # "none"
    /\ receipts' = IF h.cmd \in Journaled /\ receipts[h.cmd] = "none"
                   THEN [receipts EXCEPT ![h.cmd] = "revision_conflict"]
                   ELSE receipts
    /\ Ended(t)
    /\ UNCHANGED <<row, updatedAt, revision, auths, files, expects, crashes>>

-----------------------------------------------------------------------------
(* The specification *)

\* The search of the first version has just committed its first round.
Init ==
    /\ \E source \in Begins, checks \in Outcomes :
          row = [NewRow(source) EXCEPT
                   !.rounds = <<[checks |-> checks, source |-> source]>>,
                   !.round = 1,
                   !.st = "completed",
                   !.eligible = TRUE]
    /\ updatedAt = 0 /\ revision = 0
    /\ receipts = [c \in Exports |-> "none"]
    /\ auths = <<>>
    /\ private = [c \in Exports |-> NoFile]
    /\ visible = [c \in Exports |-> NoFile]
    /\ built = <<>>
    /\ handler = [t \in Threads |-> IdleHandler(NewRow("licensed"))]
    /\ expects = [c \in Exports |-> Never]
    /\ crashes = 0

\* The process dies; tables and files stay.
Crash ==
    /\ crashes < MaxCrashes
    /\ crashes' = crashes + 1
    /\ handler' = [t \in Threads |-> IdleHandler(NewRow("licensed"))]
    /\ UNCHANGED <<row, updatedAt, revision, receipts, auths, files, expects>>

Export_(t) ==
    \/ \E c \in Exports : StartExport(t, c)
    \/ Refuse(t)
    \/ BuildPack(t)
    \/ Authorize(t)
    \/ Rename(t)
    \/ Recover(t)
    \/ Save(t)
    \/ SaveLost(t)

Next ==
    \/ CommitRound
    \/ StopSearch
    \/ MoveResearch
    \/ \E t \in Threads : Export_(t) \/ Reverify(t)
    \/ Crash

Spec == Init /\ [][Next]_vars

-----------------------------------------------------------------------------
(* Properties *)

\* Every variable holds a value of its type, as in Research, the two tables
\* and the local variables of publish_export.
TypeOK ==
    /\ row \in Row
    /\ updatedAt \in Nat /\ revision \in Nat
    /\ receipts \in [Exports -> {"none", "committed", "revision_conflict"}]
    /\ auths \in Seq(Authorization)
    /\ private \in [Exports -> {NoFile} \cup Build]
    /\ visible \in [Exports -> {NoFile} \cup Build]
    /\ built \in Seq(File)
    /\ handler \in [Threads -> Handler]
    /\ expects \in [Exports -> {Never} \cup Nat]
    /\ crashes \in 0..MaxCrashes

\* An export that the research lists was authorized, and the bytes that were
\* authorized are the visible ones: publish.py saves the row after the
\* rename, and restores no row without its file.
ListedIsVisible ==
    \A e \in row.exports : \E a \in {auths[i] : i \in DOMAIN auths} :
        a.id = e.id /\ a.receipt.round = e.round /\ visible[e.id] = a.print

\* No ZIP is in the visible directory without the row that authorizes its
\* bytes: publish.py, "A ZIP without that row is not a pack".
VisibleIsAuthorized ==
    \A c \in Exports : visible[c] # NoFile =>
        \E i \in DOMAIN auths : auths[i].id = c /\ auths[i].print = visible[c]

\* What was authorized can always be published, wherever the process died:
\* recover_publish finds the bytes, visible or private.  One that cannot
\* blocks the recovery of every other export of the research.
AuthorizedIsRecoverable == \A i \in DOMAIN auths : Restorable(auths[i])

\* A strategy pack with prices holds prices of a licensed source only,
\* though the source of a research may change (_uses_unlicensed_source asks
\* the research, the prices were frozen with the round).
NoUnlicensedPrices ==
    \A i \in DOMAIN built : built[i].raw => built[i].source = "licensed"

\* A research that a strategy pack could be made of is flagged for export:
\* export_eligible, set and cleared by events of state_machine.transition,
\* against strategy_pack_eligibility, which looks at the whole research.
FlagCoversPack == Eligible(row) => row.eligible

\* An export once marked stays listed and marked: no save of a command that
\* read the research before, and no recovery, takes the mark back.
OverturnedForGood ==
    [][\A e \in row.exports : e.overturned =>
         /\ e.id \in ExportIds(row')
         /\ \A f \in row'.exports : f.id = e.id => f.overturned]_vars

\* A strategy pack that its own command saves is eligible then and its round
\* the conclusion, though it was decided, built and authorized steps before.
PackWasEligible ==
    [][\A e \in row'.exports, t \in Threads :
         /\ e.kind = "pack" /\ e.id \notin ExportIds(row)
         /\ handler[t].pc = "save"
         /\ handler[t].cmd = e.id /\ handler'[t].cmd # e.id
         => Eligible(row) /\ e.round = row.round]_vars

\* A failed re-verification by a built-in method marks every pack of its round
\* that is listed when the failure is, whatever was listed since it was loaded
\* (mark_exports_overturned).
FailureMarks ==
    [][\A v \in row'.audit \ row.audit, e \in row'.exports :
         e.kind = "pack" /\ v.method = "builtin" /\ ~v.passed
         /\ e.round = v.round => e.overturned]_vars

\* The same for every client and every way an export is listed: a pack of a
\* round that has failed is marked (export.py:306).
FailedPackOverturned ==
    \A e \in row.exports, v \in row.audit :
        e.kind = "pack" /\ v.method = "builtin" /\ ~v.passed
        /\ e.round = v.round => e.overturned

\* An export whose command the journal answered stays listed.
ReceiptMeansListed ==
    \A c \in Exports : receipts[c] = "committed" => c \in ExportIds(row)

\* The list, the files and the authorizations of a research agree.
ExportsAgree == TypeOK /\ ListedIsVisible /\ VisibleIsAuthorized /\ FlagCoversPack

\* No command lists a pack that is not eligible, leaves one of a failed round
\* unmarked, or takes a mark back.
PackStepsHold == PackWasEligible /\ FailureMarks /\ OverturnedForGood
=============================================================================
