-------------------------- MODULE CandidateSearch --------------------------
(***************************************************************************)
(* The search for the next candidate of one research with a frozen         *)
(* candidate policy (engine/research/candidates.py), run by the ticks of   *)
(* the worker (DefaultRoundBuilder and ResearchLoop in research/loop.py)    *)
(* over the input frozen for each version (research/frozen_input.py).       *)
(*                                                                         *)
(* A tick loads the research, freezes or reads the panel of the version,   *)
(* plans one candidate, simulates it, marks its plan executed, reviews it, *)
(* records the attempt and commits the round.  Every write of the tick to  *)
(* the research is a compare-and-set on updated_at, so a write of the user *)
(* in between ends the tick at its next save; the engine may also die       *)
(* between any two of these steps.  What the steps leave behind differs:    *)
(* the panel, the plan and the attempt stay, the tick's memory does not.   *)
(***************************************************************************)
EXTENDS Naturals, Sequences, FiniteSets

CONSTANTS
    Defaults, DefaultStart,     \* lookbacks of the software's default policy
    Entries, StartEntry,        \* its entry values and the one it starts with
    SampleDays,                 \* days of data, 0 when the window is not known
    Named,                      \* the lookback the thesis names, as a set
    OutOfRange,                 \* points a model may ask for outside of them
    MaxRounds,                  \* policy.max_rounds
    MaxVersions,                \* bound: the first is open at Init
    Panels,                     \* contents the data source may answer with
    Replies,                    \* answers of the suggestion model, besides points
    Opines,                     \* is an opinion model configured
    MaxErrors,                  \* failed ticks in a row before the pause
    MaxCrashes, MaxWrites, MaxDamages \* bounds of the environment

NoPanel == "none"
NoPoint == <<0, 0>>
Versions == 1 .. MaxVersions

\* fit_candidate_policy: the defaults and the named value the sample supports,
\* or the smallest default when it supports none.
Supported(l) == 2 <= l /\ (SampleDays = 0 \/ l < SampleDays)
Smallest == CHOOSE l \in Defaults : \A m \in Defaults : l <= m
Fitting  == {l \in Defaults \cup Named : Supported(l)}
Lookbacks == IF Fitting = {} THEN {Smallest} ELSE Fitting

\* It starts with the named value, with the default, or with the one nearest.
Apart(l) == IF l < DefaultStart THEN DefaultStart - l ELSE l - DefaultStart
StartLookback ==
    CASE Named \cap Lookbacks # {} -> CHOOSE l \in Named \cap Lookbacks : TRUE
      [] Named \cap Lookbacks = {} ->
           CHOOSE l \in Lookbacks : \A m \in Lookbacks :
               Apart(l) < Apart(m) \/ (Apart(l) = Apart(m) /\ l <= m)

Grid  == Lookbacks \X Entries
Start == <<StartLookback, StartEntry>>

ASSUME PolicyAssumption ==
    /\ Defaults \subseteq Nat \ {0} /\ Defaults # {} /\ DefaultStart \in Defaults
    /\ Entries \subseteq Nat \ {0} /\ StartEntry \in Entries
    /\ IsFiniteSet(Defaults) /\ IsFiniteSet(Entries)
    /\ SampleDays \in Nat
    /\ Named \subseteq Nat \ {0} /\ IsFiniteSet(Named) /\ Cardinality(Named) <= 1
    /\ OutOfRange \subseteq (Nat \X Nat) \ (Grid \cup {NoPoint})
    /\ MaxRounds \in Nat \ {0}
    /\ MaxErrors \in Nat \ {0}
    /\ NoPanel \notin Panels /\ "other" \notin Panels
    /\ MaxVersions \in Nat \ {0}
    /\ Replies \subseteq {"unset", "failure", "confirm", "illegal"}

VARIABLES
    row,       \* the research: status, versions with their rounds, stop reason
    executed,  \* candidate_plan rows with status executed, by version
    reviewed,  \* review_attempt rows that passed, in order of the round
    panel,     \* the frozen files of each version
    live,      \* what the data source answers now
    memory,    \* _input_hash of the builder, in the memory of the process
    tick,      \* the tick in progress
    moved,     \* another writer changed the row since the last save of the tick
    used       \* how much of each bound was used

vars == <<row, executed, reviewed, panel, live, memory, tick, moved, used>>

Points   == Grid \cup OutOfRange
Results  == {"pass", "cost", "fail"}
Inputs   == Panels \cup {NoPanel, "other"}
Rounds   == [point : Grid, input : Panels, result : Results]
Statuses == {"RUNNING", "PAUSED", "AWAITING_CONFIRM", "COMPLETED", "ENDED"}
Stops    == {"", "all_pass", "round_cap", "exhausted", "time_budget",
             "model_failure", "needs_confirm"}
Identities   == {"approved", "patched"}
Fingerprints == [point : Points, identity : Identities, input : Inputs]
NoPrint  == [point |-> NoPoint, identity |-> "approved", input |-> NoPanel]

Idle == [pc |-> "idle", version |-> 1, late |-> FALSE, point |-> NoPoint,
         input |-> NoPanel, result |-> "fail", stop |-> ""]

----------------------------------------------------------------------------
(* Reading the policy and the history.                                     *)

\* The order of _grid: the start first, the rest by lookback, then entry.
Before(p, q) ==
    \/ p = Start /\ q # Start
    \/ /\ q # Start
       /\ \/ p[1] < q[1]
          \/ p[1] = q[1] /\ p[2] < q[2]
First(S) == CHOOSE p \in S : \A q \in S \ {p} : Before(p, q)

\* Sorted by value alone, as the pool of a failed cost check is.
Lesser(p, q) == p[1] < q[1] \/ (p[1] = q[1] /\ p[2] < q[2])
Lowest(S) == CHOOSE p \in S : \A q \in S \ {p} : Lesser(p, q)

\* _materialize_spec: what a version fixes besides the two parameters.
Definition(v) == row.identity[v]

\* candidate_fingerprint: the parameters, the definition of the version and
\* the input.  The attempt, the round and the explanation are not part of it.
Fingerprint(p, v, input) ==
    [point |-> p, identity |-> Definition(v), input |-> input]

\* tried_fingerprints: the rounds of every version, taken with the input in
\* use now, and the executed plans of this version.
Tried(v, rounds, input) ==
    LET older == UNION {{Fingerprint(rounds[w][i].point, w, input)
                         : i \in DOMAIN rounds[w]} : w \in Versions}
    IN  older \cup executed[v]

LowerTurnover(p, last) == p[1] > last[1] \/ (p[1] = last[1] /\ p[2] > last[2])

CostFailed(hist) == hist # << >> /\ hist[Len(hist)].result = "cost"

\* Slip: the turnover must always fall, whatever failed.
AlwaysLower(v, rounds, input) ==
    {p \in Grid :
        /\ Fingerprint(p, v, input) \notin Tried(v, rounds, input)
        /\ rounds[v] # << >> =>
               LowerTurnover(p, rounds[v][Len(rounds[v])].point)}

\* The points the rule allows next: not tried, and below the turnover of the
\* last round when its cost check failed.
Open(v, rounds, input) ==
    {p \in Grid :
        /\ Fingerprint(p, v, input) \notin Tried(v, rounds, input)
        /\ CostFailed(rounds[v]) =>
               LowerTurnover(p, rounds[v][Len(rounds[v])].point)}

\* _next_deterministic, for a non-empty set of open points.
NextPoint(open, hist) ==
    LET longer == {p \in open : p[1] > hist[Len(hist)].point[1]}
    IN  IF CostFailed(hist)
        THEN Lowest(IF longer # {} THEN longer ELSE open)
        ELSE First(open)

\* plan_candidate stops at the round cap of the policy or of the trial budget.
Cap == IF MaxRounds < row.budget THEN MaxRounds ELSE row.budget

----------------------------------------------------------------------------
(* A tick: its saves, its failures and its end.                            *)

Init ==
    /\ row = [status |-> "RUNNING", version |-> 1,
              rounds |-> [v \in Versions |-> << >>],
              identity |-> [v \in Versions |-> "approved"],
              stop |-> "", budget |-> MaxRounds, winner |-> NoPrint,
              late |-> FALSE, failed |-> [why |-> "", times |-> 0]]
    /\ executed = [v \in Versions |-> {}]
    /\ reviewed = [v \in Versions |-> << >>]
    /\ panel = [v \in Versions |-> [bytes |-> NoPanel, sum |-> FALSE,
                                    whole |-> TRUE, corrupt |-> FALSE]]
    /\ live \in Panels
    /\ memory = NoPanel
    /\ tick = Idle
    /\ moved = FALSE
    /\ used = [crash |-> 0, write |-> 0, damage |-> 0]

Files == <<executed, reviewed, panel>>
World == <<live, used>>

\* apply_run_failure: the error of a tick is stored on a research that still
\* runs, which pauses when the same one came MaxErrors times in a row.
FailTick(why) ==
    /\ LET times == IF row.failed.why = why THEN row.failed.times + 1 ELSE 1
       IN  row' = IF row.status # "RUNNING" THEN row
                  ELSE [row EXCEPT !.failed = [why |-> why, times |-> times],
                                   !.status = IF times >= MaxErrors
                                              THEN "PAUSED" ELSE @]
    /\ tick' = Idle
    /\ moved' = FALSE

\* finish: the row of the tick is stored if nobody else wrote it meanwhile.
\* A lost race returns the row as it is.
Finish(result) ==
    /\ row' = IF moved THEN row ELSE [result EXCEPT !.failed = [why |-> "", times |-> 0]]
    /\ tick' = Idle
    /\ moved' = FALSE

\* Slip: an attempt that passed in an earlier round is taken up again.
TakesAnyAttempt ==
    /\ tick.pc = "idle" /\ row.status = "RUNNING"
    /\ LET v == row.version
           n == Len(reviewed[v])
           base == [Idle EXCEPT !.version = v, !.late = row.late]
       IN  IF n > 0
           THEN tick' = [base EXCEPT !.pc = "decide",
                                     !.point = reviewed[v][n].point,
                                     !.input = reviewed[v][n].input,
                                     !.result = reviewed[v][n].result]
           ELSE tick' = [base EXCEPT !.pc = "gather"]
    /\ moved' = FALSE
    /\ UNCHANGED <<row, memory, Files, World>>

\* The tick loads the row.  An attempt that passed its review and was not
\* committed is taken up again, without building anything.
TickStarts ==
    /\ tick.pc = "idle" /\ row.status = "RUNNING"
    /\ LET v == row.version
           n == Len(row.rounds[v]) + 1
           base == [Idle EXCEPT !.version = v, !.late = row.late]
       IN  IF n <= Len(reviewed[v])
           THEN tick' = [base EXCEPT !.pc = "decide",
                                     !.point = reviewed[v][n].point,
                                     !.input = reviewed[v][n].input,
                                     !.result = reviewed[v][n].result]
           ELSE tick' = [base EXCEPT !.pc = "gather"]
    /\ moved' = FALSE
    /\ UNCHANGED <<row, memory, Files, World>>

\* _read_frozen: a damaged file is not loaded, with or without its hash.
Readable(v) == panel[v].bytes # NoPanel /\ panel[v].whole

\* A file that is gone or damaged while its hash is there, or damaged in a way
\* that is not its compression, is an error.
Unreadable(v) == ~Readable(v) /\ (panel[v].sum \/ panel[v].bytes # NoPanel)

\* The panel of a version as fetched from the source, after a damaged one was
\* moved aside.
Fetched(v) == [bytes |-> live, sum |-> FALSE, whole |-> TRUE,
               corrupt |-> panel[v].corrupt \/ panel[v].bytes # NoPanel]

\* Slip: the panel is fetched whenever the source answers.
FetchesAgain ==
    /\ tick.pc = "gather"
    /\ \/ moved /\ FailTick("lost") /\ UNCHANGED panel
       \/ /\ ~moved
          /\ panel' = [panel EXCEPT ![tick.version].bytes = live]
          /\ tick' = [tick EXCEPT !.pc = "sum", !.input = live]
          /\ UNCHANGED <<row, moved>>
    /\ UNCHANGED <<executed, reviewed, memory, World>>

\* The GATHER save and ensure_frozen_version_input.  A panel that is there is
\* read, without a look at its hash when there is none.
Gather ==
    /\ tick.pc = "gather"
    /\ LET v == tick.version
       IN  \/ /\ moved
              /\ FailTick("lost") /\ UNCHANGED panel
           \/ /\ ~moved /\ Unreadable(v)
              /\ FailTick("unreadable") /\ UNCHANGED panel
           \/ /\ ~moved /\ Readable(v)
              /\ tick' = [tick EXCEPT !.pc = "plan", !.input = panel[v].bytes]
              /\ UNCHANGED <<row, moved, panel>>
           \/ /\ ~moved /\ ~Readable(v) /\ ~panel[v].sum
              /\ panel' = [panel EXCEPT ![v] = Fetched(v)]
              /\ tick' = [tick EXCEPT !.pc = "sum", !.input = live]
              /\ UNCHANGED <<row, moved>>
    /\ UNCHANGED <<executed, reviewed, memory, World>>

\* _write_frozen replaces the panel first and its hash after it.
WriteHash ==
    /\ tick.pc = "sum"
    /\ panel' = [panel EXCEPT ![tick.version].sum = TRUE]
    /\ tick' = [tick EXCEPT !.pc = "plan"]
    /\ UNCHANGED <<row, executed, reviewed, memory, moved, World>>

----------------------------------------------------------------------------
(* Planning.                                                               *)

Stopped(reason) == [tick EXCEPT !.pc = "stop", !.stop = reason]
Chosen(p) == [tick EXCEPT !.pc = "simulate", !.point = p]

\* SettingsCandidateSuggester.suggest: what the model may answer.
Suggestions == [answer : Replies, point : {NoPoint}] \cup
    (IF Replies = {"unset"} THEN {} ELSE [answer : {"point"}, point : Points])

\* Slip: a suggestion is only compared with what was tried.
AcceptsNew(p, v, rounds, input) ==
    Fingerprint(p, v, input) \notin Tried(v, rounds, input)

\* screen_suggestion lets a point of the model through when the policy allows
\* it, it was not tried, and it lowers the turnover after a failed cost check.
Accepted(p, v, rounds, input) ==
    /\ p \in Grid
    /\ p \in Open(v, rounds, input)

\* _plan_after_freeze and plan_candidate without a model: what was tried is
\* taken with the input in use, and the next point of the grid is proposed.
PlanAfterFreeze(v, rounds, input) ==
    LET open == Open(v, rounds, input)
    IN  CASE Len(rounds[v]) >= Cap -> [stop |-> "round_cap", point |-> NoPoint]
          [] Len(rounds[v]) < Cap /\ open = {} ->
               [stop |-> "exhausted", point |-> NoPoint]
          [] Len(rounds[v]) < Cap /\ open # {} ->
               [stop |-> "", point |-> NextPoint(open, rounds[v])]

\* plan_candidate, without a review to answer: the time, the cap, the
\* suggestion of the model, and then the next of the grid.
Plan ==
    /\ tick.pc = "plan"
    /\ memory' = tick.input
    /\ LET v == tick.version
           plan == PlanAfterFreeze(v, row.rounds, tick.input)
           fallback == IF plan.stop # "" THEN Stopped(plan.stop)
                       ELSE Chosen(plan.point)
       IN  \/ tick.late /\ tick' = Stopped("time_budget")
           \/ /\ ~tick.late /\ Len(row.rounds[v]) >= Cap
              /\ tick' = fallback
           \/ /\ ~tick.late /\ Len(row.rounds[v]) < Cap
              /\ \E reply \in Suggestions :
                   \/ /\ reply.answer = "failure"
                      /\ tick' = Stopped("model_failure")
                   \/ /\ reply.answer = "confirm"
                      /\ tick' = Stopped("needs_confirm")
                   \/ /\ reply.answer \in {"unset", "illegal"}
                      /\ tick' = fallback
                   \/ /\ reply.answer = "point"
                      /\ tick' = IF Accepted(reply.point, v, row.rounds, tick.input)
                                 THEN Chosen(reply.point) ELSE fallback
    /\ UNCHANGED <<row, Files, moved, World>>

\* stop_with: a model that failed pauses the research, a change that needs a
\* person asks on a card (or pauses while there is no round to explain it),
\* and every other reason ends the search.
StopWith ==
    /\ tick.pc = "stop"
    /\ LET status == CASE tick.stop = "model_failure" -> "PAUSED"
                       [] tick.stop = "needs_confirm" ->
                            IF row.rounds[tick.version] = << >>
                            THEN "PAUSED" ELSE "AWAITING_CONFIRM"
                       [] tick.stop = "time_budget" -> "ENDED"
                       [] OTHER -> "COMPLETED"
       IN  Finish([row EXCEPT !.status = status, !.stop = tick.stop])
    /\ UNCHANGED <<memory, Files, World>>

----------------------------------------------------------------------------
(* Simulating, reviewing and committing.                                   *)

\* The SPECIFY and SIMULATE saves, then the simulation and its verification;
\* the plan is marked executed after it.
Simulate ==
    /\ tick.pc = "simulate"
    /\ \/ moved /\ FailTick("lost")
       \/ /\ ~moved
          /\ \E r \in Results :
               tick' = [tick EXCEPT !.pc = "mark", !.result = r]
          /\ UNCHANGED <<row, moved>>
    /\ UNCHANGED <<memory, Files, World>>

MarkExecuted ==
    /\ tick.pc = "mark"
    /\ executed' = [executed EXCEPT ![tick.version] =
                       @ \cup {Fingerprint(tick.point, tick.version, tick.input)}]
    /\ tick' = [tick EXCEPT !.pc = "verify"]
    /\ UNCHANGED <<row, reviewed, panel, memory, moved, World>>

\* The VERIFY save.
Verify ==
    /\ tick.pc = "verify"
    /\ \/ moved /\ FailTick("lost")
       \/ /\ ~moved
          /\ tick' = [tick EXCEPT !.pc = "review"]
          /\ UNCHANGED <<row, moved>>
    /\ UNCHANGED <<memory, Files, World>>

\* AdjudicatingReviewer.run in run_review_gate: the opinion of the model is
\* only stored, but a model that fails stops the tick before the attempt is
\* recorded.  The deterministic reviewer passes the family the engine runs.
Review ==
    /\ tick.pc = "review"
    /\ \/ /\ Opines
          /\ tick' = Stopped("model_failure")
          /\ UNCHANGED reviewed
       \/ /\ reviewed' = [reviewed EXCEPT ![tick.version] =
                 Append(@, [point |-> tick.point, input |-> tick.input,
                            result |-> tick.result])]
          /\ tick' = [tick EXCEPT !.pc = "decide"]
    /\ UNCHANGED <<row, executed, panel, memory, moved, World>>

\* The row with the round of the tick added.
WithRound ==
    [row EXCEPT !.rounds[tick.version] =
        Append(@, [point |-> tick.point, input |-> tick.input,
                   result |-> tick.result])]

\* Slip: the start of the policy is frozen.
StartWins ==
    IF row.winner # NoPrint THEN row.winner
    ELSE Fingerprint(Start, tick.version, memory)

\* freeze_explore_winner: once, under the input the builder last loaded.
Winner ==
    IF row.winner # NoPrint THEN row.winner
    ELSE Fingerprint(tick.point, tick.version, memory)

\* next_change plans again, without the model: a stop ends the search, and a
\* point is only shown, the next tick plans its own.
NextChange(next) ==
    LET plan == PlanAfterFreeze(tick.version, next.rounds, memory)
    IN  IF plan.stop = "" THEN next
        ELSE [next EXCEPT !.status = "COMPLETED", !.stop = plan.stop]

\* The end of _run_once_bound: all methods passed, the time is used up, or
\* the ITERATE save and the next change.
Decide ==
    /\ tick.pc = "decide"
    /\ LET next == WithRound
       IN  \/ /\ tick.result = "pass"
              /\ Finish([next EXCEPT !.status = "COMPLETED", !.stop = "all_pass",
                                     !.winner = Winner])
           \/ /\ tick.result # "pass" /\ tick.late
              /\ Finish([next EXCEPT !.status = "ENDED", !.stop = "time_budget"])
           \/ /\ tick.result # "pass" /\ ~tick.late /\ moved
              /\ FailTick("lost")
           \/ /\ tick.result # "pass" /\ ~tick.late /\ ~moved
              /\ Finish(NextChange(next))
    /\ UNCHANGED <<memory, Files, World>>

Worker == \/ TickStarts \/ Gather \/ WriteHash \/ Plan \/ StopWith
          \/ Simulate \/ MarkExecuted \/ Verify \/ Review \/ Decide

----------------------------------------------------------------------------
(* The user, the clock and the faults.                                     *)

UserWrites(next) ==
    /\ used.write < MaxWrites
    /\ used' = [used EXCEPT !.write = @ + 1]
    /\ row' = next
    /\ moved' = (tick.pc # "idle")
    /\ UNCHANGED <<memory, tick, live, Files>>

\* pause and resume.
Pause ==
    /\ row.status = "RUNNING"
    /\ UserWrites([row EXCEPT !.status = "PAUSED"])

Resume ==
    /\ row.status = "PAUSED"
    /\ UserWrites([row EXCEPT !.status = "RUNNING"])

\* A command that stores the row and leaves its status: a message, a title.
Touch ==
    /\ row.status = "RUNNING" /\ tick.pc # "idle" /\ ~moved
    /\ UserWrites(row)

\* resolve_confirm: the change opens a version, with a definition of its own
\* when it is part of the strategy, or the logic stays and the search goes on.
Approve ==
    /\ row.status = "AWAITING_CONFIRM" /\ row.version + 1 \in Versions
    /\ \E id \in Identities :
         /\ row.identity[row.version] = "patched" => id = "patched"
         /\ UserWrites([row EXCEPT !.status = "RUNNING", !.version = @ + 1,
                                   !.identity[row.version + 1] = id])

Reject ==
    /\ row.status = "AWAITING_CONFIRM"
    /\ UserWrites([row EXCEPT !.status = "RUNNING"])

\* continue_iterate after a search that ended without a pass: a larger budget.
ContinueIterate ==
    /\ row.status = "COMPLETED" /\ row.rounds[row.version] # << >>
    /\ row.rounds[row.version][Len(row.rounds[row.version])].result # "pass"
    /\ UserWrites([row EXCEPT !.status = "RUNNING", !.budget = @ + 1])

\* Effective time runs out while the research runs.  A tick looks at it once,
\* in the row it loads.
TimeRunsOut ==
    /\ row.status = "RUNNING" /\ ~row.late /\ tick.pc = "idle"
    /\ row' = [row EXCEPT !.late = TRUE]
    /\ UNCHANGED <<memory, tick, moved, Files, World>>

\* The data source corrects its history.
SourceRevises ==
    /\ \E p \in Panels \ {live} : live' = p
    /\ tick.pc = "idle"
    /\ UNCHANGED <<row, memory, tick, moved, Files, used>>

\* The worker serves another research between two ticks of this one and loads
\* the panel of that one into the builder they share.
OtherResearchRuns ==
    /\ tick.pc = "idle" /\ memory # "other"
    /\ memory' = "other"
    /\ UNCHANGED <<row, tick, moved, Files, World>>

\* The engine dies: the tick and the builder are gone, the files are not.
Crash ==
    /\ used.crash < MaxCrashes
    /\ used' = [used EXCEPT !.crash = @ + 1]
    /\ tick' = Idle /\ memory' = NoPanel /\ moved' = FALSE
    /\ UNCHANGED <<row, live, Files>>

\* The frozen file of a version is damaged on the disk.
Damage ==
    /\ used.damage < MaxDamages /\ tick.pc = "idle"
    /\ \E v \in Versions :
         /\ panel[v].bytes # NoPanel /\ panel[v].whole
         /\ panel' = [panel EXCEPT ![v].whole = FALSE]
    /\ used' = [used EXCEPT !.damage = @ + 1]
    /\ UNCHANGED <<row, executed, reviewed, live, memory, tick, moved>>

Environment == \/ Pause \/ Resume \/ Touch \/ Approve \/ Reject
               \/ ContinueIterate \/ TimeRunsOut \/ SourceRevises
               \/ OtherResearchRuns \/ Crash \/ Damage

Next == Worker \/ Environment
Spec == Init /\ [][Next]_vars

----------------------------------------------------------------------------
(* Properties.                                                             *)

TypeOK ==
    /\ row.status \in Statuses /\ row.version \in Versions
    /\ row.rounds \in [Versions -> Seq(Rounds)]
    /\ row.identity \in [Versions -> Identities]
    /\ row.stop \in Stops /\ row.budget \in Nat /\ row.late \in BOOLEAN
    /\ row.winner \in Fingerprints \cup {NoPrint}
    /\ executed \in [Versions -> SUBSET Fingerprints]
    /\ reviewed \in [Versions -> Seq(Rounds)]
    /\ panel \in [Versions -> [bytes : Panels \cup {NoPanel}, sum : BOOLEAN,
                               whole : BOOLEAN, corrupt : BOOLEAN]]
    /\ live \in Panels /\ memory \in Inputs /\ moved \in BOOLEAN

\* A candidate has at most one committed result in a version, whatever ticks
\* died or lost their race between its simulation and its round.
OneResultPerCandidate ==
    \A v \in Versions : \A i, j \in DOMAIN row.rounds[v] :
        row.rounds[v][i].point = row.rounds[v][j].point
        /\ row.rounds[v][i].input = row.rounds[v][j].input => i = j

\* Nothing outside the approved range was executed, and a round that follows
\* a failed cost check has a lower turnover than that round, whatever the
\* model suggested.
SearchStaysApproved ==
    \A v \in Versions :
        /\ \A f \in executed[v] : f.point \in Grid
        /\ \A i \in 1 .. Len(row.rounds[v]) - 1 :
             row.rounds[v][i].result = "cost" =>
                 LowerTurnover(row.rounds[v][i + 1].point, row.rounds[v][i].point)

\* The rounds of a version were all computed on the same panel, unless its
\* frozen file was moved aside as corrupt.
RoundsShareInput ==
    \A v \in Versions : \A i, j \in DOMAIN row.rounds[v] :
        panel[v].corrupt \/ row.rounds[v][i].input = row.rounds[v][j].input

\* The reason a finished search gives is true: an all_pass has a last round
\* that passed, a round_cap has used the cap the policy had, and exhausted
\* leaves no point that the version did not execute and no older round tried,
\* but those a failed cost check rules out.
StopIsEarned ==
    row.status = "COMPLETED" =>
        LET hist == row.rounds[row.version]
            tried == {f.point : f \in executed[row.version]}
                     \cup UNION {{row.rounds[w][i].point : i \in DOMAIN row.rounds[w]}
                                : w \in Versions}
        IN  CASE row.stop = "all_pass" -> hist[Len(hist)].result = "pass"
              [] row.stop = "round_cap" -> Len(hist) >= Cap
              [] row.stop = "exhausted" ->
                   \A p \in Grid \ tried :
                       CostFailed(hist) /\ ~LowerTurnover(p, hist[Len(hist)].point)
              [] OTHER -> FALSE

\* The winner that is frozen is the point of a committed round that passed.
WinnerPassed ==
    row.winner # NoPrint =>
        \E v \in Versions : \E i \in DOMAIN row.rounds[v] :
            /\ row.rounds[v][i].result = "pass"
            /\ row.rounds[v][i].point = row.winner.point

\* What the message of an exhausted search says: every candidate of the
\* approved range was tried.  A candidate was tried when a round of this
\* version judged it on the input of this version.
ExhaustedMeansJudged ==
    row.status = "COMPLETED" /\ row.stop = "exhausted"
    /\ ~CostFailed(row.rounds[row.version]) =>
        \A p \in Grid : \E i \in DOMAIN row.rounds[row.version] :
            row.rounds[row.version][i].point = p

\* The winner that is frozen is identified by the input it was found on.
WinnerNamesItsInput ==
    row.winner # NoPrint =>
        \E v \in Versions : \E i \in DOMAIN row.rounds[v] :
            /\ row.rounds[v][i].point = row.winner.point
            /\ row.rounds[v][i].input = row.winner.input

\* The results of a search are those of the approved candidates, one each.
ResultsAreSingle == TypeOK /\ OneResultPerCandidate /\ SearchStaysApproved

\* The end of a search is true: its reason, and the winner it freezes.
EndIsEarned == StopIsEarned /\ WinnerPassed
=============================================================================
