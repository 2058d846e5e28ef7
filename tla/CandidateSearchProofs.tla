------------------------ MODULE CandidateSearchProofs ------------------------
(***************************************************************************)
(* For every policy, every number of versions, every order of crashes,     *)
(* writes of the user, revisions of the source and damaged files, and      *)
(* whatever the models answer: a candidate has one result in a version and *)
(* the results are those of approved candidates, the rounds of a version   *)
(* share one panel, and the reason and the winner of a finished search are *)
(* true.                                                                   *)
(*                                                                         *)
(* None of them is inductive: a round is the last step of a tick that      *)
(* decided long before.  What carries them is what outlives a tick.  The   *)
(* attempts that passed their review are the rounds and at most one more   *)
(* (HistoryInv), so a tick that died between the two is taken up and not   *)
(* repeated; and while a tick runs nobody else writes the history of its   *)
(* version, so that a candidate which was new when it was planned still is *)
(* when its round is committed, and a reason to stop is still true         *)
(* (TickInv).                                                              *)
(***************************************************************************)
EXTENDS CandidateSearch, WellFoundedInduction, TLAPS

-----------------------------------------------------------------------------
(* The order of the grid *)

\* A set of numbers has a least one.
LEMMA LeastNumber ==
  ASSUME NEW S, S \subseteq Nat, S # {}
  PROVE  \E n \in S : \A m \in S : n <= m
<1>1. PICK n \in S : \A m \in S : ~(<<m, n>> \in OpToRel(<, Nat))
  BY NatLessThanWellFounded, WFMin
<1>2. \A m \in S : <<m, n>> \in Nat \X Nat /\ ~(m < n)
  BY <1>1 DEF OpToRel
<1>3. ASSUME NEW m \in S PROVE n <= m
  <2>1. m \in Nat /\ n \in Nat /\ ~(m < n)
    BY <1>2
  <2>2. QED BY <2>1
<1>4. QED BY <1>3

\* The lookbacks of the policy are numbers.
LEMMA GridIsNumbers == Grid \subseteq Nat \X Nat
<1>1. Smallest \in Defaults
  BY LeastNumber, PolicyAssumption DEF Smallest
<1>2. Lookbacks \subseteq Nat
  BY <1>1, PolicyAssumption DEF Lookbacks, Fitting
<1>3. QED BY <1>2, PolicyAssumption DEF Grid

\* A set of points has a lowest one.
LEMMA LowestPoint ==
  ASSUME NEW S, S \subseteq Grid, S # {}
  PROVE  \E p \in S : \A q \in S \ {p} : Lesser(p, q)
<1>1. \A p \in S : p \in Nat \X Nat
  BY GridIsNumbers
<1> DEFINE firsts == {p[1] : p \in S}
<1>2. PICK l \in firsts : \A m \in firsts : l <= m
  <2>1. firsts # {} /\ firsts \subseteq Nat
    BY <1>1
  <2>2. QED BY <2>1, LeastNumber
<1> DEFINE shortest == {p \in S : p[1] = l}
           seconds == {p[2] : p \in shortest}
<1>3. PICK e \in seconds : \A m \in seconds : e <= m
  <2>1. seconds # {} /\ seconds \subseteq Nat
    BY <1>1, <1>2
  <2>2. QED BY <2>1, LeastNumber
<1>4. PICK p \in S : p[1] = l /\ p[2] = e
  BY <1>3
<1>5. ASSUME NEW q \in S \ {p} PROVE Lesser(p, q)
  <2>1. q \in Nat \X Nat /\ p \in Nat \X Nat /\ q # p
    BY <1>1, <1>5
  <2>2. p[1] # q[1] \/ p[2] # q[2]
    BY <2>1
  <2>3. l <= q[1] /\ (q[1] = l => e <= q[2])
    BY <1>2, <1>3, <1>5
  <2>4. l \in Nat /\ e \in Nat /\ q[1] \in Nat /\ q[2] \in Nat
    BY <1>4, <2>1
  <2>5. QED BY <1>4, <2>2, <2>3, <2>4 DEF Lesser
<1>6. QED BY <1>5

\* _next_deterministic proposes one of the open points.
LEMMA NextIsOpen ==
  ASSUME NEW open, open \subseteq Grid, open # {}, NEW hist
  PROVE  NextPoint(open, hist) \in open
<1>1. ASSUME NEW S, S \subseteq open, S # {}
      PROVE  Lowest(S) \in S /\ First(S) \in S
  <2>1. PICK p \in S : \A q \in S \ {p} : Lesser(p, q)
    BY <1>1, LowestPoint
  <2>2. Lowest(S) \in S
    BY <2>1 DEF Lowest
  <2>3. \E f \in S : \A q \in S \ {f} : Before(f, q)
    <3>1. CASE Start \in S
      BY <3>1 DEF Before
    <3>2. CASE Start \notin S
      BY <2>1, <3>2 DEF Before, Lesser
    <3>3. QED BY <3>1, <3>2
  <2>4. First(S) \in S
    BY <2>3 DEF First
  <2>5. QED BY <2>2, <2>4
<1> DEFINE longer == {p \in open : p[1] > hist[Len(hist)].point[1]}
<1>2. longer \subseteq open
  OBVIOUS
<1>3. CASE CostFailed(hist)
  <2>1. NextPoint(open, hist) = Lowest(IF longer # {} THEN longer ELSE open)
    BY <1>3 DEF NextPoint
  <2>2. CASE longer # {}
    BY <1>1, <1>2, <2>1, <2>2
  <2>3. CASE longer = {}
    BY <1>1, <2>1, <2>3
  <2>4. QED BY <2>2, <2>3
<1>4. CASE ~CostFailed(hist)
  BY <1>1, <1>4 DEF NextPoint
<1>5. QED BY <1>3, <1>4

-----------------------------------------------------------------------------
(* What the history allows next *)

\* A point that no round of the version has, with a lower turnover than the
\* last round when its cost check failed.
Fresh(p, hist) ==
    /\ p \in Grid
    /\ \A i \in DOMAIN hist : hist[i].point # p
    /\ CostFailed(hist) => LowerTurnover(p, hist[Len(hist)].point)

\* The points a version has tried: executed, or in a round of any version.
TriedPoints(v, rounds) ==
    {f.point : f \in executed[v]}
    \cup UNION {{rounds[w][i].point : i \in DOMAIN rounds[w]} : w \in Versions}
\* Nothing is left to try.
NothingLeft(v, rounds) ==
    \A p \in Grid \ TriedPoints(v, rounds) :
       CostFailed(rounds[v]) /\ ~LowerTurnover(p, rounds[v][Len(rounds[v])].point)

\* An open point is fresh.
LEMMA OpenIsFresh ==
  ASSUME NEW v \in Versions, NEW rounds, NEW input, NEW p \in Open(v, rounds, input)
  PROVE  Fresh(p, rounds[v])
<1>1. /\ p \in Grid
      /\ Fingerprint(p, v, input) \notin Tried(v, rounds, input)
      /\ CostFailed(rounds[v]) => LowerTurnover(p, rounds[v][Len(rounds[v])].point)
  BY DEF Open
<1>2. ASSUME NEW i \in DOMAIN rounds[v], rounds[v][i].point = p
      PROVE  Fingerprint(p, v, input) \in Tried(v, rounds, input)
  BY <1>2 DEF Tried
<1>3. QED BY <1>1, <1>2 DEF Fresh

\* When no point is open, nothing is left.
LEMMA NoneOpen ==
  ASSUME NEW v \in Versions, NEW rounds, NEW input, Open(v, rounds, input) = {}
  PROVE  NothingLeft(v, rounds)
<1>1. SUFFICES ASSUME NEW p \in Grid, p \notin TriedPoints(v, rounds)
               PROVE  CostFailed(rounds[v]) /\ ~LowerTurnover(p, rounds[v][Len(rounds[v])].point)
  BY DEF NothingLeft
<1>2. Fingerprint(p, v, input) \notin Tried(v, rounds, input)
  <2>1. SUFFICES ASSUME Fingerprint(p, v, input) \in Tried(v, rounds, input)
                 PROVE  FALSE
    OBVIOUS
  <2>2. \A w : Fingerprint(p, w, input).point = p
    BY DEF Fingerprint
  <2>3. CASE Fingerprint(p, v, input) \in executed[v]
    BY <1>1, <2>2, <2>3 DEF TriedPoints
  <2>4. ASSUME NEW w \in Versions, NEW i \in DOMAIN rounds[w],
               Fingerprint(p, v, input) = Fingerprint(rounds[w][i].point, w, input)
        PROVE  FALSE
    <3>1. Fingerprint(rounds[w][i].point, w, input).point = rounds[w][i].point
      BY DEF Fingerprint
    <3>2. rounds[w][i].point = p
      BY <2>2, <2>4, <3>1
    <3>3. QED BY <1>1, <3>2 DEF TriedPoints
  <2>5. QED BY <2>1, <2>3, <2>4 DEF Tried
<1>3. p \notin Open(v, rounds, input)
  OBVIOUS
<1>4. QED BY <1>1, <1>2, <1>3 DEF Open

\* What a plan without a model says is true, and proposes a fresh point.
LEMMA PlanIs ==
  ASSUME NEW v \in Versions, NEW rounds, NEW input, Len(rounds[v]) \in Nat, Cap \in Nat
  PROVE  LET plan == PlanAfterFreeze(v, rounds, input) IN
         \/ plan.stop = "round_cap" /\ Len(rounds[v]) >= Cap
         \/ plan.stop = "exhausted" /\ NothingLeft(v, rounds)
         \/ plan.stop = "" /\ Fresh(plan.point, rounds[v])
<1> DEFINE open == Open(v, rounds, input)
           plan == PlanAfterFreeze(v, rounds, input)
           next == NextPoint(open, rounds[v])
<1>0. \/ Len(rounds[v]) >= Cap
      \/ ~(Len(rounds[v]) >= Cap) /\ Len(rounds[v]) < Cap /\ open = {}
      \/ ~(Len(rounds[v]) >= Cap) /\ Len(rounds[v]) < Cap /\ open # {}
  OBVIOUS
<1>1. CASE Len(rounds[v]) >= Cap
  <2>1. plan = [stop |-> "round_cap", point |-> NoPoint]
    BY <1>1, ~(Len(rounds[v]) < Cap) DEF PlanAfterFreeze
  <2>2. plan.stop = "round_cap"
    BY <2>1
  <2>3. QED BY <1>1, <2>2
<1>2. CASE ~(Len(rounds[v]) >= Cap) /\ Len(rounds[v]) < Cap /\ open = {}
  <2>1. plan = [stop |-> "exhausted", point |-> NoPoint]
    BY <1>2 DEF PlanAfterFreeze
  <2>2. plan.stop = "exhausted"
    BY <2>1
  <2>3. QED BY <1>2, <2>2, NoneOpen
<1>3. CASE ~(Len(rounds[v]) >= Cap) /\ Len(rounds[v]) < Cap /\ open # {}
  <2>1. plan = [stop |-> "", point |-> next]
    BY <1>3 DEF PlanAfterFreeze
  <2>2. open \subseteq Grid
    BY DEF Open
  <2>3. next \in open
    BY <1>3, <2>2, NextIsOpen
  <2>4. Fresh(next, rounds[v])
    BY <2>3, OpenIsFresh
  <2> HIDE DEF next, plan
  <2>5. plan.point = next /\ plan.stop = ""
    BY <2>1
  <2>6. plan.stop = "" /\ Fresh(plan.point, rounds[v])
    BY <2>4, <2>5
  <2>7. QED BY <2>6 DEF plan
<1> HIDE DEF open
<1>4. QED BY <1>0, <1>1, <1>2, <1>3
-----------------------------------------------------------------------------
(* The invariant *)

RowFields == {"status", "version", "rounds", "identity", "stop", "budget",
              "winner", "late", "failed"}
Stages == {"idle", "gather", "sum", "plan", "simulate", "mark", "verify",
           "review", "decide", "stop"}
\* A tick that has read the panel of its version, and one that has a candidate.
HasInput == {"sum", "plan", "simulate", "mark", "verify", "review"}
HasCandidate == {"simulate", "mark", "verify", "review"}
Ticks == [pc : Stages, version : Versions, late : BOOLEAN, point : Points \cup {NoPoint},
          input : Inputs, result : Results, stop : Stops]
PanelFiles == [bytes : Panels \cup {NoPanel}, sum : BOOLEAN, whole : BOOLEAN,
               corrupt : BOOLEAN]

\* What TypeOK says, and what the tick and the fields of the row are.
RowInv ==
    /\ DOMAIN row = RowFields
    /\ row.status \in Statuses /\ row.version \in Versions
    /\ row.rounds \in [Versions -> Seq(Rounds)]
    /\ row.identity \in [Versions -> Identities]
    /\ row.stop \in Stops /\ row.budget \in Nat /\ row.late \in BOOLEAN
    /\ row.winner \in Fingerprints \cup {NoPrint}
FilesInv ==
    /\ executed \in [Versions -> SUBSET Fingerprints]
    /\ reviewed \in [Versions -> Seq(Rounds)]
    /\ panel \in [Versions -> PanelFiles]
WorldInv == live \in Panels /\ memory \in Inputs /\ moved \in BOOLEAN

\* The attempt that a tick is about.
TickRound == [point |-> tick.point, input |-> tick.input, result |-> tick.result]

\* A reason to stop that the history bears out.
Earned(stop, v, rounds) ==
    \/ stop \in {"time_budget", "model_failure", "needs_confirm"}
    \/ stop = "round_cap" /\ Len(rounds[v]) >= Cap
    \/ stop = "exhausted" /\ NothingLeft(v, rounds)

\* While a tick runs its version is the research's, and what it has decided
\* stays true: only the tick itself writes the history and the panel.
TickInv ==
    tick.pc # "idle" =>
       /\ row.status \in {"RUNNING", "PAUSED"}
       /\ row.version = tick.version
       /\ tick.pc # "decide" =>
             Len(reviewed[tick.version]) = Len(row.rounds[tick.version])
       /\ tick.pc = "decide" =>
             /\ Len(reviewed[tick.version]) = Len(row.rounds[tick.version]) + 1
             /\ reviewed[tick.version][Len(row.rounds[tick.version]) + 1] = TickRound
       /\ tick.pc \in HasInput =>
             /\ tick.input \in Panels
             /\ ~panel[tick.version].corrupt => tick.input = panel[tick.version].bytes
       /\ tick.pc \in HasCandidate => Fresh(tick.point, row.rounds[tick.version])
       /\ tick.pc = "stop" => Earned(tick.stop, tick.version, row.rounds)

\* The attempts of a version that passed their review are its rounds and at
\* most one more; each was fresh when it was planned.
HistoryInv ==
    \A v \in Versions :
       /\ Len(row.rounds[v]) <= Len(reviewed[v])
       /\ Len(reviewed[v]) <= Len(row.rounds[v]) + 1
       /\ \A i \in 1 .. Len(row.rounds[v]) : row.rounds[v][i] = reviewed[v][i]
       /\ \A i, j \in 1 .. Len(reviewed[v]) :
             reviewed[v][i].point = reviewed[v][j].point => i = j
       /\ \A i \in 1 .. Len(reviewed[v]) - 1 :
             reviewed[v][i].result = "cost" =>
                LowerTurnover(reviewed[v][i + 1].point, reviewed[v][i].point)
       /\ \A f \in executed[v] : f.point \in Grid

\* The attempts of a version were computed on the panel that is there.
PanelInv ==
    \A v \in Versions : ~panel[v].corrupt =>
       \A i \in 1 .. Len(reviewed[v]) : reviewed[v][i].input = panel[v].bytes

\* A finished search tells why.
StopInv ==
    row.status = "COMPLETED" =>
       \/ /\ row.stop = "all_pass"
          /\ row.rounds[row.version] # << >>
          /\ row.rounds[row.version][Len(row.rounds[row.version])].result = "pass"
       \/ row.stop = "round_cap" /\ Len(row.rounds[row.version]) >= Cap
       \/ row.stop = "exhausted" /\ NothingLeft(row.version, row.rounds)

Core == /\ RowInv /\ FilesInv /\ tick \in Ticks
        /\ TickInv /\ HistoryInv /\ PanelInv /\ StopInv /\ WinnerPassed
Inv == Core /\ WorldInv

-----------------------------------------------------------------------------
(* The kinds of steps *)

\* What a step of the user, a failure or a lost race may do to the row.
RowKept ==
    /\ DOMAIN row' = RowFields
    /\ row'.version = row.version /\ row'.rounds = row.rounds
    /\ row'.identity = row.identity /\ row'.budget = row.budget
    /\ row'.winner = row.winner
    /\ row'.status \in Statuses /\ row'.stop \in Stops /\ row'.late \in BOOLEAN
    /\ row'.status = "COMPLETED" => row.status = "COMPLETED" /\ row'.stop = row.stop
\* The history stays, and the tick goes on with a research that may be paused,
\* or is over.
Quiet ==
    /\ RowKept
    /\ \/ tick' = Idle
       \/ tick' = tick /\ (tick.pc # "idle" => row'.status \in {"RUNNING", "PAUSED"})
    /\ UNCHANGED Files
\* A step of the tick in the memory of its process.
Advances == UNCHANGED <<row, Files>> /\ tick' \in Ticks /\ TickInv'

\* An idle tick is a tick.
LEMMA IdleIsTick == Idle.pc = "idle" /\ Idle \in Ticks
<1>1. 1 \in Versions
  BY PolicyAssumption DEF Versions
<1>2. QED BY <1>1 DEF Idle, Ticks, Stages, Results, Stops, Inputs, Points

\* It has nothing to say.
LEMMA IdleIs ==
  ASSUME Inv, tick' = Idle
  PROVE  tick' \in Ticks /\ TickInv'
  BY IdleIsTick DEF TickInv

\* A quiet step keeps what the history, the panels and the stop say.
LEMMA QuietStep ==
  ASSUME Inv, Quiet
  PROVE  Core'
<1>1. RowInv /\ FilesInv /\ tick \in Ticks /\ TickInv /\ HistoryInv /\ PanelInv
      /\ StopInv /\ WinnerPassed
  BY DEF Inv, Core
<1>2. /\ RowKept
      /\ executed' = executed /\ reviewed' = reviewed /\ panel' = panel
  BY DEF Quiet, Files
<1>3. RowInv' /\ FilesInv'
  BY <1>1, <1>2 DEF RowKept, RowInv, FilesInv
<1>4. Cap' = Cap
  BY <1>2 DEF RowKept, Cap
<1>5. \A v, rounds : NothingLeft(v, rounds)' <=> NothingLeft(v, rounds)
  BY <1>2 DEF NothingLeft, TriedPoints
<1>6. tick' \in Ticks /\ TickInv'
  <2>1. CASE tick' = Idle
    BY <2>1, IdleIs
  <2>2. CASE tick' = tick /\ (tick.pc # "idle" => row'.status \in {"RUNNING", "PAUSED"})
    <3>1. \A stop, v : Earned(stop, v, row.rounds) => Earned(stop, v, row.rounds)'
      BY <1>2, <1>4, <1>5 DEF Earned, RowKept
    <3>2. QED BY <1>1, <1>2, <2>2, <3>1 DEF TickInv, RowKept, TickRound
  <2>3. QED BY <2>1, <2>2 DEF Quiet
<1>7. HistoryInv' /\ PanelInv'
  BY <1>1, <1>2 DEF RowKept, HistoryInv, PanelInv
<1>8. StopInv'
  BY <1>1, <1>2, <1>4, <1>5 DEF RowKept, StopInv
<1>9. WinnerPassed'
  BY <1>1, <1>2 DEF RowKept, WinnerPassed
<1>10. QED BY <1>3, <1>6, <1>7, <1>8, <1>9 DEF Core

\* So does a step in the memory of the tick.
LEMMA AdvanceStep ==
  ASSUME Inv, Advances
  PROVE  Core'
<1>1. /\ row' = row /\ executed' = executed /\ reviewed' = reviewed /\ panel' = panel
      /\ tick' \in Ticks /\ TickInv'
  BY DEF Advances, Files
<1>2. RowInv' /\ FilesInv' /\ HistoryInv' /\ PanelInv'
  BY <1>1 DEF Inv, Core, RowInv, FilesInv, HistoryInv, PanelInv
<1>3. StopInv' /\ WinnerPassed'
  BY <1>1 DEF Inv, Core, StopInv, WinnerPassed, NothingLeft, TriedPoints, Cap
<1>4. QED BY <1>1, <1>2, <1>3 DEF Core

\* A tick that fails leaves the row, paused at most.
LEMMA FailIsQuiet ==
  ASSUME Inv, NEW why, FailTick(why), UNCHANGED Files
  PROVE  Quiet
<1>1. tick' = Idle
  BY DEF FailTick
<1>2. CASE row.status # "RUNNING"
  <2>1. row' = row
    BY <1>2 DEF FailTick
  <2>2. QED BY <1>1, <2>1 DEF Quiet, RowKept, Inv, Core, RowInv
<1>3. CASE row.status = "RUNNING"
  <2> DEFINE times == IF row.failed.why = why THEN row.failed.times + 1 ELSE 1
             failed == [why |-> why, times |-> times]
             status == IF times >= MaxErrors THEN "PAUSED" ELSE row.status
  <2>1. row' = [row EXCEPT !.failed = failed, !.status = status]
    BY <1>3 DEF FailTick
  <2>0. status \in {"PAUSED", row.status}
    OBVIOUS
  <2> HIDE DEF failed, status, times
  <2>2. RowKept
    BY <1>3, <2>0, <2>1 DEF RowKept, Inv, Core, RowInv, RowFields, Statuses
  <2>3. QED BY <1>1, <2>2 DEF Quiet
<1>4. QED BY <1>2, <1>3

\* A tick that lost its race leaves the row as it is; one that did not stores
\* its own.
LEMMA FinishIs ==
  ASSUME Inv, NEW result, DOMAIN result = RowFields, Finish(result), UNCHANGED Files
  PROVE  \/ Quiet
         \/ /\ tick' = Idle /\ DOMAIN row' = RowFields
            /\ row'.version = result.version /\ row'.rounds = result.rounds
            /\ row'.identity = result.identity /\ row'.budget = result.budget
            /\ row'.winner = result.winner /\ row'.status = result.status
            /\ row'.stop = result.stop /\ row'.late = result.late
<1>1. tick' = Idle
  BY DEF Finish
<1>2. CASE moved
  <2>1. row' = row
    BY <1>2 DEF Finish
  <2>2. QED BY <1>1, <2>1 DEF Quiet, RowKept, Inv, Core, RowInv
<1>3. CASE ~moved
  <2>1. PICK failed : row' = [result EXCEPT !.failed = failed]
    BY <1>3 DEF Finish
  <2>2. QED BY <1>1, <2>1 DEF RowFields
<1>4. QED BY <1>2, <1>3

-----------------------------------------------------------------------------
(* The steps of the tick *)

\* A tick starts with what the history says is next.
LEMMA TickStartsStep ==
  ASSUME Inv, TickStarts
  PROVE  Core'
<1> DEFINE v == row.version
           n == Len(row.rounds[v]) + 1
           base == [Idle EXCEPT !.version = v, !.late = row.late]
<1>1. /\ RowInv /\ FilesInv /\ HistoryInv /\ PanelInv
      /\ row.status = "RUNNING" /\ UNCHANGED <<row, Files>>
  BY DEF Inv, Core, TickStarts
<1>2. /\ v \in Versions /\ row.late \in BOOLEAN
      /\ row.rounds[v] \in Seq(Rounds) /\ reviewed[v] \in Seq(Rounds)
  BY <1>1 DEF RowInv, FilesInv
<1>3. /\ Len(row.rounds[v]) \in Nat /\ Len(reviewed[v]) \in Nat
      /\ Len(row.rounds[v]) <= Len(reviewed[v])
      /\ Len(reviewed[v]) <= Len(row.rounds[v]) + 1
  BY <1>1, <1>2 DEF HistoryInv
<1>4. base \in Ticks /\ base.version = v
  BY <1>2, IdleIsTick DEF Ticks
<1> HIDE DEF base
<1>5. CASE n <= Len(reviewed[v])
  <2> DEFINE a == reviewed[v][n]
  <2>1. tick' = [base EXCEPT !.pc = "decide", !.point = a.point, !.input = a.input,
                             !.result = a.result]
    BY <1>5 DEF TickStarts, base
  <2>2. a \in Rounds /\ Len(reviewed[v]) = Len(row.rounds[v]) + 1
    BY <1>2, <1>3, <1>5
  <2>4. a.point \in Points /\ a.input \in Inputs /\ a.result \in Results
        /\ a = [point |-> a.point, input |-> a.input, result |-> a.result]
    BY <2>2 DEF Rounds, Points, Inputs
  <2> HIDE DEF a
  <2>5. /\ tick' \in Ticks /\ tick'.pc = "decide" /\ tick'.version = v
        /\ tick'.point = a.point /\ tick'.input = a.input /\ tick'.result = a.result
    BY <1>4, <2>1, <2>4 DEF Ticks, Stages
  <2>6. TickRound' = a
    BY <2>4, <2>5 DEF TickRound
  <2>7. TickInv'
    BY <1>1, <2>2, <2>5, <2>6 DEF TickInv, HasInput, HasCandidate, Files, a
  <2>8. QED BY <1>1, <2>5, <2>7, AdvanceStep DEF Advances
<1>6. CASE ~(n <= Len(reviewed[v]))
  <2>1. tick' = [base EXCEPT !.pc = "gather"]
    BY <1>6 DEF TickStarts, base
  <2>3. tick' \in Ticks /\ tick'.pc = "gather" /\ tick'.version = v
    BY <1>4, <2>1 DEF Ticks, Stages
  <2>4. Len(reviewed[v]) = Len(row.rounds[v])
    BY <1>3, <1>6
  <2>5. TickInv'
    BY <1>1, <2>3, <2>4 DEF TickInv, HasInput, HasCandidate, Files
  <2>6. QED BY <1>1, <2>3, <2>5, AdvanceStep DEF Advances
<1>7. QED BY <1>5, <1>6

\* What a tick that has not planned yet has from its version.
LEMMA AtTick ==
  ASSUME Inv, tick.pc # "idle"
  PROVE  /\ tick \in Ticks /\ tick.version \in Versions /\ row.version = tick.version
         /\ row.status \in {"RUNNING", "PAUSED"}
         /\ row.rounds[tick.version] \in Seq(Rounds)
         /\ reviewed[tick.version] \in Seq(Rounds)
         /\ panel[tick.version] \in PanelFiles
         /\ Len(row.rounds[tick.version]) \in Nat
<1>1. tick \in Ticks /\ RowInv /\ FilesInv /\ TickInv
  BY DEF Inv, Core
<1>2. tick.version \in Versions
  BY <1>1 DEF Ticks
<1>3. QED BY <1>1, <1>2 DEF RowInv, FilesInv, TickInv

\* A panel that changes leaves the rest of the invariant to the tick.
LEMMA PanelStep ==
  ASSUME Inv, UNCHANGED <<row, executed, reviewed>>,
         panel' \in [Versions -> PanelFiles], tick' \in Ticks, TickInv', PanelInv'
  PROVE  Core'
<1>1. RowInv' /\ FilesInv' /\ HistoryInv'
  BY DEF Inv, Core, RowInv, FilesInv, HistoryInv
<1>2. StopInv' /\ WinnerPassed'
  BY DEF Inv, Core, StopInv, WinnerPassed, NothingLeft, TriedPoints, Cap
<1>3. QED BY <1>1, <1>2 DEF Core

\* The panel of a version is read, or fetched when there is none or a damaged
\* one was moved aside.
LEMMA GatherStep ==
  ASSUME Inv, Gather
  PROVE  Core'
<1> DEFINE v == tick.version
<1>1. /\ tick.pc = "gather" /\ UNCHANGED <<executed, reviewed>>
      /\ TickInv /\ PanelInv /\ FilesInv /\ live \in Panels
  BY DEF Gather, Inv, Core, WorldInv
<1>2. /\ tick \in Ticks /\ v \in Versions /\ row.version = v
      /\ row.status \in {"RUNNING", "PAUSED"} /\ panel[v] \in PanelFiles
      /\ Len(reviewed[v]) = Len(row.rounds[v])
      /\ reviewed[v] \in Seq(Rounds)
  BY <1>1, AtTick DEF TickInv
<1>3. ASSUME NEW why, FailTick(why), UNCHANGED panel PROVE Core'
  BY <1>1, <1>3, FailIsQuiet, QuietStep DEF Files
<1>4. ASSUME Readable(v), tick' = [tick EXCEPT !.pc = "plan", !.input = panel[v].bytes],
             UNCHANGED <<row, panel>>
      PROVE  Core'
  <2>1. panel[v].bytes \in Panels
    BY <1>2, <1>4 DEF Readable, PanelFiles
  <2>2. tick' \in Ticks /\ tick'.pc = "plan" /\ tick'.version = v
        /\ tick'.input = panel[v].bytes
    BY <1>2, <1>4, <2>1 DEF Ticks, Stages, Inputs
  <2>3. TickInv'
    BY <1>1, <1>2, <1>4, <2>1, <2>2 DEF TickInv, HasInput, HasCandidate
  <2>4. QED BY <1>1, <1>4, <2>2, <2>3, AdvanceStep DEF Advances, Files
<1>5. ASSUME panel' = [panel EXCEPT ![v] = Fetched(v)],
             tick' = [tick EXCEPT !.pc = "sum", !.input = live], UNCHANGED row
      PROVE  Core'
  <2>1. Fetched(v) \in PanelFiles /\ Fetched(v).bytes = live
        /\ (~Fetched(v).corrupt => ~panel[v].corrupt /\ panel[v].bytes = NoPanel)
    BY <1>1, <1>2 DEF Fetched, PanelFiles
  <2>2. /\ panel' \in [Versions -> PanelFiles] /\ panel'[v] = Fetched(v)
        /\ \A w \in Versions : w # v => panel'[w] = panel[w]
    BY <1>1, <1>2, <1>5, <2>1 DEF FilesInv
  <2>3. tick' \in Ticks /\ tick'.pc = "sum" /\ tick'.version = v /\ tick'.input = live
    BY <1>1, <1>2, <1>5 DEF Ticks, Stages, Inputs
  <2>4. TickInv'
    BY <1>1, <1>2, <1>5, <2>1, <2>2, <2>3 DEF TickInv, HasInput, HasCandidate
  <2>5. PanelInv'
    <3>1. SUFFICES ASSUME NEW w \in Versions, ~panel'[w].corrupt,
                          NEW i \in 1 .. Len(reviewed[w])
                   PROVE  reviewed[w][i].input = panel'[w].bytes
      BY <1>1 DEF PanelInv
    <3>2. CASE w = v
      <4>1. reviewed[v][i].input = NoPanel
        BY <1>1, <1>2, <2>1, <2>2, <3>1, <3>2 DEF PanelInv
      <4>2. reviewed[v][i] \in Rounds
        BY <1>2, <3>1, <3>2
      <4>3. QED BY <4>1, <4>2, PolicyAssumption DEF Rounds
    <3>3. CASE w # v
      BY <1>1, <2>2, <3>1, <3>3 DEF PanelInv
    <3>4. QED BY <3>2, <3>3
  <2>6. QED BY <1>1, <1>5, <2>2, <2>3, <2>4, <2>5, PanelStep
<1>6. QED BY <1>3, <1>4, <1>5 DEF Gather

\* The hash is not looked at again.
LEMMA WriteHashStep ==
  ASSUME Inv, WriteHash
  PROVE  Core'
<1> DEFINE v == tick.version
<1>1. /\ tick.pc = "sum" /\ UNCHANGED <<row, executed, reviewed>>
      /\ panel' = [panel EXCEPT ![v].sum = TRUE] /\ tick' = [tick EXCEPT !.pc = "plan"]
      /\ TickInv /\ PanelInv /\ FilesInv
  BY DEF WriteHash, Inv, Core
<1>2. tick \in Ticks /\ v \in Versions
  BY <1>1, AtTick
<1>3. /\ panel' \in [Versions -> PanelFiles]
      /\ \A w \in Versions : panel'[w].bytes = panel[w].bytes
                             /\ panel'[w].corrupt = panel[w].corrupt
  BY <1>1, <1>2 DEF FilesInv, PanelFiles
<1>4. tick' \in Ticks /\ tick'.pc = "plan" /\ tick'.version = v /\ tick'.input = tick.input
  BY <1>1, <1>2 DEF Ticks, Stages
<1>5. TickInv'
  BY <1>1, <1>2, <1>3, <1>4 DEF TickInv, HasInput, HasCandidate
<1>6. PanelInv'
  BY <1>1, <1>3 DEF PanelInv
<1>7. QED BY <1>1, <1>3, <1>4, <1>5, <1>6, PanelStep

\* A step of a tick that keeps its candidate, its panel or its reason.
LEMMA NextStage ==
  ASSUME Inv, UNCHANGED <<row, Files>>,
         tick.pc \in Stages \ {"idle", "decide"}, tick' \in Ticks,
         tick'.pc \in Stages \ {"idle", "decide"},
         tick'.version = tick.version, tick'.input = tick.input,
         tick'.pc \in HasInput => tick.pc \in HasInput,
         tick'.pc \in HasCandidate => Fresh(tick'.point, row.rounds[tick.version]),
         tick'.pc = "stop" => Earned(tick'.stop, tick.version, row.rounds)
  PROVE  Core'
<1>1. /\ row' = row /\ executed' = executed /\ reviewed' = reviewed /\ panel' = panel
      /\ TickInv
  BY DEF Files, Inv, Core
<1>2. \A stop, v, rounds : Earned(stop, v, rounds)' <=> Earned(stop, v, rounds)
  BY <1>1 DEF Earned, NothingLeft, TriedPoints, Cap
<1>3. TickInv'
  BY <1>1, <1>2 DEF TickInv
<1>4. QED BY <1>3, AdvanceStep DEF Advances

\* The plan proposes a fresh candidate or a reason to stop that is true.
LEMMA PlanStep ==
  ASSUME Inv, Plan
  PROVE  Core'
<1> DEFINE v == tick.version
           plan == PlanAfterFreeze(v, row.rounds, tick.input)
           fallback == IF plan.stop # "" THEN Stopped(plan.stop) ELSE Chosen(plan.point)
<1>1. tick.pc = "plan" /\ UNCHANGED <<row, Files>> /\ RowInv
  BY DEF Plan, Inv, Core
<1>2. /\ tick \in Ticks /\ v \in Versions /\ Len(row.rounds[v]) \in Nat
  BY <1>1, AtTick
<1>3. Cap \in Nat
  BY <1>1, PolicyAssumption DEF Cap, RowInv
<1>4. ASSUME NEW stop \in Stops, tick' = Stopped(stop), Earned(stop, v, row.rounds)
      PROVE  Core'
  <2>1. tick' \in Ticks /\ tick'.pc = "stop" /\ tick'.version = v /\ tick'.stop = stop
        /\ tick'.input = tick.input
    BY <1>2, <1>4 DEF Stopped, Ticks, Stages
  <2>2. QED BY <1>1, <1>4, <2>1, NextStage DEF HasInput, HasCandidate, Stages
<1>5. ASSUME NEW p \in Grid, tick' = Chosen(p), Fresh(p, row.rounds[v])
      PROVE  Core'
  <2>1. tick' \in Ticks /\ tick'.pc = "simulate" /\ tick'.version = v /\ tick'.point = p
        /\ tick'.input = tick.input
    BY <1>2, <1>5 DEF Chosen, Ticks, Stages, Points
  <2>2. QED BY <1>1, <1>5, <2>1, NextStage DEF HasInput, HasCandidate, Stages
<1>6. ASSUME tick' = fallback PROVE Core'
  <2>1. \/ plan.stop = "round_cap" /\ Len(row.rounds[v]) >= Cap
        \/ plan.stop = "exhausted" /\ NothingLeft(v, row.rounds)
        \/ plan.stop = "" /\ Fresh(plan.point, row.rounds[v])
    BY <1>2, <1>3, PlanIs
  <2> HIDE DEF plan
  <2>2. CASE plan.stop = ""
    BY <1>5, <1>6, <2>1, <2>2 DEF Fresh
  <2>3. CASE plan.stop # ""
    <3>1. plan.stop \in Stops /\ Earned(plan.stop, v, row.rounds)
      BY <2>1, <2>3 DEF Stops, Earned
    <3>2. QED BY <1>4, <1>6, <2>3, <3>1
  <2>4. QED BY <2>2, <2>3
<1>7. ASSUME NEW p, tick' = IF Accepted(p, v, row.rounds, tick.input) THEN Chosen(p)
                            ELSE fallback
      PROVE  Core'
  <2>1. CASE Accepted(p, v, row.rounds, tick.input)
    <3>1. p \in Grid /\ Fresh(p, row.rounds[v])
      BY <1>2, <2>1, OpenIsFresh DEF Accepted
    <3>2. QED BY <1>5, <1>7, <2>1, <3>1
  <2>2. CASE ~Accepted(p, v, row.rounds, tick.input)
    BY <1>6, <1>7, <2>2
  <2>3. QED BY <2>1, <2>2
<1>8. ASSUME NEW stop \in {"time_budget", "model_failure", "needs_confirm"},
             tick' = Stopped(stop)
      PROVE  Core'
  BY <1>4, <1>8 DEF Stops, Earned
<1>9. \/ \E stop \in {"time_budget", "model_failure", "needs_confirm"} : tick' = Stopped(stop)
      \/ tick' = fallback
      \/ \E p : tick' = IF Accepted(p, v, row.rounds, tick.input) THEN Chosen(p)
                        ELSE fallback
  <2> HIDE DEF fallback
  <2>1. QED BY DEF Plan, fallback, plan
<1>10. QED BY <1>6, <1>7, <1>8, <1>9

\* The simulation keeps the candidate.
LEMMA SimulateStep ==
  ASSUME Inv, Simulate
  PROVE  Core'
<1>1. tick.pc = "simulate" /\ UNCHANGED Files /\ TickInv
  BY DEF Simulate, Inv, Core
<1>2. CASE FailTick("lost")
  BY <1>1, <1>2, FailIsQuiet, QuietStep
<1>3. CASE ~FailTick("lost")
  <2>1. PICK r \in Results : tick' = [tick EXCEPT !.pc = "mark", !.result = r]
    BY <1>3 DEF Simulate
  <2>2. UNCHANGED row
    BY <1>3 DEF Simulate
  <2>3. /\ tick' \in Ticks /\ tick'.pc = "mark" /\ tick'.version = tick.version
        /\ tick'.point = tick.point /\ tick'.input = tick.input
    BY <1>1, <2>1, AtTick DEF Ticks, Stages
  <2>4. Fresh(tick.point, row.rounds[tick.version])
    BY <1>1 DEF TickInv, HasCandidate
  <2>5. QED BY <1>1, <2>2, <2>3, <2>4, NextStage DEF HasInput, HasCandidate, Stages
<1>4. QED BY <1>2, <1>3

\* So does the VERIFY save.
LEMMA VerifyStep ==
  ASSUME Inv, Verify
  PROVE  Core'
<1>1. tick.pc = "verify" /\ UNCHANGED Files /\ TickInv
  BY DEF Verify, Inv, Core
<1>2. CASE FailTick("lost")
  BY <1>1, <1>2, FailIsQuiet, QuietStep
<1>3. CASE ~FailTick("lost")
  <2>1. tick' = [tick EXCEPT !.pc = "review"] /\ UNCHANGED row
    BY <1>3 DEF Verify
  <2>2. /\ tick' \in Ticks /\ tick'.pc = "review" /\ tick'.version = tick.version
        /\ tick'.point = tick.point /\ tick'.input = tick.input
    BY <1>1, <2>1, AtTick DEF Ticks, Stages
  <2>3. Fresh(tick.point, row.rounds[tick.version])
    BY <1>1 DEF TickInv, HasCandidate
  <2>4. QED BY <1>1, <2>1, <2>2, <2>3, NextStage DEF HasInput, HasCandidate, Stages
<1>4. QED BY <1>2, <1>3

\* The plan of a candidate is marked while no reason to stop depends on it.
LEMMA MarkStep ==
  ASSUME Inv, MarkExecuted
  PROVE  Core'
<1> DEFINE v == tick.version
           print == Fingerprint(tick.point, v, tick.input)
<1>1. /\ tick.pc = "mark" /\ row' = row /\ reviewed' = reviewed /\ panel' = panel
      /\ executed' = [executed EXCEPT ![v] = executed[v] \cup {print}]
      /\ tick' = [tick EXCEPT !.pc = "verify"]
      /\ RowInv /\ FilesInv /\ TickInv /\ HistoryInv /\ PanelInv /\ WinnerPassed
  BY DEF MarkExecuted, Inv, Core
<1>2. /\ tick \in Ticks /\ v \in Versions /\ row.status \in {"RUNNING", "PAUSED"}
  BY <1>1, AtTick
<1>3. Fresh(tick.point, row.rounds[v]) /\ tick.input \in Panels
  BY <1>1 DEF TickInv, HasInput, HasCandidate
<1>4. print \in Fingerprints /\ print.point \in Grid
  BY <1>1, <1>2, <1>3 DEF Fingerprint, Definition, Fingerprints, Fresh, RowInv, Inputs, Points
<1>5. /\ tick' \in Ticks /\ tick'.pc = "verify" /\ tick'.version = v
      /\ tick'.point = tick.point /\ tick'.input = tick.input
  BY <1>1, <1>2 DEF Ticks, Stages
<1> HIDE DEF print
<1>6. /\ executed' \in [Versions -> SUBSET Fingerprints]
      /\ \A w \in Versions : \A f \in executed'[w] : f \in executed[w] \/ f = print
  BY <1>1, <1>2, <1>4 DEF FilesInv
<1>7. RowInv' /\ FilesInv' /\ PanelInv' /\ WinnerPassed'
  BY <1>1, <1>6 DEF RowInv, FilesInv, PanelInv, WinnerPassed
<1>8. HistoryInv'
  BY <1>1, <1>4, <1>6 DEF HistoryInv
<1>9. TickInv'
  BY <1>1, <1>2, <1>3, <1>5 DEF TickInv, HasInput, HasCandidate
<1>10. StopInv'
  BY <1>1, <1>2 DEF StopInv
<1>11. QED BY <1>5, <1>7, <1>8, <1>9, <1>10 DEF Core

\* An attempt that is recorded is new to its version.
LEMMA ReviewStep ==
  ASSUME Inv, Review
  PROVE  Core'
<1> DEFINE v == tick.version
           R == reviewed[v]
           hist == row.rounds[v]
           a == [point |-> tick.point, input |-> tick.input, result |-> tick.result]
<1>1. /\ tick.pc = "review" /\ row' = row /\ executed' = executed /\ panel' = panel
      /\ RowInv /\ FilesInv /\ TickInv /\ HistoryInv /\ PanelInv /\ WinnerPassed
  BY DEF Review, Inv, Core
<1>2. /\ tick \in Ticks /\ v \in Versions /\ row.status \in {"RUNNING", "PAUSED"}
      /\ row.version = v /\ R \in Seq(Rounds) /\ hist \in Seq(Rounds)
  BY <1>1, AtTick
<1>3. /\ Fresh(tick.point, hist) /\ tick.input \in Panels
      /\ ~panel[v].corrupt => tick.input = panel[v].bytes
      /\ Len(R) = Len(hist)
  BY <1>1 DEF TickInv, HasInput, HasCandidate
<1>4. CASE tick' = Stopped("model_failure") /\ UNCHANGED reviewed
  <2>1. tick' \in Ticks /\ tick'.pc = "stop" /\ tick'.version = v
        /\ tick'.stop = "model_failure" /\ tick'.input = tick.input
    BY <1>2, <1>4 DEF Stopped, Ticks, Stages, Stops
  <2>2. QED BY <1>1, <1>4, <2>1, NextStage DEF HasInput, HasCandidate, Stages, Files, Earned
<1>5. CASE /\ reviewed' = [reviewed EXCEPT ![v] = Append(R, a)]
           /\ tick' = [tick EXCEPT !.pc = "decide"]
  <2>1. a \in Rounds /\ a.point = tick.point /\ a.input = tick.input
        /\ a.result = tick.result
    BY <1>2, <1>3 DEF Rounds, Fresh, Ticks
  <2> HIDE DEF a
  <2>2. /\ tick' \in Ticks /\ tick'.pc = "decide" /\ tick'.version = v
        /\ tick'.point = tick.point /\ tick'.input = tick.input
        /\ tick'.result = tick.result
    BY <1>2, <1>5 DEF Ticks, Stages
  <2>3. /\ reviewed'[v] = Append(R, a)
        /\ \A w \in Versions : w # v => reviewed'[w] = reviewed[w]
        /\ reviewed' \in [Versions -> Seq(Rounds)]
    BY <1>1, <1>2, <1>5, <2>1 DEF FilesInv
  <2>4. /\ Len(Append(R, a)) = Len(R) + 1 /\ Append(R, a)[Len(R) + 1] = a
        /\ \A i \in 1 .. Len(R) : Append(R, a)[i] = R[i]
        /\ Len(R) \in Nat
    BY <1>2, <2>1
  <2>5. \A i \in 1 .. Len(R) : R[i].point # a.point
    <3>1. \A i \in 1 .. Len(hist) : hist[i] = R[i]
      BY <1>1, <1>2 DEF HistoryInv
    <3>2. DOMAIN hist = 1 .. Len(hist)
      BY <1>2
    <3>3. QED BY <1>3, <2>1, <3>1, <3>2 DEF Fresh
  <2>6. Len(R) >= 1 /\ R[Len(R)].result = "cost" => LowerTurnover(a.point, R[Len(R)].point)
    <3>1. SUFFICES ASSUME Len(R) >= 1, R[Len(R)].result = "cost"
                   PROVE  LowerTurnover(a.point, R[Len(R)].point)
      OBVIOUS
    <3>2. hist # << >> /\ hist[Len(hist)] = R[Len(R)]
      BY <1>1, <1>2, <1>3, <3>1 DEF HistoryInv
    <3>3. CostFailed(hist)
      BY <3>1, <3>2 DEF CostFailed
    <3>4. QED BY <1>3, <2>1, <3>2, <3>3 DEF Fresh
  <2>7. HistoryInv'
    <3>1. SUFFICES ASSUME NEW w \in Versions
                   PROVE  /\ Len(row.rounds[w]) <= Len(reviewed'[w])
                          /\ Len(reviewed'[w]) <= Len(row.rounds[w]) + 1
                          /\ \A i \in 1 .. Len(row.rounds[w]) :
                                row.rounds[w][i] = reviewed'[w][i]
                          /\ \A i, j \in 1 .. Len(reviewed'[w]) :
                                reviewed'[w][i].point = reviewed'[w][j].point => i = j
                          /\ \A i \in 1 .. Len(reviewed'[w]) - 1 :
                                reviewed'[w][i].result = "cost" =>
                                   LowerTurnover(reviewed'[w][i + 1].point, reviewed'[w][i].point)
                          /\ \A f \in executed[w] : f.point \in Grid
      BY <1>1 DEF HistoryInv
    <3>2. CASE w # v
      BY <1>1, <2>3, <3>2 DEF HistoryInv
    <3>3. CASE w = v
      <4>1. /\ \A i \in 1 .. Len(hist) : hist[i] = R[i]
            /\ \A i, j \in 1 .. Len(R) : R[i].point = R[j].point => i = j
            /\ \A i \in 1 .. Len(R) - 1 :
                  R[i].result = "cost" => LowerTurnover(R[i + 1].point, R[i].point)
            /\ \A f \in executed[v] : f.point \in Grid
        BY <1>1, <1>2 DEF HistoryInv
      <4> DEFINE S == Append(R, a)
      <4>2. /\ Len(S) = Len(R) + 1 /\ S[Len(R) + 1] = a /\ reviewed'[v] = S
            /\ \A i \in 1 .. Len(R) : S[i] = R[i]
        BY <2>3, <2>4
      <4> HIDE DEF S, R, hist
      <4>3. \A i \in 1 .. Len(hist) : hist[i] = S[i]
        BY <1>3, <4>1, <4>2
      <4>4. ASSUME NEW i \in 1 .. Len(S), NEW j \in 1 .. Len(S), S[i].point = S[j].point
            PROVE  i = j
        <5>1. (i \in 1 .. Len(R) \/ i = Len(R) + 1) /\ (j \in 1 .. Len(R) \/ j = Len(R) + 1)
          BY <2>4, <4>2
        <5>2. QED BY <2>5, <4>1, <4>2, <4>4, <5>1
      <4>5. ASSUME NEW i \in 1 .. Len(S) - 1, S[i].result = "cost"
            PROVE  LowerTurnover(S[i + 1].point, S[i].point)
        <5>1. i \in 1 .. Len(R)
          BY <2>4, <4>2
        <5>2. CASE i = Len(R)
          BY <2>4, <2>6, <4>2, <4>5, <5>1, <5>2
        <5>3. CASE i # Len(R)
          <6>1. i \in 1 .. Len(R) - 1 /\ i + 1 \in 1 .. Len(R)
            BY <2>4, <5>1, <5>3
          <6>2. S[i] = R[i] /\ S[i + 1] = R[i + 1]
            BY <4>2, <5>1, <6>1
          <6>3. QED BY <4>1, <4>5, <6>1, <6>2
        <5>4. QED BY <5>2, <5>3
      <4>6. Len(hist) <= Len(S) /\ Len(S) <= Len(hist) + 1
        BY <1>3, <2>4, <4>2
      <4>7. QED BY <3>3, <4>1, <4>2, <4>3, <4>4, <4>5, <4>6 DEF hist
    <3>4. QED BY <3>2, <3>3
  <2>8. PanelInv'
    <3>1. SUFFICES ASSUME NEW w \in Versions, ~panel[w].corrupt,
                          NEW i \in 1 .. Len(reviewed'[w])
                   PROVE  reviewed'[w][i].input = panel[w].bytes
      BY <1>1 DEF PanelInv
    <3>2. CASE w # v
      BY <1>1, <2>3, <3>1, <3>2 DEF PanelInv
    <3>3. CASE w = v
      <4>1. \A k \in 1 .. Len(R) : R[k].input = panel[v].bytes
        BY <1>1, <1>2, <3>1, <3>3 DEF PanelInv
      <4>2. i \in 1 .. Len(R) \/ i = Len(R) + 1
        BY <2>3, <2>4, <3>1, <3>3
      <4>3. reviewed'[v][i].input = panel[v].bytes
        BY <1>3, <2>1, <2>3, <2>4, <3>1, <3>3, <4>1, <4>2
      <4>4. QED BY <3>3, <4>3
    <3>4. QED BY <3>2, <3>3
  <2>9. TickInv'
    <3>1. TickRound' = a
      BY <2>2 DEF TickRound, a
    <3>2. Len(reviewed'[v]) = Len(hist) + 1 /\ reviewed'[v][Len(hist) + 1] = a
      BY <1>3, <2>3, <2>4
    <3>3. QED BY <1>1, <1>2, <2>2, <3>1, <3>2 DEF TickInv, HasInput, HasCandidate
  <2>10. RowInv' /\ FilesInv' /\ StopInv' /\ WinnerPassed'
    BY <1>1, <1>2, <2>3 DEF RowInv, FilesInv, StopInv, WinnerPassed
  <2>11. QED BY <2>2, <2>7, <2>8, <2>9, <2>10 DEF Core
<1>6. QED BY <1>4, <1>5 DEF Review

\* A search that stops gives a reason that is true.
LEMMA StopWithStep ==
  ASSUME Inv, StopWith
  PROVE  Core'
<1> DEFINE v == tick.version
           status == CASE tick.stop = "model_failure" -> "PAUSED"
                       [] tick.stop = "needs_confirm" ->
                            IF row.rounds[v] = << >> THEN "PAUSED" ELSE "AWAITING_CONFIRM"
                       [] tick.stop = "time_budget" -> "ENDED"
                       [] OTHER -> "COMPLETED"
           result == [row EXCEPT !.status = status, !.stop = tick.stop]
<1>1. /\ tick.pc = "stop" /\ UNCHANGED Files /\ Finish(result)
      /\ RowInv /\ FilesInv /\ TickInv /\ HistoryInv /\ PanelInv /\ WinnerPassed
  BY DEF StopWith, Inv, Core
<1>2. /\ tick \in Ticks /\ v \in Versions /\ row.version = v
      /\ row.status \in {"RUNNING", "PAUSED"}
  BY <1>1, AtTick
<1>3. Earned(tick.stop, v, row.rounds)
  BY <1>1 DEF TickInv
<1>4. /\ status \in Statuses
      /\ status = "COMPLETED" => tick.stop \notin {"model_failure", "needs_confirm", "time_budget"}
  BY DEF Statuses
<1> HIDE DEF status
<1>5. /\ DOMAIN result = RowFields
      /\ result.version = row.version /\ result.rounds = row.rounds
      /\ result.identity = row.identity /\ result.budget = row.budget
      /\ result.winner = row.winner /\ result.late = row.late
      /\ result.status = status /\ result.stop = tick.stop
  BY <1>1 DEF RowInv, RowFields
<1> HIDE DEF result
<1>6. CASE Quiet
  BY <1>6, QuietStep
<1>7. CASE /\ tick' = Idle /\ DOMAIN row' = RowFields
           /\ row'.version = result.version /\ row'.rounds = result.rounds
           /\ row'.identity = result.identity /\ row'.budget = result.budget
           /\ row'.winner = result.winner /\ row'.status = result.status
           /\ row'.stop = result.stop /\ row'.late = result.late
  <2>1. executed' = executed /\ reviewed' = reviewed /\ panel' = panel
    BY <1>1 DEF Files
  <2>2. RowInv' /\ FilesInv'
    BY <1>1, <1>2, <1>4, <1>5, <1>7, <2>1 DEF RowInv, FilesInv, Ticks
  <2>3. HistoryInv' /\ PanelInv' /\ WinnerPassed'
    BY <1>1, <1>5, <1>7, <2>1 DEF HistoryInv, PanelInv, WinnerPassed
  <2>4. tick' \in Ticks /\ TickInv'
    BY <1>7, IdleIs
  <2>5. StopInv'
    <3>1. SUFFICES ASSUME status = "COMPLETED"
                   PROVE  \/ row'.stop = "round_cap" /\ Len(row'.rounds[row'.version]) >= Cap'
                          \/ row'.stop = "exhausted" /\ NothingLeft(row.version, row.rounds)'
      BY <1>5, <1>7 DEF StopInv
    <3>2. Cap' = Cap
      BY <1>5, <1>7 DEF Cap
    <3>4. \/ tick.stop = "round_cap" /\ Len(row.rounds[v]) >= Cap
          \/ tick.stop = "exhausted" /\ NothingLeft(v, row.rounds)
      BY <1>3, <1>4, <3>1 DEF Earned
    <3>5. row'.version = v /\ row'.rounds = row.rounds /\ row'.stop = tick.stop
      BY <1>2, <1>5, <1>7
    <3>6. NothingLeft(v, row.rounds) => NothingLeft(row.version, row.rounds)'
      BY <2>1, <3>5 DEF NothingLeft, TriedPoints
    <3>7. QED BY <3>2, <3>4, <3>5, <3>6
  <2>6. QED BY <2>2, <2>3, <2>4, <2>5 DEF Core
<1>8. QED BY <1>1, <1>5, <1>6, <1>7, FinishIs

\* A round that is committed is the attempt that passed its review.
LEMMA CommitStep ==
  ASSUME Inv, tick.pc = "decide", tick' = Idle, UNCHANGED Files,
         DOMAIN row' = RowFields, row'.version = row.version,
         row'.identity = row.identity, row'.budget = row.budget, row'.late = row.late,
         row'.rounds = [row.rounds EXCEPT ![tick.version] =
                           Append(row.rounds[tick.version], TickRound)],
         row'.status \in Statuses, row'.stop \in Stops,
         \/ row'.winner = row.winner
         \/ /\ row'.winner \in Fingerprints /\ row'.winner.point = tick.point
            /\ tick.result = "pass",
         StopInv'
  PROVE  Core'
<1> DEFINE v == tick.version
           R == reviewed[v]
           hist == row.rounds[v]
           a == TickRound
<1>1. /\ executed' = executed /\ reviewed' = reviewed /\ panel' = panel
      /\ RowInv /\ FilesInv /\ TickInv /\ HistoryInv /\ PanelInv /\ WinnerPassed
  BY DEF Files, Inv, Core
<1>2. /\ tick \in Ticks /\ v \in Versions /\ R \in Seq(Rounds) /\ hist \in Seq(Rounds)
  BY AtTick
<1>3. Len(R) = Len(hist) + 1 /\ R[Len(hist) + 1] = a
  BY <1>1 DEF TickInv
<1>4. a \in Rounds
  BY <1>2, <1>3
<1>5. a.point = tick.point /\ a.result = tick.result
  BY DEF TickRound
<1> HIDE DEF a
<1>6. /\ row'.rounds \in [Versions -> Seq(Rounds)]
      /\ row'.rounds[v] = Append(hist, a)
      /\ \A w \in Versions : w # v => row'.rounds[w] = row.rounds[w]
  BY <1>1, <1>2, <1>4 DEF RowInv, a
<1>7. /\ Len(Append(hist, a)) = Len(hist) + 1 /\ Append(hist, a)[Len(hist) + 1] = a
      /\ \A i \in 1 .. Len(hist) : Append(hist, a)[i] = hist[i]
      /\ Len(hist) \in Nat
  BY <1>2, <1>4
<1>8. RowInv' /\ FilesInv' /\ PanelInv'
  BY <1>1, <1>6 DEF RowInv, FilesInv, PanelInv
<1>9. HistoryInv'
  <2>1. SUFFICES ASSUME NEW w \in Versions
                 PROVE  /\ Len(row'.rounds[w]) <= Len(reviewed[w])
                        /\ Len(reviewed[w]) <= Len(row'.rounds[w]) + 1
                        /\ \A i \in 1 .. Len(row'.rounds[w]) :
                              row'.rounds[w][i] = reviewed[w][i]
    BY <1>1 DEF HistoryInv
  <2>2. CASE w # v
    BY <1>1, <1>6, <2>2 DEF HistoryInv
  <2>3. CASE w = v
    <3>1. \A i \in 1 .. Len(hist) : hist[i] = R[i]
      BY <1>1, <1>2 DEF HistoryInv
    <3>2. ASSUME NEW i \in 1 .. Len(Append(hist, a)) PROVE Append(hist, a)[i] = R[i]
      <4>1. i \in 1 .. Len(hist) \/ i = Len(hist) + 1
        BY <1>7
      <4>2. QED BY <1>3, <1>7, <3>1, <4>1
    <3>3. row'.rounds[w] = Append(hist, a) /\ reviewed[w] = R
      BY <1>6, <2>3
    <3>4. Len(row'.rounds[w]) = Len(R)
      BY <1>3, <1>7, <3>3
    <3>5. Len(row'.rounds[w]) <= Len(reviewed[w]) /\ Len(reviewed[w]) <= Len(row'.rounds[w]) + 1
      BY <1>3, <1>7, <3>3, <3>4
    <3>6. ASSUME NEW i \in 1 .. Len(row'.rounds[w]) PROVE row'.rounds[w][i] = reviewed[w][i]
      BY <3>2, <3>3
    <3>7. QED BY <3>5, <3>6
  <2>4. QED BY <2>2, <2>3
<1>10. WinnerPassed'
  <2>1. SUFFICES ASSUME row'.winner # NoPrint
                 PROVE  \E w \in Versions : \E i \in DOMAIN row'.rounds[w] :
                           /\ row'.rounds[w][i].result = "pass"
                           /\ row'.rounds[w][i].point = row'.winner.point
    BY DEF WinnerPassed
  <2>2. DOMAIN row'.rounds[v] = 1 .. Len(hist) + 1 /\ DOMAIN hist = 1 .. Len(hist)
    BY <1>2, <1>4, <1>6, <1>7
  <2>3. CASE row'.winner = row.winner
    <3>1. PICK w \in Versions : \E i \in DOMAIN row.rounds[w] :
             row.rounds[w][i].result = "pass" /\ row.rounds[w][i].point = row.winner.point
      BY <1>1, <2>1, <2>3 DEF WinnerPassed
    <3>2. CASE w # v
      BY <1>6, <2>3, <3>1, <3>2
    <3>3. CASE w = v
      BY <1>6, <1>7, <2>2, <2>3, <3>1, <3>3
    <3>4. QED BY <3>2, <3>3
  <2>4. CASE row'.winner.point = tick.point /\ tick.result = "pass"
    <3>1. Len(hist) + 1 \in DOMAIN row'.rounds[v]
      BY <1>7, <2>2
    <3>2. row'.rounds[v][Len(hist) + 1] = a
      BY <1>6, <1>7
    <3>3. QED BY <1>2, <1>5, <2>4, <3>1, <3>2
  <2>5. QED BY <2>3, <2>4
<1>11. QED BY <1>8, <1>9, <1>10, IdleIs DEF Core

\* The end of a tick.
LEMMA DecideStep ==
  ASSUME Inv, Decide
  PROVE  Core'
<1> DEFINE v == tick.version
           hist == row.rounds[v]
           next == WithRound
           passed == [next EXCEPT !.status = "COMPLETED", !.stop = "all_pass",
                                  !.winner = Winner]
           ended == [next EXCEPT !.status = "ENDED", !.stop = "time_budget"]
           plan == PlanAfterFreeze(v, next.rounds, memory)
           stopped == [next EXCEPT !.status = "COMPLETED", !.stop = plan.stop]
<1>1. tick.pc = "decide" /\ UNCHANGED Files /\ RowInv /\ WorldInv /\ FilesInv /\ TickInv
  BY DEF Decide, Inv, Core
<1>2. /\ tick \in Ticks /\ v \in Versions /\ row.version = v /\ hist \in Seq(Rounds)
      /\ reviewed[v] \in Seq(Rounds)
      /\ row.status \in {"RUNNING", "PAUSED"} /\ Len(hist) \in Nat
  BY <1>1, AtTick
<1>3. TickRound \in Rounds
  BY <1>1, <1>2 DEF TickInv
<1>4. /\ DOMAIN next = RowFields
      /\ next.version = row.version /\ next.identity = row.identity
      /\ next.budget = row.budget /\ next.late = row.late /\ next.winner = row.winner
      /\ next.status = row.status /\ next.stop = row.stop
      /\ next.rounds = [row.rounds EXCEPT ![v] = Append(hist, TickRound)]
  BY <1>1, <1>2 DEF WithRound, TickRound, RowInv, RowFields
<1>5. /\ next.rounds[v] = Append(hist, TickRound) /\ next.rounds[v] # << >>
      /\ Len(next.rounds[v]) \in Nat
      /\ next.rounds[v][Len(next.rounds[v])].result = tick.result
  <2>1. next.rounds[v] = Append(hist, TickRound)
    BY <1>1, <1>2, <1>4 DEF RowInv
  <2>2. /\ Append(hist, TickRound) # << >>
        /\ Len(Append(hist, TickRound)) = Len(hist) + 1
        /\ Append(hist, TickRound)[Len(hist) + 1] = TickRound
    BY <1>2, <1>3
  <2>3. TickRound.result = tick.result
    BY DEF TickRound
  <2>4. QED BY <1>2, <2>1, <2>2, <2>3
<1> HIDE DEF next
<1>6. ASSUME FailTick("lost") PROVE Core'
  BY <1>1, <1>6, FailIsQuiet, QuietStep
<1>7. ASSUME NEW result, Finish(result), DOMAIN result = RowFields,
             result.version = row.version, result.identity = row.identity,
             result.budget = row.budget, result.late = row.late,
             result.rounds = next.rounds,
             result.status \in Statuses, result.stop \in Stops,
             \/ result.winner = row.winner
             \/ /\ result.winner \in Fingerprints /\ result.winner.point = tick.point
                /\ tick.result = "pass",
             result.status = "COMPLETED" =>
                \/ result.stop = "all_pass" /\ tick.result = "pass"
                \/ result.stop = "round_cap" /\ Len(next.rounds[v]) >= Cap
                \/ result.stop = "exhausted" /\ NothingLeft(v, next.rounds)
      PROVE  Core'
  <2>1. CASE Quiet
    BY <2>1, QuietStep
  <2>2. CASE /\ tick' = Idle /\ DOMAIN row' = RowFields
             /\ row'.version = result.version /\ row'.rounds = result.rounds
             /\ row'.identity = result.identity /\ row'.budget = result.budget
             /\ row'.winner = result.winner /\ row'.status = result.status
             /\ row'.stop = result.stop /\ row'.late = result.late
    <3>1. Cap' = Cap
      BY <1>7, <2>2 DEF Cap
    <3>2. NothingLeft(v, next.rounds) => NothingLeft(row.version, row.rounds)'
      BY <1>1, <1>2, <1>7, <2>2 DEF NothingLeft, TriedPoints, Files
    <3>3. row'.version = v /\ row'.rounds = next.rounds
      BY <1>2, <1>7, <2>2
    <3>4. StopInv'
      BY <1>5, <1>7, <2>2, <3>1, <3>2, <3>3 DEF StopInv
    <3>5. QED BY <1>1, <1>4, <1>7, <2>2, <3>4, CommitStep
  <2>3. QED BY <1>1, <1>7, <2>1, <2>2, FinishIs
<1>8. ASSUME tick.result = "pass", Finish(passed) PROVE Core'
  <2>1. /\ DOMAIN passed = RowFields
        /\ passed.version = row.version /\ passed.identity = row.identity
        /\ passed.budget = row.budget /\ passed.late = row.late
        /\ passed.rounds = next.rounds /\ passed.status = "COMPLETED"
        /\ passed.stop = "all_pass" /\ passed.winner = Winner
    BY <1>4 DEF RowFields
  <2>2. tick.point \in Points
    <3>1. TickRound.point = tick.point
      BY DEF TickRound
    <3>2. QED BY <1>3, <3>1 DEF Rounds, Points
  <2>3. \/ Winner = row.winner
        \/ Winner \in Fingerprints /\ Winner.point = tick.point
    <3>1. CASE row.winner # NoPrint
      BY <3>1 DEF Winner
    <3>2. CASE row.winner = NoPrint
      BY <1>1, <1>2, <2>2, <3>2
         DEF Winner, Fingerprint, Definition, Fingerprints, RowInv, WorldInv
    <3>3. QED BY <3>1, <3>2
  <2> HIDE DEF passed
  <2>4. QED BY <1>7, <1>8, <2>1, <2>3 DEF Statuses, Stops
<1>9. ASSUME Finish(ended) PROVE Core'
  <2>1. /\ DOMAIN ended = RowFields
        /\ ended.version = row.version /\ ended.identity = row.identity
        /\ ended.budget = row.budget /\ ended.late = row.late
        /\ ended.rounds = next.rounds /\ ended.status = "ENDED"
        /\ ended.stop = "time_budget" /\ ended.winner = row.winner
    BY <1>4 DEF RowFields
  <2> HIDE DEF ended
  <2>2. QED BY <1>7, <1>9, <2>1 DEF Statuses, Stops
<1>10. ASSUME Finish(NextChange(next)) PROVE Core'
  <2>1. Cap \in Nat
    BY <1>1, PolicyAssumption DEF Cap, RowInv
  <2>2. \/ plan.stop = "round_cap" /\ Len(next.rounds[v]) >= Cap
        \/ plan.stop = "exhausted" /\ NothingLeft(v, next.rounds)
        \/ plan.stop = ""
    BY <1>2, <1>5, <2>1, PlanIs
  <2>3. NextChange(next) = IF plan.stop = "" THEN next ELSE stopped
    BY DEF NextChange
  <2> HIDE DEF plan
  <2>4. CASE plan.stop = ""
    <3>1. Finish(next)
      BY <1>10, <2>3, <2>4
    <3>2. next.status \in Statuses /\ next.status # "COMPLETED" /\ next.stop \in Stops
      BY <1>1, <1>2, <1>4 DEF Statuses, RowInv
    <3>3. QED BY <1>4, <1>7, <3>1, <3>2
  <2>5. CASE plan.stop # ""
    <3>1. /\ DOMAIN stopped = RowFields
          /\ stopped.version = row.version /\ stopped.identity = row.identity
          /\ stopped.budget = row.budget /\ stopped.late = row.late
          /\ stopped.rounds = next.rounds /\ stopped.status = "COMPLETED"
          /\ stopped.stop = plan.stop /\ stopped.winner = row.winner
      BY <1>4 DEF RowFields
    <3>2. Finish(stopped)
      BY <1>10, <2>3, <2>5
    <3> HIDE DEF stopped
    <3>3. stopped.status \in Statuses /\ stopped.stop \in Stops
      BY <2>2, <2>5, <3>1 DEF Statuses, Stops
    <3>4. QED BY <1>7, <2>2, <2>5, <3>1, <3>2, <3>3
  <2>6. QED BY <2>4, <2>5
<1>11. QED BY <1>6, <1>8, <1>9, <1>10 DEF Decide, next

-----------------------------------------------------------------------------
(* The user, the clock and the faults *)

\* A command that sets the status of the research.
LEMMA StatusStep ==
  ASSUME Inv, NEW status \in {"RUNNING", "PAUSED"},
         UserWrites([row EXCEPT !.status = status])
  PROVE  Core'
<1>1. /\ row' = [row EXCEPT !.status = status] /\ tick' = tick /\ UNCHANGED Files
  BY DEF UserWrites
<1>2. RowKept
  BY <1>1 DEF RowKept, Inv, Core, RowInv, RowFields, Statuses
<1>3. row'.status = status
  BY <1>1 DEF Inv, Core, RowInv, RowFields
<1>4. QED BY <1>1, <1>2, <1>3, QuietStep DEF Quiet

\* A command that opens a version or raises the budget: no tick runs.
LEMMA OpenStep ==
  ASSUME Inv, tick.pc = "idle", tick' = tick, UNCHANGED Files,
         DOMAIN row' = RowFields, row'.status = "RUNNING", row'.version \in Versions,
         row'.rounds = row.rounds, row'.identity \in [Versions -> Identities],
         row'.stop = row.stop, row'.budget \in Nat, row'.late = row.late,
         row'.winner = row.winner
  PROVE  Core'
<1>1. executed' = executed /\ reviewed' = reviewed /\ panel' = panel
  BY DEF Files
<1>2. RowInv' /\ FilesInv'
  BY <1>1 DEF Inv, Core, RowInv, FilesInv, Statuses
<1>3. tick' \in Ticks /\ TickInv' /\ StopInv'
  BY DEF Inv, Core, TickInv, StopInv
<1>4. HistoryInv' /\ PanelInv' /\ WinnerPassed'
  BY <1>1 DEF Inv, Core, HistoryInv, PanelInv, WinnerPassed
<1>5. QED BY <1>2, <1>3, <1>4 DEF Core

\* Every step of the environment.
LEMMA EnvironmentStep ==
  ASSUME Inv, Environment
  PROVE  Core'
<1>1. RowInv /\ FilesInv /\ TickInv /\ tick \in Ticks
  BY DEF Inv, Core
<1>2. CASE Pause \/ Resume
  BY <1>2, StatusStep DEF Pause, Resume
<1>3. CASE Touch
  <2>1. row' = row /\ row.status = "RUNNING" /\ tick' = tick /\ UNCHANGED Files
    BY <1>3 DEF Touch, UserWrites
  <2>2. QED BY <1>1, <2>1, QuietStep DEF Quiet, RowKept, RowInv
<1>4. CASE Reject
  BY <1>4, StatusStep DEF Reject
<1>5. CASE Approve
  <2>1. PICK id \in Identities :
           UserWrites([row EXCEPT !.status = "RUNNING", !.version = row.version + 1,
                                  !.identity[row.version + 1] = id])
    BY <1>5 DEF Approve
  <2>2. row.status = "AWAITING_CONFIRM" /\ row.version + 1 \in Versions
    BY <1>5 DEF Approve
  <2>3. tick.pc = "idle"
    BY <1>1, <2>2 DEF TickInv
  <2>4. /\ row' = [row EXCEPT !.status = "RUNNING", !.version = row.version + 1,
                              !.identity[row.version + 1] = id]
        /\ tick' = tick /\ UNCHANGED Files
    BY <2>1 DEF UserWrites
  <2>5. /\ DOMAIN row' = RowFields /\ row'.status = "RUNNING"
        /\ row'.version = row.version + 1 /\ row'.rounds = row.rounds
        /\ row'.identity = [row.identity EXCEPT ![row.version + 1] = id]
        /\ row'.stop = row.stop /\ row'.budget = row.budget /\ row'.late = row.late
        /\ row'.winner = row.winner
    BY <1>1, <2>4 DEF RowInv, RowFields
  <2>6. row'.identity \in [Versions -> Identities] /\ row'.budget \in Nat
    BY <1>1, <2>5 DEF RowInv
  <2>7. QED BY <2>2, <2>3, <2>4, <2>5, <2>6, OpenStep
<1>6. CASE ContinueIterate
  <2>1. /\ row.status = "COMPLETED"
        /\ row' = [row EXCEPT !.status = "RUNNING", !.budget = row.budget + 1]
        /\ tick' = tick /\ UNCHANGED Files
    BY <1>6 DEF ContinueIterate, UserWrites
  <2>2. tick.pc = "idle"
    BY <1>1, <2>1 DEF TickInv
  <2>3. /\ DOMAIN row' = RowFields /\ row'.status = "RUNNING"
        /\ row'.version = row.version /\ row'.rounds = row.rounds
        /\ row'.identity = row.identity
        /\ row'.stop = row.stop /\ row'.budget = row.budget + 1 /\ row'.late = row.late
        /\ row'.winner = row.winner
    BY <1>1, <2>1 DEF RowInv, RowFields
  <2>4. QED BY <1>1, <2>1, <2>2, <2>3, OpenStep DEF RowInv
<1>7. CASE TimeRunsOut
  <2>1. /\ row.status = "RUNNING" /\ row' = [row EXCEPT !.late = TRUE]
        /\ tick' = tick /\ tick.pc = "idle" /\ UNCHANGED Files
    BY <1>7 DEF TimeRunsOut
  <2>2. RowKept
    BY <1>1, <2>1 DEF RowKept, RowInv, RowFields
  <2>3. QED BY <2>1, <2>2, QuietStep DEF Quiet
<1>8. CASE SourceRevises \/ OtherResearchRuns
  <2>1. row' = row /\ tick' = tick /\ tick.pc = "idle" /\ UNCHANGED Files
    BY <1>8 DEF SourceRevises, OtherResearchRuns
  <2>2. QED BY <1>1, <2>1, QuietStep DEF Quiet, RowKept, RowInv
<1>9. CASE Crash
  <2>1. row' = row /\ tick' = Idle /\ UNCHANGED Files
    BY <1>9 DEF Crash
  <2>2. QED BY <1>1, <2>1, QuietStep DEF Quiet, RowKept, RowInv
<1>10. CASE Damage
  <2>1. PICK v \in Versions : panel' = [panel EXCEPT ![v].whole = FALSE]
    BY <1>10 DEF Damage
  <2>2. tick' = tick /\ tick.pc = "idle" /\ UNCHANGED <<row, executed, reviewed>>
    BY <1>10 DEF Damage
  <2>3. /\ panel' \in [Versions -> PanelFiles]
        /\ \A w \in Versions : panel'[w].bytes = panel[w].bytes
                               /\ panel'[w].corrupt = panel[w].corrupt
    BY <1>1, <2>1 DEF FilesInv, PanelFiles
  <2>4. PanelInv'
    BY <2>2, <2>3 DEF Inv, Core, PanelInv
  <2>5. tick' \in Ticks /\ TickInv'
    BY <1>1, <2>2 DEF TickInv
  <2>6. QED BY <2>2, <2>3, <2>4, <2>5, PanelStep
<1>11. QED
  BY <1>2, <1>3, <1>4, <1>5, <1>6, <1>7, <1>8, <1>9, <1>10 DEF Environment

\* What the source answers and what the process remembers.
LEMMA WorldStep ==
  ASSUME Inv, Next
  PROVE  WorldInv'
<1>1. WorldInv /\ TickInv
  BY DEF Inv, Core
<1>2. ASSUME NEW why, FailTick(why) PROVE moved' = FALSE
  BY <1>2 DEF FailTick
<1>3. ASSUME NEW result, Finish(result) PROVE moved' = FALSE
  BY <1>3 DEF Finish
<1>4. CASE TickStarts \/ StopWith \/ Simulate \/ Verify \/ Decide
  BY <1>1, <1>2, <1>3, <1>4
     DEF TickStarts, StopWith, Simulate, Verify, Decide, World, WorldInv
<1>5. CASE Gather
  BY <1>1, <1>2, <1>5 DEF Gather, World, WorldInv
<1>6. CASE WriteHash \/ MarkExecuted \/ Review
  BY <1>1, <1>6 DEF WriteHash, MarkExecuted, Review, World, WorldInv
<1>7. CASE Plan
  <2>1. tick.input \in Panels
    BY <1>1, <1>7 DEF Plan, TickInv, HasInput
  <2>2. memory' = tick.input /\ live' = live /\ moved' = moved
    BY <1>7 DEF Plan, World
  <2>3. QED BY <1>1, <2>1, <2>2 DEF WorldInv, Inputs
<1>8. ASSUME NEW next, UserWrites(next) PROVE WorldInv'
  BY <1>1, <1>8 DEF UserWrites, WorldInv
<1>9. CASE Pause \/ Resume \/ Touch \/ Approve \/ Reject \/ ContinueIterate
  BY <1>8, <1>9 DEF Pause, Resume, Touch, Approve, Reject, ContinueIterate
<1>10. CASE TimeRunsOut \/ SourceRevises
  BY <1>1, <1>10 DEF TimeRunsOut, SourceRevises, World, WorldInv
<1>11. CASE OtherResearchRuns \/ Crash \/ Damage
  BY <1>1, <1>11 DEF OtherResearchRuns, Crash, Damage, World, WorldInv, Inputs
<1>12. QED
  BY <1>4, <1>5, <1>6, <1>7, <1>9, <1>10, <1>11 DEF Next, Worker, Environment

\* A research starts without a history.
LEMMA InitInv ==
  ASSUME Init
  PROVE  Inv
<1>1. 1 \in Versions /\ MaxRounds \in Nat
  BY PolicyAssumption DEF Versions
<1>0. << >> \in Seq(Rounds)
  OBVIOUS
<1>2. RowInv
  <2>1. /\ DOMAIN row = RowFields /\ row.status = "RUNNING" /\ row.version = 1
        /\ row.rounds = [v \in Versions |-> << >>]
        /\ row.identity = [v \in Versions |-> "approved"]
        /\ row.stop = "" /\ row.budget = MaxRounds /\ row.late = FALSE
        /\ row.winner = NoPrint
    BY DEF Init, RowFields
  <2>2. QED BY <1>0, <1>1, <2>1 DEF RowInv, Statuses, Identities, Stops
<1>3. FilesInv
  <2>1. /\ executed = [v \in Versions |-> {}] /\ reviewed = [v \in Versions |-> << >>]
        /\ panel = [v \in Versions |-> [bytes |-> NoPanel, sum |-> FALSE,
                                        whole |-> TRUE, corrupt |-> FALSE]]
    BY DEF Init
  <2>2. [bytes |-> NoPanel, sum |-> FALSE, whole |-> TRUE, corrupt |-> FALSE] \in PanelFiles
    BY DEF PanelFiles
  <2>3. QED BY <1>0, <2>1, <2>2 DEF FilesInv
<1>4. WorldInv
  BY DEF Init, WorldInv, Inputs
<1>5. tick \in Ticks /\ tick.pc = "idle"
  BY IdleIsTick DEF Init
<1>6. HistoryInv /\ PanelInv
  <2>1. \A v \in Versions : row.rounds[v] = << >> /\ reviewed[v] = << >> /\ executed[v] = {}
    BY DEF Init
  <2>2. QED BY <2>1 DEF HistoryInv, PanelInv
<1>7. TickInv /\ StopInv /\ WinnerPassed
  BY <1>5 DEF Init, TickInv, StopInv, WinnerPassed
<1>8. QED BY <1>2, <1>3, <1>4, <1>5, <1>6, <1>7 DEF Inv, Core

\* The invariant holds in every state.
THEOREM Invariance == Spec => []Inv
<1>1. Init => Inv
  BY InitInv
<1>2. Inv /\ [Next]_vars => Inv'
  <2>1. ASSUME Inv, Next PROVE Inv'
    <3>1. CASE Worker
      BY <2>1, <3>1, TickStartsStep, GatherStep, WriteHashStep, PlanStep, StopWithStep,
         SimulateStep, MarkStep, VerifyStep, ReviewStep, DecideStep, WorldStep
         DEF Worker, Inv
    <3>2. CASE Environment
      BY <2>1, <3>2, EnvironmentStep, WorldStep DEF Inv
    <3>3. QED BY <2>1, <3>1, <3>2 DEF Next
  <2>2. ASSUME Inv, UNCHANGED vars PROVE Inv'
    <3>1. UNCHANGED <<row, Files>> /\ tick' \in Ticks /\ WorldInv'
      BY <2>2 DEF vars, Files, Inv, Core, WorldInv
    <3>2. TickInv'
      BY <2>2 DEF vars, Inv, Core, TickInv, TickRound, Earned, NothingLeft, TriedPoints, Cap
    <3>3. QED BY <2>2, <3>1, <3>2, AdvanceStep DEF Advances, Inv
  <2>3. QED BY <2>1, <2>2
<1>3. QED BY <1>1, <1>2, PTL DEF Spec

-----------------------------------------------------------------------------
(* A candidate has one result in a version, of the approved range, and the  *)
(* turnover falls after a failed cost check (candidates.py), whatever ticks *)
(* died or lost their race between a simulation and its round.              *)
THEOREM ResultsAreSingleAlways == Spec => []ResultsAreSingle
<1>1. Inv => ResultsAreSingle
  <2>1. SUFFICES ASSUME Inv PROVE ResultsAreSingle
    OBVIOUS
  <2>2. RowInv /\ FilesInv /\ WorldInv /\ HistoryInv
    BY <2>1 DEF Inv, Core
  <2>3. TypeOK
    BY <2>2 DEF TypeOK, RowInv, FilesInv, WorldInv, PanelFiles
  <2>4. ASSUME NEW v \in Versions
        PROVE  /\ DOMAIN row.rounds[v] = 1 .. Len(row.rounds[v])
               /\ Len(row.rounds[v]) \in Nat /\ Len(reviewed[v]) \in Nat
               /\ Len(row.rounds[v]) <= Len(reviewed[v])
    BY <2>2 DEF RowInv, FilesInv, HistoryInv
  <2>5. OneResultPerCandidate
    <3>1. SUFFICES ASSUME NEW v \in Versions, NEW i \in DOMAIN row.rounds[v],
                          NEW j \in DOMAIN row.rounds[v],
                          row.rounds[v][i].point = row.rounds[v][j].point
                   PROVE  i = j
      BY DEF OneResultPerCandidate
    <3>2. /\ row.rounds[v][i] = reviewed[v][i] /\ row.rounds[v][j] = reviewed[v][j]
          /\ i \in 1 .. Len(reviewed[v]) /\ j \in 1 .. Len(reviewed[v])
      <4>1. i \in 1 .. Len(row.rounds[v]) /\ j \in 1 .. Len(row.rounds[v])
        BY <2>4
      <4>2. i \in 1 .. Len(reviewed[v]) /\ j \in 1 .. Len(reviewed[v])
        BY <2>4, <4>1
      <4>3. QED BY <2>2, <4>1, <4>2 DEF HistoryInv
    <3>3. QED BY <2>2, <3>1, <3>2 DEF HistoryInv
  <2>6. SearchStaysApproved
    <3>1. ASSUME NEW v \in Versions, NEW i \in 1 .. Len(row.rounds[v]) - 1,
                 row.rounds[v][i].result = "cost"
          PROVE  LowerTurnover(row.rounds[v][i + 1].point, row.rounds[v][i].point)
      <4>1. /\ i \in 1 .. Len(row.rounds[v]) /\ i + 1 \in 1 .. Len(row.rounds[v])
            /\ i \in 1 .. Len(reviewed[v]) - 1
        BY <2>4
      <4>2. row.rounds[v][i] = reviewed[v][i] /\ row.rounds[v][i + 1] = reviewed[v][i + 1]
        BY <2>2, <4>1 DEF HistoryInv
      <4>3. QED BY <2>2, <3>1, <4>1, <4>2 DEF HistoryInv
    <3>2. QED BY <2>2, <3>1 DEF SearchStaysApproved, HistoryInv
  <2>7. QED BY <2>3, <2>5, <2>6 DEF ResultsAreSingle
<1>2. QED BY <1>1, Invariance, PTL

(* The rounds of a version share one panel (frozen_input.py), unless its    *)
(* file was moved aside as corrupt: revisions of the source, crashes and    *)
(* other researches in between change nothing.                              *)
THEOREM RoundsShareInputAlways == Spec => []RoundsShareInput
<1>1. Inv => RoundsShareInput
  <2>1. SUFFICES ASSUME Inv, NEW v \in Versions, ~panel[v].corrupt,
                        NEW i \in DOMAIN row.rounds[v]
                 PROVE  row.rounds[v][i].input = panel[v].bytes
    BY DEF RoundsShareInput
  <2>2. RowInv /\ FilesInv /\ HistoryInv /\ PanelInv
    BY <2>1 DEF Inv, Core
  <2>3. i \in 1 .. Len(row.rounds[v]) /\ i \in 1 .. Len(reviewed[v])
    BY <2>1, <2>2 DEF RowInv, FilesInv, HistoryInv
  <2>4. QED BY <2>1, <2>2, <2>3 DEF HistoryInv, PanelInv
<1>2. QED BY <1>1, Invariance, PTL

(* The reason a finished search gives is true, and the winner it freezes    *)
(* passed in a committed round (loop.py, candidates.py).                    *)
THEOREM EndIsEarnedAlways == Spec => []EndIsEarned
<1>1. Inv => EndIsEarned
  <2>1. SUFFICES ASSUME Inv PROVE EndIsEarned
    OBVIOUS
  <2>2. StopInv /\ WinnerPassed
    BY <2>1 DEF Inv, Core
  <2>3. StopIsEarned
    BY <2>2 DEF StopInv, StopIsEarned, NothingLeft, TriedPoints
  <2>4. QED BY <2>2, <2>3 DEF EndIsEarned
<1>2. QED BY <1>1, Invariance, PTL
=============================================================================
