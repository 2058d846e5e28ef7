--------------------------- MODULE DraftDialogue ---------------------------
(***************************************************************************)
(* The conversation that fills the brief of a research and the gate that   *)
(* lets it run: engine/dialogue (turns, intent, slots, proposal, actions,   *)
(* modification), the family answers (research/family_choice.py,            *)
(* thesis_scope.py, family_intent.py), the price source and its             *)
(* acknowledgement, evaluate_run_gate, and the commands of main.py that use *)
(* them.  Between two turns the same user may press any button.            *)
(*                                                                         *)
(* A message is the record of what the parsers read in it, not its words;   *)
(* the wording of the replies is left out.  Receipts and revisions of the   *)
(* commands are the subject of CommandJournal; the ticker list of the       *)
(* universe is left out, its market is kept.                               *)
(***************************************************************************)
EXTENDS Naturals, FiniteSets

CONSTANTS
    Theses, Family,       \* sentences, and the family classify_thesis reads
    Hours,                \* durations a message may give
    Parts,                \* the numbers a coverage floor is made of
    Limits,               \* hard constraints the engine cannot execute
    Messages,             \* what the parsers may read in one message
    Sources, Unlicensed,  \* price sources; those for personal research only
    SourceMarket,         \* the market each source has prices of
    Configured,           \* licensed sources the user has set up
    Rollouts,             \* may dialogue writes of the new kind be open
    MaxTurns, MaxOpened   \* bounds: messages and withdrawals, versions

Markets  == {"US", "CN"}
Families == {"mean_reversion", "disclosed", "momentum", "none"}
None     == "unset"
NoSource == "unbound"

\* FamilyHit.outcome: run, disclose, block or none.
Outcome(text) ==
    IF text = None THEN "none"
    ELSE CASE Family[text] = "mean_reversion" -> "run"
           [] Family[text] = "disclosed"      -> "disclose"
           [] Family[text] = "momentum"       -> "block"
           [] Family[text] = "none"           -> "none"

\* text: the words as a thesis.  says: a bare yes, a bare no, or neither.
\* market, hours, methods, floor: answers to the other questions.  from: the
\* old duration a correction quotes.  retracts: slots it withdraws.  cheap:
\* the unexplained word.  runNow: only a demand to start.  source: a data
\* source it names.
Message == [text : Theses \cup {None}, says : {"yes", "no", "other"},
            market : Markets \cup {None}, hours : Hours \cup {0},
            corrects : BOOLEAN, from : Hours \cup {0}, methods : BOOLEAN,
            floor : SUBSET Parts, retracts : SUBSET {"thesis", "universe", "hours"},
            limits : SUBSET Limits, waives : BOOLEAN, cheap : BOOLEAN,
            runNow : BOOLEAN, source : Sources \cup {NoSource}]

ASSUME DialogueAssumption ==
    /\ None \notin Theses /\ NoSource \notin Sources
    /\ Family \in [Theses -> Families]
    /\ Hours \subseteq Nat \ {0}
    /\ IsFiniteSet(Parts) /\ Parts # {}
    /\ "momentum" \notin Limits
    /\ Unlicensed \subseteq Sources /\ Configured \subseteq Sources \ Unlicensed
    /\ SourceMarket \in [Sources -> Markets]
    /\ Messages \subseteq Message
    /\ Rollouts \subseteq BOOLEAN
    /\ MaxTurns \in Nat /\ MaxOpened \in Nat

VARIABLES
    status,     \* of the research
    brief,      \* the five slots
    intake,     \* the sentence waiting for a family, the answers about it
    proposal,   \* active_proposal
    source,     \* data_source_id
    card,       \* pending_confirm
    version,    \* the brief, opener and source of the latest version
    committed,  \* has the latest version a round
    stamps,     \* unlicensedAcknowledgements of settings.json
    heard,      \* ghost: what the user has said, in so many words (picked: the
                \* sentences for which, or None when none stood, a family was named)
    legacy,     \* ghost: some message was handled with the rollout closed
    turns, opened \* how much of the bounds was used

vars == <<status, brief, intake, proposal, source, card, version, committed,
          stamps, heard, legacy, turns, opened>>

Statuses == {"draft", "running", "paused", "awaiting_confirm"}
Briefs == [thesis : Theses \cup {None}, universe : Markets \cup {None, "open"},
           hours : Hours \cup {0}, methods : BOOLEAN, floor : SUBSET Parts]
Empty  == [thesis |-> None, universe |-> None, hours |-> 0, methods |-> FALSE,
           floor |-> {}]
Intakes == [pending : Theses \cup {None}, repicked : Families \cup {None},
            adopted : BOOLEAN, declined : BOOLEAN]
Blocks == {"", "capability", "meaning"}

\* The slots a fingerprint covers; a partial floor is not stored in the brief.
Fingerprint(b) == [b EXCEPT !.floor = IF @ = Parts THEN @ ELSE {}]
Proposals == [limits : SUBSET (Limits \cup {"momentum"}), waived : BOOLEAN,
              block : Blocks, names : Sources \cup {NoSource}, print : Briefs]
NoProposal == [limits |-> {}, waived |-> FALSE, block |-> "none",
               names |-> NoSource, print |-> Empty]
NoCard == [kind |-> "none", patch |-> Empty, slots |-> {}, returns |-> "paused"]
NoVersion == [by |-> "none", brief |-> Empty, source |-> NoSource, bound |-> FALSE]
Openers == {"confirm_run", "economic_confirm", "modified_settings_confirm"}
Slots == {"thesis", "universe", "hours", "methods", "floor"}

TypeOK ==
    /\ status \in Statuses
    /\ brief \in Briefs
    /\ intake \in Intakes
    /\ proposal \in Proposals \cup {NoProposal}
    /\ source \in Sources \cup {NoSource}
    /\ card \in [kind : {"logic", "settings"}, patch : Briefs,
                 slots : SUBSET Slots, returns : Statuses] \cup {NoCard}
    /\ (card # NoCard) <=> (status = "awaiting_confirm")
    /\ version \in [by : Openers, brief : Briefs, source : Sources \cup {NoSource},
                    bound : BOOLEAN]
                   \cup {NoVersion}
    /\ (version = NoVersion) <=> (status = "draft")
    /\ committed \in BOOLEAN /\ legacy \in BOOLEAN
    /\ stamps \subseteq Unlicensed
    /\ heard \in [limits : SUBSET Limits, waived : BOOLEAN, agreed : BOOLEAN,
                  picked : SUBSET (Theses \cup {None}), ticked : SUBSET Sources]
    /\ turns \in 0 .. MaxTurns /\ opened \in 0 .. MaxOpened

Init ==
    /\ status = "draft" /\ brief = Empty
    /\ intake = [pending |-> None, repicked |-> None, adopted |-> FALSE,
                 declined |-> FALSE]
    /\ proposal = NoProposal /\ source = NoSource /\ card = NoCard
    /\ version = NoVersion /\ committed = FALSE /\ stamps = {}
    /\ heard = [limits |-> {}, waived |-> FALSE, agreed |-> FALSE, picked |-> {},
                ticked |-> {}]
    /\ legacy = FALSE /\ turns = 0 /\ opened = 0

AllSet(b) == /\ b.thesis # None /\ b.universe # None /\ b.hours # 0
             /\ b.methods /\ b.floor = Parts

----------------------------------------------------------------------------
(* The family question *)

ShowAck ==
    /\ ~intake.adopted /\ ~intake.declined
    /\ \/ intake.repicked \notin {None, "mean_reversion"}
       \/ Outcome(brief.thesis) = "disclose"

ShowChips ==
    /\ intake.repicked = None
    /\ \/ intake.declined
       \/ intake.pending # None
       \/ Outcome(brief.thesis) = "block"

Blocked ==
    /\ intake.repicked = None
    /\ "block" \in {Outcome(intake.pending), Outcome(brief.thesis)}

Standing == IF intake.pending # None THEN intake.pending ELSE brief.thesis

\* A yes, a no and a family name are mutually exclusive readings of a message.
Declines(m) == m.says = "no" /\ ShowAck
Adopts(m) ==
    /\ m.says = "yes" /\ Standing # None
    /\ ~(Outcome(Standing) = "block" /\ intake.repicked = None)
    /\ \/ intake.repicked \notin {None, "mean_reversion"}
       \/ Outcome(Standing) = "disclose"
Picks(m) ==
    /\ m.says # "yes" /\ Outcome(m.text) \in {"run", "disclose"}
    /\ ShowAck \/ ShowChips

\* apply_intent of the pending sentence as the thesis.
Stored(b) == IF intake.pending = None THEN b ELSE [b EXCEPT !.thesis = intake.pending]

Answered(adopted) ==
    [intake EXCEPT !.pending = None, !.adopted = adopted, !.declined = FALSE]

\* _apply_family_repick: the button and the typed name share it.
PickedBrief ==
    IF brief.thesis = None THEN Stored(brief) ELSE brief
PickedIntake(m) ==
    [Answered(Outcome(m.text) = "run") EXCEPT !.repicked = Family[m.text]]

----------------------------------------------------------------------------
(* The other answers *)

\* A correction that quotes another duration than the stored one.
Conflict(m) == m.corrects /\ m.from # 0 /\ brief.hours # 0 /\ m.from # brief.hours

\* correction_updates: a new duration for a slot that is filled.
Corrects(m) == m.corrects /\ ~Conflict(m)

\* _fill_slot and _extras_from_any_slot: the value this message has for each
\* slot.  A strategy without a market has a universe with an open market.
Read(m) ==
    [thesis |-> m.text,
     universe |-> IF m.market # None THEN m.market
                  ELSE IF m.text # None THEN "open" ELSE None,
     hours |-> m.hours, methods |-> m.methods, floor |-> m.floor]

\* interpret: the slots it may set.
Fills(m) ==
    {s \in Slots :
        \/ s = "thesis" /\ brief.thesis = None /\ m.text # None
        \/ s = "universe" /\ brief.universe = None
             /\ (m.market # None \/ (m.text # None /\ brief.thesis = None))
        \/ s = "hours" /\ m.hours # 0
             /\ (brief.hours = 0 \/ Corrects(m))
        \/ s = "methods" /\ m.methods /\ ~brief.methods
        \/ s = "floor" /\ m.floor = Parts /\ brief.floor # Parts}

\* A family that cannot run and words that name none are not a thesis slot.
Unfit(m) == "thesis" \in Fills(m) /\ Outcome(m.text) \in {"block", "none"}
Refused(m) == "thesis" \in Fills(m) /\ Outcome(m.text) = "block"
Kept(m) ==
    CASE Refused(m)                 -> Fills(m) \cap {"universe"}
      [] Unfit(m) /\ ~Refused(m)    -> Fills(m) \ {"thesis", "universe"}
      [] ~Unfit(m)                  -> Fills(m)

Patched(b, slots, values) ==
    [s \in DOMAIN b |-> IF s \in slots THEN values[s] ELSE b[s]]

\* _apply_coverage_scratch: the numbers of earlier messages are kept.
Gathered(b, m) == IF b.floor = Parts THEN b ELSE [b EXCEPT !.floor = @ \cup m.floor]

Withdrawn(b, slots) ==
    Patched(b, slots, [Empty EXCEPT !.floor = IF b.floor = Parts THEN {} ELSE b.floor])

\* While a family answer is open, a message does not replace the thesis.
Guarded(m) == ShowAck \/ ShowChips
Taken(m) == IF Guarded(m) THEN Kept(m) \ {"thesis"} ELSE Kept(m)
Repeats(m) == Guarded(m) /\ Kept(m) # {} /\ Taken(m) = {} /\ m.retracts = {}

AnsweredBrief(m) ==
    CASE m.retracts # {} -> Gathered(Withdrawn(brief, m.retracts), m)
      [] m.retracts = {} /\ Repeats(m) -> brief
      [] m.retracts = {} /\ ~Repeats(m) /\ Refused(m) ->
           Patched(brief, Taken(m), Read(m))
      [] m.retracts = {} /\ ~Repeats(m) /\ ~Refused(m) ->
           Gathered(Patched(brief, Taken(m), Read(m)), m)

AnsweredIntake(m) ==
    IF m.retracts # {} \/ Repeats(m) THEN intake
    ELSE IF Unfit(m) THEN [intake EXCEPT !.pending = m.text]
    ELSE IF "thesis" \in Taken(m) THEN [intake EXCEPT !.pending = None]
    ELSE intake

----------------------------------------------------------------------------
(* rules_propose: what the turn makes of the constraints named so far *)

\* original: the stored thesis, the pending sentence, or the message itself.
Original(m, b, i) ==
    IF b.thesis # None THEN b.thesis
    ELSE IF i.pending # None THEN i.pending ELSE m.text

\* Slip: the constraints of the message alone.
CarriedFresh(m) == m.limits
Carried(m) == proposal.limits \cup m.limits
Waived(m)  == proposal.waived \/ m.waives

BlockOf(m, b, i) ==
    LET outcome == Outcome(Original(m, b, i))
        capability == Carried(m) # {} /\ ~Waived(m) /\ outcome = "run"
        repicked   == i.repicked = "mean_reversion" /\ outcome = "block"
        unclear    == m.cheap /\ outcome \in {"none", "run"}
    IN  IF unclear /\ (outcome = "none" \/ ~capability) THEN "meaning"
        ELSE IF capability /\ ~repicked THEN "capability"
        ELSE IF Conflict(m) THEN "meaning" ELSE ""

Propose(m, b, i) ==
    LET outcome == Outcome(Original(m, b, i))
        stopped == outcome = "block" /\ i.repicked # "mean_reversion"
    IN  [limits |-> Carried(m) \cup (IF stopped THEN {"momentum"} ELSE {}),
         waived |-> Waived(m) /\ (Carried(m) = {} \/ outcome = "run"),
         block  |-> BlockOf(m, b, i),
         names  |-> IF m.source # NoSource THEN m.source ELSE proposal.names,
         print  |-> Fingerprint(b)]

\* What the user has said while proposals were read, whatever came of it.
Heard(m, v2) == IF v2 THEN [heard EXCEPT !.limits = @ \cup m.limits, !.waived = @ \/ m.waives]
                ELSE heard

\* One turn of a draft: the branch's brief and intake, and a fresh proposal.
\* Bound: a message with the rollout closed is the last of the behaviour.
Turn(m, v2, b, i) ==
    /\ brief' = b /\ intake' = i
    /\ proposal' = IF v2 THEN Propose(m, b, i) ELSE proposal
    /\ legacy' = (legacy \/ ~v2)
    /\ turns' = turns + 1
    /\ UNCHANGED <<status, source, card, version, committed, stamps, opened>>

DeclineFamily(m, v2) ==
    /\ ~m.runNow /\ Declines(m)
    /\ Turn(m, v2, brief, [intake EXCEPT !.declined = TRUE])
    /\ heard' = Heard(m, v2)

AdoptFamily(m, v2) ==
    /\ ~m.runNow /\ ~Declines(m) /\ Adopts(m)
    /\ Turn(m, v2,
            IF intake.repicked \in {None, "mean_reversion"} THEN Stored(brief) ELSE brief,
            Answered(TRUE))
    /\ heard' = [Heard(m, v2) EXCEPT !.agreed = TRUE]

PickFamily(m, v2) ==
    /\ ~m.runNow /\ ~Declines(m) /\ ~Adopts(m) /\ Picks(m)
    /\ Turn(m, v2, PickedBrief, PickedIntake(m))
    /\ heard' = [Heard(m, v2) EXCEPT !.picked = @ \cup {PickedBrief.thesis}]

\* A blocked family goes no further, the unexplained word is asked about, a
\* demand to start is answered with a note: nothing changes but the proposal.
Asks(m) == m.cheap /\ Outcome(m.text) = "none"
AnswerOnly(m, v2) ==
    /\ \/ m.runNow
       \/ ~Declines(m) /\ ~Adopts(m) /\ ~Picks(m) /\ (Blocked \/ Asks(m))
    /\ Turn(m, v2, brief, intake)
    /\ heard' = Heard(m, v2)

AnswerSlots(m, v2) ==
    /\ ~m.runNow /\ ~Declines(m) /\ ~Adopts(m) /\ ~Picks(m) /\ ~Blocked /\ ~Asks(m)
    /\ Turn(m, v2, AnsweredBrief(m), AnsweredIntake(m))
    /\ heard' = Heard(m, v2)

----------------------------------------------------------------------------
(* Buttons of the draft *)

\* unlock_brief: one slot or all.  The proposal and the answers stay.
Unlock(slots) ==
    /\ status = "draft" /\ turns < MaxTurns
    /\ brief' = Withdrawn(brief, slots) /\ brief' # brief
    /\ turns' = turns + 1
    /\ UNCHANGED <<status, intake, proposal, source, card, version, committed,
                   stamps, heard, legacy, opened>>

\* choose_default_market: the chip that answers a sentence without a market.
ChooseMarket(market) ==
    /\ status = "draft" /\ brief.universe = "open"
    /\ brief' = [brief EXCEPT !.universe = market]
    /\ UNCHANGED <<status, intake, proposal, source, card, version, committed,
                   stamps, heard, legacy, turns, opened>>

\* available_price_sources: what is configured for the market, and its built-in.
MarketOf(universe) == IF universe = "open" THEN "CN" ELSE universe
Offered == {s \in Configured \cup Unlicensed : SourceMarket[s] = MarketOf(brief.universe)}

\* record_acknowledgement keeps the stamp a source has.
Stamped(s, ticked) == IF s \in Unlicensed /\ ticked THEN stamps \cup {s} ELSE stamps
Ticked(s, ticked)  == IF ticked /\ s # NoSource THEN [heard EXCEPT !.ticked = @ \cup {s}]
                      ELSE heard

\* remember_price_source; the settings file is written before the row is.
SetSource(s, ticked) ==
    /\ status = "draft"
    /\ \/ s = NoSource /\ ~ticked
       \/ brief.universe # None /\ s \in Offered
    /\ source' = s
    /\ stamps' = Stamped(s, ticked) /\ heard' = Ticked(s, ticked)
    /\ UNCHANGED <<status, brief, intake, proposal, card, version, committed,
                   legacy, turns, opened>>

----------------------------------------------------------------------------
(* Confirm and run *)

\* The requested source, the stored one, or the one licensed source there is.
Resolvable == brief.universe \in Markets
Licensed == {s \in Configured : SourceMarket[s] = brief.universe}
Effective(asked) ==
    IF asked # NoSource THEN asked
    ELSE IF source # NoSource THEN source
    ELSE IF Resolvable /\ Cardinality(Licensed) = 1 THEN CHOOSE s \in Licensed : TRUE
    ELSE NoSource

\* _thesis_for_gate and the family part of evaluate_run_gate.
GateThesis ==
    IF intake.repicked = None /\ Outcome(intake.pending) = "block"
    THEN intake.pending ELSE brief.thesis
\* Slip: a disclosed family opens without the answer.
FamilyOpenUnasked ==
    \/ intake.repicked # None
    \/ Outcome(GateThesis) \in {"run", "none", "disclose"}
FamilyOpen ==
    \/ intake.repicked = "mean_reversion"
    \/ intake.repicked \notin {None, "mean_reversion"} /\ intake.adopted
    \/ /\ intake.repicked = None
       /\ \/ Outcome(GateThesis) \in {"run", "none"}
          \/ Outcome(GateThesis) = "disclose" /\ intake.adopted

\* reject_source_market_mismatch: a chosen source is one of the brief's market.
SourceMatches(s) ==
    s # NoSource /\ brief.universe # None => SourceMarket[s] = MarketOf(brief.universe)

\* Slip: the acknowledgement of the stored choice counts for the requested one.
SourceOpenStored(s, ticked) ==
    /\ Resolvable => s # NoSource
    /\ source \in Unlicensed => source \in stamps \/ ticked
    /\ SourceMatches(s)

SourceOpen(s, ticked) ==
    /\ Resolvable => s # NoSource
    /\ s \in Unlicensed => s \in stamps \/ ticked
    /\ SourceMatches(s)

ProposalOpen(s) ==
    proposal # NoProposal =>
        /\ proposal.block = ""
        /\ proposal.names \in {NoSource, s} \/ s = NoSource

RunGate(s, ticked) ==
    /\ brief.universe # "open"
    /\ FamilyOpen
    /\ SourceOpen(s, ticked)
    /\ ProposalOpen(s)

\* assert_reply_binds_proposal, for a confirm that names the proposal.
Bound == proposal # NoProposal /\ AllSet(brief) => proposal.print = Fingerprint(brief)

Opens(by, b, s, bound) ==
    /\ status' = "running" /\ brief' = b /\ card' = NoCard
    /\ version' = [by |-> by, brief |-> b, source |-> s, bound |-> bound]
    /\ committed' = FALSE
    /\ opened' = opened + 1

\* The stamp is stored before the market probe.  The probe answers, finds no
\* pool and reopens the universe, or fails and leaves a notice.
ConfirmRun(asked, ticked) ==
    LET s == Effective(asked)
    IN  /\ status = "draft" /\ opened < MaxOpened
        /\ RunGate(s, ticked)
        /\ stamps' = IF s \in Unlicensed THEN stamps \cup {s} ELSE stamps
        /\ heard' = Ticked(s, ticked)
        /\ \/ /\ AllSet(brief)
              /\ \E replies \in BOOLEAN :
                    (replies => Bound) /\ Opens("confirm_run", brief, s, replies)
              /\ source' = s
           \/ /\ brief' = [brief EXCEPT !.universe = None]
              /\ source' = s
              /\ UNCHANGED <<status, card, version, committed, opened>>
           \/ /\ source' = s
              /\ UNCHANGED <<status, brief, card, version, committed, opened>>
        /\ UNCHANGED <<intake, proposal, legacy, turns>>

----------------------------------------------------------------------------
(* A research that has run *)

\* interpret_modification reads every slot, filled or not, and no family.
Revised(m) ==
    {s \in Slots :
        \/ s = "thesis" /\ m.text # None
        \/ s = "universe" /\ (m.market # None \/ m.text # None)
        \/ s = "hours" /\ m.hours # 0 /\ ~Conflict(m)
        \/ s = "methods" /\ m.methods
        \/ s = "floor" /\ m.floor = Parts}

RequestCard(kind, slots, values) ==
    /\ card' = [kind |-> kind, patch |-> Patched(Empty, slots, values),
                slots |-> slots, returns |-> status]
    /\ status' = "awaiting_confirm"

\* A message about a research that has run: "change the logic" or a new value
\* asks for a card, unless one is open; the old parser edits the brief.
Revise(m, v2, logic) ==
    /\ m.retracts = {}
    /\ turns' = turns + 1 /\ legacy' = (legacy \/ ~v2)
    /\ \/ /\ v2 /\ card = NoCard
          /\ \/ logic /\ m.text # None /\ RequestCard("logic", {"thesis"}, Read(m))
             \/ ~logic /\ Revised(m) # {} /\ RequestCard("settings", Revised(m), Read(m))
          /\ UNCHANGED brief
       \/ /\ ~v2 /\ ~logic
          /\ brief' = Patched(brief, Revised(m), Read(m)) /\ brief' # brief
          /\ UNCHANGED <<status, card>>
    /\ UNCHANGED <<intake, proposal, source, version, committed, stamps, heard, opened>>

\* resolve_confirm; an economic change has to cite a committed attempt.
Approve ==
    /\ card # NoCard /\ opened < MaxOpened
    /\ card.kind = "settings" \/ committed
    /\ Opens("economic_confirm", Patched(brief, card.slots, card.patch), source, FALSE)
    /\ UNCHANGED <<intake, proposal, source, stamps, heard, legacy, turns>>

\* Slip: pause and edit takes the patch over.
DismissIntoBrief(to) ==
    /\ card # NoCard /\ to \in {card.returns, "paused"}
    /\ status' = to /\ card' = NoCard
    /\ brief' = Patched(brief, card.slots, card.patch)
    /\ UNCHANGED <<intake, proposal, source, version, committed, stamps,
                   heard, legacy, turns, opened>>

Dismiss(to) ==
    /\ card # NoCard
    /\ to \in {card.returns, "paused"}
    /\ status' = to /\ card' = NoCard
    /\ UNCHANGED <<brief, intake, proposal, source, version, committed, stamps,
                   heard, legacy, turns, opened>>

\* confirm_modification: refused while it runs and when nothing changed.
ConfirmModification ==
    /\ status \in {"paused", "awaiting_confirm"} /\ opened < MaxOpened
    /\ brief # version.brief
    /\ Opens("modified_settings_confirm", brief, source, FALSE)
    /\ UNCHANGED <<intake, proposal, source, stamps, heard, legacy, turns>>

\* The run itself: a pause, a resume, the first round of a version.
Run ==
    /\ \/ status = "running" /\ status' = "paused" /\ UNCHANGED committed
       \/ status = "paused" /\ status' = "running" /\ UNCHANGED committed
       \/ status = "running" /\ ~committed /\ committed' = TRUE /\ UNCHANGED status
    /\ UNCHANGED <<brief, intake, proposal, source, card, version, stamps, heard,
                   legacy, turns, opened>>

Next ==
    \/ /\ turns < MaxTurns /\ ~legacy
       /\ \E m \in Messages, v2 \in Rollouts :
           \/ /\ status = "draft"
              /\ \/ DeclineFamily(m, v2) \/ AdoptFamily(m, v2) \/ PickFamily(m, v2)
                 \/ AnswerOnly(m, v2) \/ AnswerSlots(m, v2)
           \/ /\ status # "draft"
              /\ \E logic \in BOOLEAN : Revise(m, v2, logic)
    \/ \E s \in Slots : Unlock({s})
    \/ Unlock(Slots)
    \/ \E market \in Markets : ChooseMarket(market)
    \/ \E s \in Sources \cup {NoSource}, ticked \in BOOLEAN :
        \/ SetSource(s, ticked)
        \/ ConfirmRun(s, ticked)
    \/ Approve
    \/ \E to \in Statuses \ {"draft", "awaiting_confirm"} : Dismiss(to)
    \/ ConfirmModification
    \/ Run

Spec == Init /\ [][Next]_vars

----------------------------------------------------------------------------
(* Properties *)

Ran == version # NoVersion
Confirmed == Ran /\ version.by = "confirm_run"

\* A draft whose thesis names a family that does not run is never started as
\* mean reversion in silence: the user named a supported family while a
\* blocked sentence stood, and for a disclosed one said yes or named one.
\* The answers outlive the sentence they were given for (turns.py:120-155,
\* run_gate.py:85-97): the thesis may be withdrawn and replaced in between.
FamilyWasAnswered ==
    Confirmed =>
        /\ Outcome(version.brief.thesis) = "block" => version.brief.thesis \in heard.picked
        /\ Outcome(version.brief.thesis) = "disclose" => heard.agreed \/ heard.picked # {}

\* A constraint the engine cannot execute survives every later turn: a plain
\* mean-reversion draft does not start while one named earlier is neither
\* executable nor waived in words (proposal.py:317-327, 382-400).  A message
\* handled without proposals leaves an old one behind; then it holds for the
\* confirm that names the proposal.
LimitsStopTheRun ==
    Confirmed /\ (legacy => version.bound) /\ Outcome(version.brief.thesis) = "run" =>
        heard.limits = {} \/ heard.waived

\* Prices for personal research only are used after the user ticked that very
\* source, whichever call stored the stamp, and they are of the market that
\* the confirmed brief names (run_gate.py:99-121, source_acknowledgement.py).
SourceWasTicked ==
    Confirmed =>
        /\ version.source \in Unlicensed =>
               version.source \in heard.ticked \cap stamps
        /\ version.brief.universe \in Markets
        /\ version.source # NoSource =>
               SourceMarket[version.source] = version.brief.universe

\* Once a version is open, a sentence never changes the brief: the change waits
\* on a card, and the brief is the one of the latest version until the card is
\* approved, whatever was asked, paused, dismissed or resumed in between
\* (dialogue/actions.py:1-5).
BriefWaits == Ran /\ ~legacy => brief = version.brief

\* Momentum is never quietly replaced by mean reversion: whoever opens a
\* version with such a thesis named a supported family for it (README.md:67).
MomentumNotReplaced ==
    Ran /\ Outcome(version.brief.thesis) = "block" => version.brief.thesis \in heard.picked

\* What runs is what was agreed: the brief of an open version changes only by
\* a card, and no constraint named on the way was dropped.
BriefIsAgreed == TypeOK /\ BriefWaits /\ LimitsStopTheRun
=============================================================================
