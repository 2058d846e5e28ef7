------------------------ MODULE DraftDialogueProofs ------------------------
(***************************************************************************)
(* What runs was agreed, answered for and ticked, for all sets of theses,  *)
(* messages and sources, and conversations of any length: a draft keeps    *)
(* what the gate will ask for, and a research that runs keeps its brief.   *)
(*                                                                         *)
(* None of the properties is inductive: they are about the version, which  *)
(* is opened from answers that were given many turns before.  LimitsInv    *)
(* says what the last proposal knows of all that was said, FamilyInv that  *)
(* each family answer the intake holds was heard, and SourceInv that each  *)
(* stamp was ticked.                                                       *)
(***************************************************************************)
EXTENDS DraftDialogue, FiniteSetTheorems, TLAPS

-----------------------------------------------------------------------------
(* What carries the properties                                             *)

\* The proposal has every constraint that was named and no waiver that was
\* not, it is free only if none stands in the way of the thesis it covers,
\* and that thesis is the draft's, unless it was withdrawn since.
LimitsInv ==
    /\ heard.limits \subseteq proposal.limits
    /\ proposal.waived => heard.waived
    /\ proposal # NoProposal /\ proposal.block = ""
          /\ Outcome(proposal.print.thesis) = "run"
       => heard.limits = {} \/ heard.waived
    /\ status = "draft" /\ ~legacy /\ brief.thesis # None
       => proposal # NoProposal /\ proposal.print.thesis = brief.thesis

\* An answer the intake holds was given, and a family that cannot run is the
\* thesis only when a supported one was named for it.
FamilyInv ==
    /\ intake.adopted => heard.agreed \/ heard.picked # {}
    /\ intake.repicked # None => heard.picked # {}
    /\ status = "draft" /\ Outcome(brief.thesis) = "block" => brief.thesis \in heard.picked

\* A stamp is of a source that was ticked.
SourceInv == stamps \subseteq heard.ticked

Inv ==
    /\ TypeOK /\ LimitsInv /\ FamilyInv /\ SourceInv
    /\ BriefWaits /\ LimitsStopTheRun /\ FamilyWasAnswered /\ SourceWasTicked

-----------------------------------------------------------------------------
(* Briefs and answers                                                      *)

\* The outcomes of the classifier.
LEMMA OutcomeIs ==
  /\ Outcome(None) = "none"
  /\ \A x \in Theses \cup {None} : Outcome(x) \in {"run", "disclose", "block", "none"}
<1>1. Outcome(None) = "none"
  BY DEF Outcome
<1>2. ASSUME NEW x \in Theses, x # None
      PROVE  Outcome(x) \in {"run", "disclose", "block", "none"}
  <2>1. Family[x] \in Families
    BY DialogueAssumption
  <2>2. QED BY <1>2, <2>1 DEF Outcome, Families
<1>3. QED BY <1>1, <1>2

\* An empty brief is a brief.
LEMMA EmptyIsBrief == Empty \in Briefs
  BY DEF Empty, Briefs

\* Slots take their values from another brief.
LEMMA PatchedIsBrief ==
  ASSUME NEW b \in Briefs, NEW v \in Briefs, NEW slots
  PROVE  /\ Patched(b, slots, v) \in Briefs
         /\ Patched(b, slots, v).thesis = IF "thesis" \in slots THEN v.thesis ELSE b.thesis
  BY DEF Patched, Briefs

\* A message read as a brief.
LEMMA ReadIsBrief ==
  ASSUME NEW m \in Messages
  PROVE  Read(m) \in Briefs /\ Read(m).thesis = m.text /\ m.text \in Theses \cup {None}
<1>1. m \in Message
  BY DialogueAssumption
<1>2. /\ m.text \in Theses \cup {None} /\ m.market \in Markets \cup {None}
      /\ m.hours \in Hours \cup {0} /\ m.methods \in BOOLEAN /\ m.floor \in SUBSET Parts
  BY <1>1 DEF Message
<1>3. QED BY <1>2 DEF Read, Briefs

\* A floor of which more is known, and a brief from which slots are withdrawn.
LEMMA GatheredIsBrief ==
  ASSUME NEW b \in Briefs, NEW m \in Messages
  PROVE  Gathered(b, m) \in Briefs /\ Gathered(b, m).thesis = b.thesis
<1>1. m \in Message
  BY DialogueAssumption
<1>2. m.floor \in SUBSET Parts
  BY <1>1 DEF Message
<1>3. QED BY <1>2 DEF Gathered, Briefs

\* A withdrawal takes slots back; the thesis stays or goes.
LEMMA WithdrawnIsBrief ==
  ASSUME NEW b \in Briefs, NEW slots
  PROVE  Withdrawn(b, slots) \in Briefs /\ Withdrawn(b, slots).thesis \in {b.thesis, None}
<1> DEFINE v == [Empty EXCEPT !.floor = IF b.floor = Parts THEN {} ELSE b.floor]
<1>1. v \in Briefs /\ v.thesis = None
  BY DEF Empty, Briefs
<1>2. Withdrawn(b, slots) = Patched(b, slots, v)
  BY DEF Withdrawn
<1> HIDE DEF v
<1>3. QED BY <1>1, <1>2, PatchedIsBrief

\* A fingerprint is of the thesis of the brief.
LEMMA FingerprintIs ==
  ASSUME NEW b \in Briefs
  PROVE  Fingerprint(b) \in Briefs /\ Fingerprint(b).thesis = b.thesis
  BY DEF Fingerprint, Briefs

\* What a family answer stores: a pending sentence, where no thesis stands.
LEMMA StoredIsBrief ==
  ASSUME NEW b \in Briefs, intake \in Intakes
  PROVE  /\ Stored(b) \in Briefs
         /\ Stored(b).thesis = IF intake.pending = None THEN b.thesis ELSE intake.pending
<1>1. intake.pending \in Theses \cup {None}
  BY DEF Intakes
<1>2. QED BY <1>1 DEF Stored, Briefs

\* A supported family that was named: the thesis it stands for, and the answer.
LEMMA PickedIs ==
  ASSUME brief \in Briefs, intake \in Intakes, NEW m \in Messages, Picks(m)
  PROVE  /\ PickedBrief \in Briefs /\ PickedIntake(m) \in Intakes
         /\ PickedBrief.thesis \in Theses \cup {None}
<1>1. PickedBrief \in Briefs
  BY StoredIsBrief DEF PickedBrief
<1>2. m.text \in Theses \cup {None} /\ m.text # None
  BY ReadIsBrief, OutcomeIs DEF Picks
<1>3. Family[m.text] \in Families
  BY <1>2, DialogueAssumption
<1>4. PickedIntake(m) \in Intakes
  BY <1>3 DEF PickedIntake, Answered, Intakes
<1>5. QED BY <1>1, <1>4 DEF Briefs

\* The slots a message sets.
LEMMA AnsweredIsBrief ==
  ASSUME brief \in Briefs, intake \in Intakes, NEW m \in Messages
  PROVE  /\ AnsweredBrief(m) \in Briefs /\ AnsweredIntake(m) \in Intakes
         /\ \/ AnsweredBrief(m).thesis \in {brief.thesis, None}
            \/ Outcome(AnsweredBrief(m).thesis) # "block"
         /\ AnsweredIntake(m).adopted = intake.adopted
         /\ AnsweredIntake(m).repicked = intake.repicked
<1> DEFINE patched == Patched(brief, Taken(m), Read(m))
           drawn == Withdrawn(brief, m.retracts)
<1>1. /\ patched \in Briefs
      /\ patched.thesis = IF "thesis" \in Taken(m) THEN m.text ELSE brief.thesis
  BY PatchedIsBrief, ReadIsBrief
<1>2. drawn \in Briefs /\ drawn.thesis \in {brief.thesis, None}
  BY WithdrawnIsBrief
<1>3. "thesis" \in Taken(m) => Outcome(m.text) # "block"
  <2>1. SUFFICES ASSUME "thesis" \in Taken(m), Outcome(m.text) = "block" PROVE FALSE
    OBVIOUS
  <2>2. "thesis" \in Kept(m)
    BY <2>1 DEF Taken
  <2>3. CASE "thesis" \in Fills(m)
    <3>1. Refused(m) /\ Unfit(m)
      BY <2>1, <2>3 DEF Refused, Unfit
    <3>2. Kept(m) = Fills(m) \cap {"universe"}
      BY <3>1 DEF Kept
    <3>3. QED BY <2>2, <3>2
  <2>4. CASE "thesis" \notin Fills(m)
    <3>1. ~Refused(m) /\ ~Unfit(m)
      BY <2>4 DEF Refused, Unfit
    <3>2. Kept(m) = Fills(m)
      BY <3>1 DEF Kept
    <3>3. QED BY <2>2, <2>4, <3>2
  <2>5. QED BY <2>3, <2>4
<1> HIDE DEF patched, drawn
<1>4. /\ AnsweredBrief(m) \in {brief, patched, Gathered(patched, m), Gathered(drawn, m)}
  BY DEF AnsweredBrief, patched, drawn
<1>5. /\ Gathered(patched, m) \in Briefs /\ Gathered(patched, m).thesis = patched.thesis
      /\ Gathered(drawn, m) \in Briefs /\ Gathered(drawn, m).thesis = drawn.thesis
  BY <1>1, <1>2, GatheredIsBrief
<1>6. AnsweredIntake(m) \in Intakes /\ AnsweredIntake(m).adopted = intake.adopted
      /\ AnsweredIntake(m).repicked = intake.repicked
  BY ReadIsBrief DEF AnsweredIntake, Intakes
<1>7. CASE AnsweredBrief(m) = brief
  BY <1>6, <1>7
<1>8. CASE AnsweredBrief(m) \in {patched, Gathered(patched, m)}
  BY <1>1, <1>3, <1>5, <1>6, <1>8
<1>9. CASE AnsweredBrief(m) = Gathered(drawn, m)
  BY <1>2, <1>5, <1>6, <1>9
<1>10. QED BY <1>4, <1>7, <1>8, <1>9

\* What the user has said.
Said == [limits : SUBSET Limits, waived : BOOLEAN, agreed : BOOLEAN,
         picked : SUBSET (Theses \cup {None}), ticked : SUBSET Sources]

-----------------------------------------------------------------------------
(* Proposals                                                               *)

\* A proposal made with a message covers what was said before and now.
LEMMA ProposedIs ==
  ASSUME Inv, NEW m \in Messages, NEW b \in Briefs, NEW i \in Intakes
  PROVE  LET p == Propose(m, b, i)
         IN  /\ p \in Proposals /\ p # NoProposal
             /\ heard.limits \cup m.limits \subseteq p.limits
             /\ p.waived => heard.waived \/ m.waives
             /\ p.print.thesis = b.thesis
             /\ p.block = "" /\ Outcome(b.thesis) = "run"
                   => heard.limits \cup m.limits = {} \/ heard.waived \/ m.waives
<1> DEFINE p == Propose(m, b, i)
<1>1. m \in Message
  BY DialogueAssumption
<1>2. /\ m.limits \in SUBSET Limits /\ m.waives \in BOOLEAN
      /\ m.source \in Sources \cup {NoSource}
  BY <1>1 DEF Message
<1>3. /\ proposal.limits \in SUBSET (Limits \cup {"momentum"})
      /\ proposal.waived \in BOOLEAN
      /\ proposal.names \in Sources \cup {NoSource}
  <2>1. proposal \in Proposals \cup {NoProposal}
    BY DEF Inv, TypeOK
  <2>2. CASE proposal \in Proposals
    BY <2>2 DEF Proposals
  <2>3. CASE proposal = NoProposal
    BY <2>3 DEF NoProposal
  <2>4. QED BY <2>1, <2>2, <2>3
<1>4. /\ p.limits = Carried(m) \cup
            (IF Outcome(Original(m, b, i)) = "block" /\ i.repicked # "mean_reversion"
             THEN {"momentum"} ELSE {})
      /\ p.waived = (Waived(m) /\ (Carried(m) = {} \/ Outcome(Original(m, b, i)) = "run"))
      /\ p.block = BlockOf(m, b, i)
      /\ p.names = (IF m.source # NoSource THEN m.source ELSE proposal.names)
      /\ p.print = Fingerprint(b)
  BY DEF Propose
<1>5. BlockOf(m, b, i) \in Blocks
  BY DEF BlockOf, Blocks
<1>6. Waived(m) \in BOOLEAN /\ (Waived(m) <=> proposal.waived \/ m.waives)
  BY <1>2, <1>3 DEF Waived
<1>7. Carried(m) = proposal.limits \cup m.limits
  BY DEF Carried
<1>8. p \in Proposals
  <2>1. Fingerprint(b) \in Briefs
    BY FingerprintIs
  <2>2. p.waived \in BOOLEAN
    BY <1>4
  <2>3. p.limits \in SUBSET (Limits \cup {"momentum"})
    BY <1>2, <1>3, <1>4, <1>7
  <2>4. p = [limits |-> p.limits, waived |-> p.waived, block |-> p.block,
             names |-> p.names, print |-> p.print]
    BY DEF Propose
  <2> HIDE DEF p
  <2>5. QED BY <1>2, <1>3, <1>4, <1>5, <2>1, <2>2, <2>3, <2>4 DEF Proposals
<1>9. p.block \in Blocks
  BY <1>4, <1>5
<1>10. NoProposal.block \notin Blocks
  BY DEF NoProposal, Blocks
<1>11. heard.limits \subseteq proposal.limits /\ (proposal.waived => heard.waived)
  BY DEF Inv, LimitsInv
<1>12. p.print.thesis = b.thesis
  BY <1>4, FingerprintIs
<1>13. ASSUME p.block = "", Outcome(b.thesis) = "run"
       PROVE  heard.limits \cup m.limits = {} \/ heard.waived \/ m.waives
  <2>1. Original(m, b, i) = b.thesis
    BY <1>13, OutcomeIs DEF Original
  <2>2. Carried(m) = {} \/ Waived(m)
    BY <1>4, <1>13, <2>1 DEF BlockOf
  <2>3. QED BY <1>6, <1>7, <1>11, <2>2
<1> HIDE DEF p
<1>14. p # NoProposal
  BY <1>9, <1>10
<1>15. heard.limits \cup m.limits \subseteq p.limits
  BY <1>4, <1>7, <1>11
<1>16. p.waived => heard.waived \/ m.waives
  BY <1>4, <1>6, <1>11
<1>17. QED BY <1>8, <1>12, <1>13, <1>14, <1>15, <1>16 DEF p

\* What a message adds to what was said.
LEMMA HeardIs ==
  ASSUME TypeOK, NEW m \in Messages, NEW v2 \in BOOLEAN
  PROVE  LET h == Heard(m, v2)
         IN  /\ h \in Said
             /\ h.limits = IF v2 THEN heard.limits \cup m.limits ELSE heard.limits
             /\ h.waived <=> heard.waived \/ (v2 /\ m.waives)
             /\ h.agreed = heard.agreed /\ h.picked = heard.picked
             /\ h.ticked = heard.ticked
<1>1. m \in Message
  BY DialogueAssumption
<1>2. m.limits \in SUBSET Limits /\ m.waives \in BOOLEAN
  BY <1>1 DEF Message
<1>3. heard \in Said
  BY DEF TypeOK, Said
<1>4. QED BY <1>2, <1>3 DEF Heard, Said

-----------------------------------------------------------------------------
(* A turn of the draft                                                     *)

\* A turn that answers with the brief b and the intake i, and was heard as h,
\* when each answer in i was heard.
LEMMA TurnKeeps ==
  ASSUME Inv, status = "draft", turns < MaxTurns, ~legacy,
         NEW m \in Messages, NEW v2 \in BOOLEAN, NEW b \in Briefs, NEW i \in Intakes,
         Turn(m, v2, b, i), NEW h \in Said, heard' = h,
         h.limits = Heard(m, v2).limits, h.waived = Heard(m, v2).waived,
         h.ticked = heard.ticked,
         i.adopted => h.agreed \/ h.picked # {},
         i.repicked # None => h.picked # {},
         Outcome(b.thesis) = "block" => b.thesis \in h.picked
  PROVE  Inv'
<1>1. /\ brief' = b /\ intake' = i /\ turns' = turns + 1
      /\ proposal' = (IF v2 THEN Propose(m, b, i) ELSE proposal)
      /\ legacy' = (legacy \/ ~v2)
      /\ UNCHANGED <<status, source, card, version, committed, stamps, opened>>
  BY DEF Turn
<1>2. /\ h.limits = IF v2 THEN heard.limits \cup m.limits ELSE heard.limits
      /\ h.waived <=> heard.waived \/ (v2 /\ m.waives)
  BY HeardIs DEF Inv
<1>3. version = NoVersion
  BY DEF Inv, TypeOK
<1>4. proposal' \in Proposals \cup {NoProposal}
  BY <1>1, ProposedIs DEF Inv, TypeOK
<1>5. TypeOK'
  <2>1. turns' \in 0 .. MaxTurns
    BY <1>1, DialogueAssumption DEF Inv, TypeOK
  <2>2. heard' \in [limits : SUBSET Limits, waived : BOOLEAN, agreed : BOOLEAN,
                    picked : SUBSET (Theses \cup {None}), ticked : SUBSET Sources]
    BY DEF Said
  <2>3. QED BY <1>1, <1>4, <2>1, <2>2 DEF Inv, TypeOK
<1>6. LimitsInv'
  <2>1. CASE v2
    <3> DEFINE p == Propose(m, b, i)
    <3>1. proposal' = p /\ brief' = b /\ heard' = h
      BY <1>1, <2>1
    <3>2. /\ p # NoProposal
          /\ heard.limits \cup m.limits \subseteq p.limits
          /\ p.waived => heard.waived \/ m.waives
          /\ p.print.thesis = b.thesis
          /\ p.block = "" /\ Outcome(b.thesis) = "run"
                => heard.limits \cup m.limits = {} \/ heard.waived \/ m.waives
      BY ProposedIs
    <3> HIDE DEF p
    <3>3. QED BY <1>2, <2>1, <3>1, <3>2 DEF LimitsInv
  <2>2. CASE ~v2
    BY <1>1, <1>2, <2>2 DEF Inv, LimitsInv
  <2>3. QED BY <2>1, <2>2
<1>7. FamilyInv'
  BY <1>1 DEF FamilyInv
<1>8. SourceInv'
  BY <1>1 DEF Inv, SourceInv
<1>9. BriefWaits' /\ LimitsStopTheRun' /\ FamilyWasAnswered' /\ SourceWasTicked'
  BY <1>1, <1>3 DEF BriefWaits, LimitsStopTheRun, FamilyWasAnswered, SourceWasTicked,
     Ran, Confirmed
<1>10. QED BY <1>5, <1>6, <1>7, <1>8, <1>9 DEF Inv

\* The five turns of the draft.
LEMMA DraftTurns ==
  ASSUME Inv, status = "draft", turns < MaxTurns, ~legacy,
         NEW m \in Messages, NEW v2 \in BOOLEAN,
         \/ DeclineFamily(m, v2) \/ AdoptFamily(m, v2) \/ PickFamily(m, v2)
         \/ AnswerOnly(m, v2) \/ AnswerSlots(m, v2)
  PROVE  Inv'
<1>1. brief \in Briefs /\ intake \in Intakes /\ heard \in Said
  BY DEF Inv, TypeOK, Said
<1>2. /\ intake.adopted => heard.agreed \/ heard.picked # {}
      /\ intake.repicked # None => heard.picked # {}
      /\ Outcome(brief.thesis) = "block" => brief.thesis \in heard.picked
  BY DEF Inv, FamilyInv
<1> DEFINE w == Heard(m, v2)
<1>3. w \in Said /\ w.agreed = heard.agreed /\ w.picked = heard.picked
      /\ w.ticked = heard.ticked
  BY HeardIs DEF Inv
<1>4. Outcome(None) # "block"
  BY OutcomeIs
<1>5. CASE DeclineFamily(m, v2)
  <2> DEFINE i == [intake EXCEPT !.declined = TRUE]
  <2>1. Turn(m, v2, brief, i) /\ heard' = w
    BY <1>5 DEF DeclineFamily
  <2>2. i \in Intakes /\ i.adopted = intake.adopted /\ i.repicked = intake.repicked
    BY <1>1 DEF Intakes
  <2> HIDE DEF i
  <2>3. QED BY <1>1, <1>2, <1>3, <2>1, <2>2, TurnKeeps
<1>6. CASE AdoptFamily(m, v2)
  <2> DEFINE b == IF intake.repicked \in {None, "mean_reversion"} THEN Stored(brief)
                  ELSE brief
             i == Answered(TRUE)
             h == [w EXCEPT !.agreed = TRUE]
  <2>1. Turn(m, v2, b, i) /\ heard' = h /\ Adopts(m)
    BY <1>6 DEF AdoptFamily
  <2>2. b \in Briefs
    BY <1>1, StoredIsBrief
  <2>3. i \in Intakes /\ i.repicked = intake.repicked
    BY <1>1 DEF Answered, Intakes
  <2>4. /\ h \in Said /\ h.agreed /\ h.limits = w.limits /\ h.waived = w.waived
        /\ h.picked = heard.picked /\ h.ticked = heard.ticked
    BY <1>3 DEF Said
  <2>5. Outcome(b.thesis) = "block" => b.thesis \in heard.picked
    <3>1. CASE b.thesis = brief.thesis
      BY <1>2, <3>1
    <3>2. CASE b.thesis # brief.thesis
      <4>1. /\ intake.repicked \in {None, "mean_reversion"} /\ intake.pending # None
            /\ b.thesis = intake.pending
        BY <1>1, <3>2, StoredIsBrief
      <4>2. Outcome(intake.pending) = "disclose"
        BY <2>1, <4>1 DEF Adopts, Standing
      <4>3. QED BY <4>1, <4>2
    <3>3. QED BY <3>1, <3>2
  <2> HIDE DEF b, i, h
  <2>6. QED BY <1>1, <1>2, <2>1, <2>2, <2>3, <2>4, <2>5, TurnKeeps
<1>7. CASE PickFamily(m, v2)
  <2> DEFINE b == PickedBrief
             i == PickedIntake(m)
             h == [w EXCEPT !.picked = @ \cup {b.thesis}]
  <2>1. Turn(m, v2, b, i) /\ heard' = h /\ Picks(m)
    BY <1>7 DEF PickFamily
  <2>2. b \in Briefs /\ i \in Intakes /\ b.thesis \in Theses \cup {None}
    BY <1>1, <2>1, PickedIs
  <2> HIDE DEF b, i
  <2>3. /\ h \in Said /\ h.limits = w.limits /\ h.waived = w.waived
        /\ h.ticked = heard.ticked /\ b.thesis \in h.picked
    BY <1>3, <2>2 DEF Said
  <2> HIDE DEF h
  <2>4. h.picked # {}
    BY <2>3
  <2>5. QED BY <2>1, <2>2, <2>3, <2>4, TurnKeeps
<1>8. CASE AnswerOnly(m, v2)
  <2>1. Turn(m, v2, brief, intake) /\ heard' = w
    BY <1>8 DEF AnswerOnly
  <2>2. QED BY <1>1, <1>2, <1>3, <2>1, TurnKeeps
<1>9. CASE AnswerSlots(m, v2)
  <2> DEFINE b == AnsweredBrief(m)
             i == AnsweredIntake(m)
  <2>1. Turn(m, v2, b, i) /\ heard' = w
    BY <1>9 DEF AnswerSlots
  <2>2. /\ b \in Briefs /\ i \in Intakes
        /\ b.thesis \in {brief.thesis, None} \/ Outcome(b.thesis) # "block"
        /\ i.adopted = intake.adopted /\ i.repicked = intake.repicked
    BY <1>1, AnsweredIsBrief
  <2> HIDE DEF b, i
  <2>3. Outcome(b.thesis) = "block" => b.thesis \in heard.picked
    BY <1>2, <1>4, <2>2
  <2>4. QED BY <1>2, <1>3, <2>1, <2>2, <2>3, TurnKeeps
<1>10. QED BY <1>5, <1>6, <1>7, <1>8, <1>9

-----------------------------------------------------------------------------
(* The buttons of the draft and its confirmation                           *)

\* A button that leaves the thesis or withdraws it, and ticks what it stamps.
LEMMA ButtonKeeps ==
  ASSUME Inv, status = "draft", NEW b \in Briefs, b.thesis \in {brief.thesis, None},
         brief' = b, source' \in Sources \cup {NoSource}, turns' \in 0 .. MaxTurns,
         UNCHANGED <<status, intake, proposal, card, version, committed, legacy, opened>>,
         heard' \in Said, stamps' \subseteq Unlicensed, stamps' \subseteq heard'.ticked,
         heard'.limits = heard.limits, heard'.waived = heard.waived,
         heard'.agreed = heard.agreed, heard'.picked = heard.picked
  PROVE  Inv'
<1>1. version = NoVersion
  BY DEF Inv, TypeOK
<1>2. TypeOK'
  <2>1. heard' \in [limits : SUBSET Limits, waived : BOOLEAN, agreed : BOOLEAN,
                    picked : SUBSET (Theses \cup {None}), ticked : SUBSET Sources]
    BY DEF Said
  <2>2. QED BY <2>1 DEF Inv, TypeOK
<1>3. Outcome(None) = "none"
  BY OutcomeIs
<1>4. LimitsInv'
  BY DEF Inv, LimitsInv
<1>5. FamilyInv'
  BY <1>3 DEF Inv, FamilyInv
<1>6. SourceInv'
  BY DEF SourceInv
<1>7. BriefWaits' /\ LimitsStopTheRun' /\ FamilyWasAnswered' /\ SourceWasTicked'
  BY <1>1 DEF BriefWaits, LimitsStopTheRun, FamilyWasAnswered, SourceWasTicked,
     Ran, Confirmed
<1>8. QED BY <1>2, <1>4, <1>5, <1>6, <1>7 DEF Inv

\* What a tick leaves in the settings and in what was said.
LEMMA TickedIs ==
  ASSUME Inv, NEW s \in Sources \cup {NoSource}, NEW ticked \in BOOLEAN
  PROVE  LET h == Ticked(s, ticked)
         IN  /\ h \in Said /\ h.limits = heard.limits /\ h.waived = heard.waived
             /\ h.agreed = heard.agreed /\ h.picked = heard.picked
             /\ heard.ticked \subseteq h.ticked
             /\ ticked /\ s # NoSource => s \in h.ticked
<1>1. heard \in Said
  BY DEF Inv, TypeOK, Said
<1>2. QED BY <1>1 DEF Ticked, Said

\* Withdrawing slots, choosing a market or a source.
LEMMA Buttons ==
  ASSUME Inv,
         \/ \E slots \in SUBSET Slots : Unlock(slots)
         \/ \E market \in Markets : ChooseMarket(market)
         \/ \E s \in Sources \cup {NoSource}, ticked \in BOOLEAN : SetSource(s, ticked)
  PROVE  Inv'
<1>1. /\ brief \in Briefs /\ heard \in Said /\ source \in Sources \cup {NoSource}
      /\ turns \in 0 .. MaxTurns /\ stamps \subseteq Unlicensed
      /\ stamps \subseteq heard.ticked
  BY DEF Inv, TypeOK, Said, SourceInv
<1>2. ASSUME NEW slots \in SUBSET Slots, Unlock(slots) PROVE Inv'
  <2> DEFINE b == Withdrawn(brief, slots)
  <2>1. b \in Briefs /\ b.thesis \in {brief.thesis, None}
    BY <1>1, WithdrawnIsBrief
  <2>2. /\ status = "draft" /\ brief' = b /\ turns' = turns + 1 /\ turns < MaxTurns
        /\ UNCHANGED <<status, intake, proposal, source, card, version, committed,
                       stamps, heard, legacy, opened>>
    BY <1>2 DEF Unlock
  <2>3. turns' \in 0 .. MaxTurns
    BY <1>1, <2>2, DialogueAssumption
  <2> HIDE DEF b
  <2>4. QED BY <1>1, <2>1, <2>2, <2>3, ButtonKeeps
<1>3. ASSUME NEW market \in Markets, ChooseMarket(market) PROVE Inv'
  <2> DEFINE b == [brief EXCEPT !.universe = market]
  <2>1. b \in Briefs /\ b.thesis = brief.thesis
    BY <1>1 DEF Briefs
  <2>2. /\ status = "draft" /\ brief' = b
        /\ UNCHANGED <<status, intake, proposal, source, card, version, committed,
                       stamps, heard, legacy, turns, opened>>
    BY <1>3 DEF ChooseMarket
  <2> HIDE DEF b
  <2>3. QED BY <1>1, <2>1, <2>2, ButtonKeeps
<1>4. ASSUME NEW s \in Sources \cup {NoSource}, NEW ticked \in BOOLEAN, SetSource(s, ticked)
      PROVE  Inv'
  <2>1. /\ status = "draft" /\ source' = s /\ stamps' = Stamped(s, ticked)
        /\ heard' = Ticked(s, ticked)
        /\ UNCHANGED <<status, brief, intake, proposal, card, version, committed,
                       legacy, turns, opened>>
    BY <1>4 DEF SetSource
  <2>2. /\ heard' \in Said /\ heard'.limits = heard.limits /\ heard'.waived = heard.waived
        /\ heard'.agreed = heard.agreed /\ heard'.picked = heard.picked
        /\ heard.ticked \subseteq heard'.ticked
        /\ ticked /\ s # NoSource => s \in heard'.ticked
    BY <2>1, TickedIs
  <2>3. stamps' \subseteq Unlicensed /\ stamps' \subseteq heard'.ticked
    BY <1>1, <2>1, <2>2, DialogueAssumption DEF Stamped
  <2>4. QED BY <1>1, <2>1, <2>2, <2>3, ButtonKeeps
<1>5. QED BY <1>2, <1>3, <1>4

\* The source a confirmation runs with is a source, or none is bound.
LEMMA EffectiveIs ==
  ASSUME Inv, NEW asked \in Sources \cup {NoSource}
  PROVE  Effective(asked) \in Sources \cup {NoSource}
<1>1. source \in Sources \cup {NoSource}
  BY DEF Inv, TypeOK
<1>2. ASSUME Cardinality(Licensed) = 1 PROVE (CHOOSE s \in Licensed : TRUE) \in Sources
  <2>1. Licensed # {}
    BY <1>2, FS_EmptySet
  <2>2. Licensed \subseteq Sources
    BY DialogueAssumption DEF Licensed
  <2>3. QED BY <2>1, <2>2
<1>3. QED BY <1>1, <1>2 DEF Effective

\* The gate lets a family through that was answered for.
LEMMA GateAnswers ==
  ASSUME Inv, status = "draft", FamilyOpen
  PROVE  /\ Outcome(brief.thesis) = "block" => brief.thesis \in heard.picked
         /\ Outcome(brief.thesis) = "disclose" => heard.agreed \/ heard.picked # {}
<1>1. /\ intake.adopted => heard.agreed \/ heard.picked # {}
      /\ intake.repicked # None => heard.picked # {}
      /\ Outcome(brief.thesis) = "block" => brief.thesis \in heard.picked
  BY DEF Inv, FamilyInv
<1>2. ASSUME Outcome(brief.thesis) = "disclose", intake.repicked = None
      PROVE  intake.adopted
  <2>1. "mean_reversion" # None
    BY DEF None
  <2>2. Outcome(GateThesis) \in {"run", "none"} \/ intake.adopted
    BY <1>2, <2>1 DEF FamilyOpen
  <2>3. (GateThesis = intake.pending /\ Outcome(GateThesis) = "block") \/ GateThesis = brief.thesis
    BY DEF GateThesis
  <2>4. QED BY <1>2, <2>2, <2>3
<1>3. QED BY <1>1, <1>2

\* It stops a plain thesis while a constraint stands, when the proposal covers
\* the brief.
LEMMA GateLimits ==
  ASSUME Inv, status = "draft", NEW s, ProposalOpen(s), AllSet(brief),
         Outcome(brief.thesis) = "run", ~legacy \/ Bound
  PROVE  heard.limits = {} \/ heard.waived
<1>1. brief \in Briefs
  BY DEF Inv, TypeOK
<1>2. CASE proposal = NoProposal
  BY <1>2 DEF Inv, LimitsInv, NoProposal
<1>3. CASE proposal # NoProposal
  <2>1. proposal.block = ""
    BY <1>3 DEF ProposalOpen
  <2>2. proposal.print.thesis = brief.thesis
    <3>1. CASE ~legacy
      BY <3>1 DEF Inv, LimitsInv, AllSet
    <3>2. CASE Bound
      BY <1>1, <1>3, <3>2, FingerprintIs DEF Bound
    <3>3. QED BY <3>1, <3>2
  <2>3. QED BY <1>3, <2>1, <2>2 DEF Inv, LimitsInv
<1>4. QED BY <1>2, <1>3

\* Confirm and run, whatever the probe answers.
LEMMA Confirms ==
  ASSUME Inv, NEW asked \in Sources \cup {NoSource}, NEW ticked \in BOOLEAN,
         ConfirmRun(asked, ticked)
  PROVE  Inv'
<1> DEFINE s == Effective(asked)
<1>1. s \in Sources \cup {NoSource}
  BY EffectiveIs
<1>2. /\ brief \in Briefs /\ heard \in Said /\ source \in Sources \cup {NoSource}
      /\ turns \in 0 .. MaxTurns /\ stamps \subseteq Unlicensed
      /\ stamps \subseteq heard.ticked
  BY DEF Inv, TypeOK, Said, SourceInv
<1>3. /\ status = "draft" /\ opened < MaxOpened /\ RunGate(s, ticked)
      /\ stamps' = IF s \in Unlicensed THEN stamps \cup {s} ELSE stamps
      /\ heard' = Ticked(s, ticked) /\ source' = s
      /\ UNCHANGED <<intake, proposal, legacy, turns>>
      /\ \/ /\ AllSet(brief)
            /\ \E replies \in BOOLEAN :
                  (replies => Bound) /\ Opens("confirm_run", brief, s, replies)
         \/ /\ brief' = [brief EXCEPT !.universe = None]
            /\ UNCHANGED <<status, card, version, committed, opened>>
         \/ UNCHANGED <<status, brief, card, version, committed, opened>>
  BY DEF ConfirmRun
<1> HIDE DEF s
<1>4. /\ heard' \in Said /\ heard'.limits = heard.limits /\ heard'.waived = heard.waived
      /\ heard'.agreed = heard.agreed /\ heard'.picked = heard.picked
      /\ heard.ticked \subseteq heard'.ticked
      /\ ticked /\ s # NoSource => s \in heard'.ticked
  BY <1>1, <1>3, TickedIs
<1>5. s \in Unlicensed => s \in heard'.ticked
  <2>1. s \in Unlicensed => s \in stamps \/ ticked
    BY <1>3 DEF RunGate, SourceOpen
  <2>2. s \in Unlicensed => s # NoSource
    BY DialogueAssumption
  <2>3. QED BY <1>2, <1>4, <2>1, <2>2
<1>6. stamps' \subseteq Unlicensed /\ stamps' \subseteq heard'.ticked
  BY <1>2, <1>3, <1>4, <1>5
<1>7. CASE brief' = [brief EXCEPT !.universe = None]
           /\ UNCHANGED <<status, card, version, committed, opened>>
  <2> DEFINE b == [brief EXCEPT !.universe = None]
  <2>1. b \in Briefs /\ b.thesis = brief.thesis
    BY <1>2 DEF Briefs
  <2>2. brief' = b
    BY <1>7
  <2> HIDE DEF b
  <2>3. QED BY <1>1, <1>2, <1>3, <1>4, <1>6, <1>7, <2>1, <2>2, ButtonKeeps
<1>8. CASE UNCHANGED <<status, brief, card, version, committed, opened>>
  BY <1>1, <1>2, <1>3, <1>4, <1>6, <1>8, ButtonKeeps
<1>9. ASSUME AllSet(brief), NEW replies \in BOOLEAN, replies => Bound,
             Opens("confirm_run", brief, s, replies)
      PROVE  Inv'
  <2> DEFINE v == [by |-> "confirm_run", brief |-> brief, source |-> s, bound |-> replies]
  <2>1. /\ status' = "running" /\ brief' = brief /\ card' = NoCard /\ version' = v
        /\ committed' = FALSE /\ opened' = opened + 1
    BY <1>9 DEF Opens
  <2>2. /\ v \in [by : Openers, brief : Briefs, source : Sources \cup {NoSource},
                  bound : BOOLEAN]
        /\ v # NoVersion
    BY <1>1, <1>2 DEF Openers, NoVersion
  <2>3. v.by = "confirm_run" /\ v.brief = brief /\ v.source = s /\ v.bound = replies
    OBVIOUS
  <2> HIDE DEF v
  <2>4. opened' \in 0 .. MaxOpened
    BY <1>3, <2>1, DialogueAssumption DEF Inv, TypeOK
  <2>5. TypeOK'
    <3>1. heard' \in [limits : SUBSET Limits, waived : BOOLEAN, agreed : BOOLEAN,
                      picked : SUBSET (Theses \cup {None}), ticked : SUBSET Sources]
      BY <1>4 DEF Said
    <3>2. QED BY <1>1, <1>3, <1>6, <2>1, <2>2, <2>4, <3>1
            DEF Inv, TypeOK, Statuses
  <2>6. LimitsInv' /\ FamilyInv' /\ SourceInv'
    BY <1>3, <1>4, <1>6, <2>1 DEF Inv, LimitsInv, FamilyInv, SourceInv
  <2>7. BriefWaits'
    BY <2>1, <2>3 DEF BriefWaits
  <2>8. LimitsStopTheRun'
    <3>1. ASSUME legacy => replies, Outcome(brief.thesis) = "run"
          PROVE  heard.limits = {} \/ heard.waived
      <4>1. ~legacy \/ Bound
        BY <1>9, <3>1
      <4>2. ProposalOpen(s)
        BY <1>3 DEF RunGate
      <4>3. QED BY <1>3, <1>9, <3>1, <4>1, <4>2, GateLimits
    <3>2. legacy' = legacy
      BY <1>3
    <3>3. QED BY <1>4, <2>1, <2>3, <3>1, <3>2 DEF LimitsStopTheRun
  <2>9. FamilyWasAnswered'
    <3>1. FamilyOpen
      BY <1>3 DEF RunGate
    <3>2. QED BY <1>3, <1>4, <2>1, <2>3, <3>1, GateAnswers DEF FamilyWasAnswered
  <2>10. SourceWasTicked'
    <3>1. brief.universe \in Markets
      BY <1>2, <1>3, <1>9 DEF Briefs, AllSet, RunGate
    <3>2. s # NoSource => SourceMarket[s] = brief.universe
      BY <1>3, <3>1 DEF RunGate, SourceOpen, SourceMatches, MarketOf, None, Markets
    <3>3. s \in Unlicensed => s \in heard'.ticked \cap stamps'
      BY <1>3, <1>5
    <3>4. QED BY <2>1, <2>3, <3>1, <3>2, <3>3 DEF SourceWasTicked
  <2>11. QED BY <2>5, <2>6, <2>7, <2>8, <2>9, <2>10 DEF Inv
<1>10. QED BY <1>3, <1>7, <1>8, <1>9

-----------------------------------------------------------------------------
(* A research that has run                                                 *)

\* What was said, answered and ticked is of the past: a step that leaves the
\* version keeps what the version was opened with.
LEMMA AfterRun ==
  ASSUME Inv, status # "draft", status' # "draft", TypeOK', BriefWaits',
         UNCHANGED <<intake, proposal, stamps, heard>>, legacy => legacy',
         version' = version \/ (Ran' /\ version'.by # "confirm_run")
  PROVE  Inv'
<1>1. LimitsInv' /\ FamilyInv' /\ SourceInv'
  BY DEF Inv, LimitsInv, FamilyInv, SourceInv
<1>2. CASE version' = version
  BY <1>1, <1>2 DEF Inv, LimitsStopTheRun, FamilyWasAnswered, SourceWasTicked, Ran, Confirmed
<1>3. CASE version'.by # "confirm_run"
  BY <1>1, <1>3 DEF Inv, LimitsStopTheRun, FamilyWasAnswered, SourceWasTicked, Ran, Confirmed
<1>4. QED BY <1>2, <1>3

\* A message, a card, and the run itself.
LEMMA Revises ==
  ASSUME Inv, status # "draft", turns < MaxTurns, NEW m \in Messages,
         NEW v2 \in BOOLEAN, NEW logic \in BOOLEAN, Revise(m, v2, logic)
  PROVE  Inv'
<1>1. /\ turns' = turns + 1 /\ legacy' = (legacy \/ ~v2)
      /\ UNCHANGED <<intake, proposal, source, version, committed, stamps, heard, opened>>
  BY DEF Revise
<1>2. turns' \in 0 .. MaxTurns /\ legacy' \in BOOLEAN
  BY <1>1, DialogueAssumption DEF Inv, TypeOK
<1>3. ASSUME NEW kind \in {"logic", "settings"}, NEW slots \in SUBSET Slots,
             RequestCard(kind, slots, Read(m)), UNCHANGED brief
      PROVE  Inv'
  <2> DEFINE patch == Patched(Empty, slots, Read(m))
             c == [kind |-> kind, patch |-> patch, slots |-> slots, returns |-> status]
  <2>1. card' = c /\ status' = "awaiting_confirm"
    BY <1>3 DEF RequestCard
  <2>2. patch \in Briefs
    BY EmptyIsBrief, ReadIsBrief, PatchedIsBrief
  <2> HIDE DEF patch
  <2>3. /\ c \in [kind : {"logic", "settings"}, patch : Briefs, slots : SUBSET Slots,
                  returns : Statuses]
        /\ c # NoCard
    BY <2>2 DEF NoCard, Inv, TypeOK
  <2> HIDE DEF c
  <2>4. TypeOK'
    BY <1>1, <1>2, <1>3, <2>1, <2>3 DEF Inv, TypeOK, Statuses
  <2>5. BriefWaits'
    BY <1>1, <1>3 DEF Inv, BriefWaits, Ran
  <2>6. QED BY <1>1, <2>1, <2>4, <2>5, AfterRun
<1>4. ASSUME ~v2, brief' = Patched(brief, Revised(m), Read(m)), UNCHANGED <<status, card>>
      PROVE  Inv'
  <2>1. brief' \in Briefs
    BY <1>4, ReadIsBrief, PatchedIsBrief DEF Inv, TypeOK
  <2>2. TypeOK'
    BY <1>1, <1>2, <1>4, <2>1 DEF Inv, TypeOK
  <2>3. BriefWaits'
    BY <1>1, <1>4 DEF BriefWaits
  <2>4. QED BY <1>1, <1>4, <2>2, <2>3, AfterRun
<1>5. {"thesis"} \in SUBSET Slots /\ Revised(m) \in SUBSET Slots
  BY DEF Slots, Revised
<1>6. QED BY <1>3, <1>4, <1>5 DEF Revise

\* A version after the first one is opened by a card or a modification, and its
\* brief is the draft's from then on (main.py:1636, 1738).
LEMMA OpensAgain ==
  ASSUME Inv, status # "draft", opened < MaxOpened, NEW b \in Briefs,
         NEW by \in {"economic_confirm", "modified_settings_confirm"},
         Opens(by, b, source, FALSE),
         UNCHANGED <<intake, proposal, source, stamps, heard, legacy, turns>>
  PROVE  Inv'
<1> DEFINE v == [by |-> by, brief |-> b, source |-> source, bound |-> FALSE]
<1>1. /\ status' = "running" /\ brief' = b /\ card' = NoCard /\ version' = v
      /\ committed' = FALSE /\ opened' = opened + 1
  BY DEF Opens
<1>2. v.by = by /\ v.brief = b /\ by # "confirm_run"
  OBVIOUS
<1>3. /\ v \in [by : Openers, brief : Briefs, source : Sources \cup {NoSource},
                bound : BOOLEAN]
      /\ v # NoVersion
  BY DEF Openers, NoVersion, Inv, TypeOK
<1> HIDE DEF v
<1>4. opened' \in 0 .. MaxOpened
  BY <1>1, DialogueAssumption DEF Inv, TypeOK
<1>5. TypeOK'
  BY <1>1, <1>3, <1>4 DEF Inv, TypeOK, Statuses
<1>6. BriefWaits' /\ Ran' /\ version'.by # "confirm_run"
  BY <1>1, <1>2, <1>3 DEF BriefWaits, Ran
<1>7. QED BY <1>1, <1>5, <1>6, AfterRun

\* The two buttons that open such a version.
LEMMA Approves ==
  ASSUME Inv, Approve \/ ConfirmModification
  PROVE  Inv'
<1>1. brief \in Briefs
  BY DEF Inv, TypeOK
<1>2. CASE Approve
  <2>1. status # "draft" /\ card.patch \in Briefs
    BY <1>2 DEF Approve, Inv, TypeOK
  <2>2. Patched(brief, card.slots, card.patch) \in Briefs
    BY <1>1, <2>1, PatchedIsBrief
  <2>3. QED BY <1>2, <2>1, <2>2, OpensAgain DEF Approve
<1>3. CASE ConfirmModification
  <2>1. status # "draft"
    BY <1>3 DEF ConfirmModification
  <2>2. QED BY <1>1, <1>3, <2>1, OpensAgain DEF ConfirmModification
<1>4. QED BY <1>2, <1>3

\* A research that runs, and a card that is dismissed, leave the brief alone.
LEMMA Runs ==
  ASSUME Inv, Run \/ (\E to \in Statuses \ {"draft", "awaiting_confirm"} : Dismiss(to))
  PROVE  Inv'
<1>1. CASE Run
  <2>1. /\ status # "draft" /\ status' \in {"running", "paused"}
        /\ status \in {"running", "paused"} /\ committed' \in BOOLEAN
        /\ UNCHANGED <<brief, intake, proposal, source, card, version, stamps, heard,
                       legacy, turns, opened>>
    BY <1>1 DEF Run, Inv, TypeOK
  <2>2. TypeOK'
    BY <2>1 DEF Inv, TypeOK, Statuses
  <2>3. BriefWaits'
    BY <2>1 DEF Inv, BriefWaits, Ran
  <2>4. QED BY <2>1, <2>2, <2>3, AfterRun
<1>2. ASSUME NEW to \in Statuses \ {"draft", "awaiting_confirm"}, Dismiss(to) PROVE Inv'
  <2>1. /\ card # NoCard /\ status' = to /\ card' = NoCard
        /\ UNCHANGED <<brief, intake, proposal, source, version, committed, stamps,
                       heard, legacy, turns, opened>>
    BY <1>2 DEF Dismiss
  <2>2. status # "draft"
    BY <2>1 DEF Inv, TypeOK
  <2>3. TypeOK'
    BY <2>1, <2>2 DEF Inv, TypeOK
  <2>4. BriefWaits'
    BY <2>1 DEF Inv, BriefWaits, Ran
  <2>5. QED BY <2>1, <2>2, <2>3, <2>4, AfterRun
<1>3. QED BY <1>1, <1>2

-----------------------------------------------------------------------------
(* The invariant                                                           *)

\* A new research has nothing agreed and nothing to keep.
LEMMA InitInv ==
  ASSUME Init
  PROVE  Inv
<1>1. version = NoVersion /\ status = "draft" /\ brief.thesis = None
  BY DEF Init, Empty
<1>2. TypeOK
  <2>1. brief \in Briefs
    BY EmptyIsBrief DEF Init
  <2>2. intake \in Intakes
    BY DEF Init, Intakes
  <2>3. heard \in [limits : SUBSET Limits, waived : BOOLEAN, agreed : BOOLEAN,
                   picked : SUBSET (Theses \cup {None}), ticked : SUBSET Sources]
    BY DEF Init
  <2>4. turns \in 0 .. MaxTurns /\ opened \in 0 .. MaxOpened
    BY DialogueAssumption DEF Init
  <2>5. QED BY <2>1, <2>2, <2>3, <2>4 DEF Init, TypeOK, Statuses
<1>3. LimitsInv
  BY <1>1 DEF Init, LimitsInv, NoProposal
<1>4. FamilyInv /\ SourceInv
  BY <1>1, OutcomeIs DEF Init, FamilyInv, SourceInv
<1>5. BriefWaits /\ LimitsStopTheRun /\ FamilyWasAnswered /\ SourceWasTicked
  BY <1>1 DEF BriefWaits, LimitsStopTheRun, FamilyWasAnswered, SourceWasTicked,
     Ran, Confirmed
<1>6. QED BY <1>2, <1>3, <1>4, <1>5 DEF Inv

\* Every message, button and confirmation keeps it.
LEMMA StepInv ==
  ASSUME Inv, [Next]_vars
  PROVE  Inv'
<1>1. CASE UNCHANGED vars
  <2>1. TypeOK'
    BY <1>1 DEF vars, Inv, TypeOK
  <2>2. LimitsInv' /\ FamilyInv' /\ SourceInv'
    BY <1>1 DEF vars, Inv, LimitsInv, FamilyInv, SourceInv
  <2>3. BriefWaits' /\ LimitsStopTheRun' /\ FamilyWasAnswered' /\ SourceWasTicked'
    BY <1>1 DEF vars, Inv, BriefWaits, LimitsStopTheRun, FamilyWasAnswered,
       SourceWasTicked, Ran, Confirmed
  <2>4. QED BY <2>1, <2>2, <2>3 DEF Inv
<1>2. ASSUME turns < MaxTurns, ~legacy, NEW m \in Messages, NEW v2 \in Rollouts,
             \/ /\ status = "draft"
                /\ \/ DeclineFamily(m, v2) \/ AdoptFamily(m, v2) \/ PickFamily(m, v2)
                   \/ AnswerOnly(m, v2) \/ AnswerSlots(m, v2)
             \/ /\ status # "draft"
                /\ \E logic \in BOOLEAN : Revise(m, v2, logic)
      PROVE  Inv'
  <2>1. v2 \in BOOLEAN
    BY DialogueAssumption
  <2>2. QED BY <1>2, <2>1, DraftTurns, Revises
<1>3. ASSUME (\E s \in Slots : Unlock({s})) \/ Unlock(Slots) PROVE Inv'
  <2>1. \E slots \in SUBSET Slots : Unlock(slots)
    BY <1>3
  <2>2. QED BY <2>1, Buttons
<1>4. ASSUME \E market \in Markets : ChooseMarket(market) PROVE Inv'
  BY <1>4, Buttons
<1>5. ASSUME NEW s \in Sources \cup {NoSource}, NEW ticked \in BOOLEAN,
             SetSource(s, ticked) \/ ConfirmRun(s, ticked)
      PROVE  Inv'
  BY <1>5, Buttons, Confirms
<1>6. ASSUME Approve \/ ConfirmModification PROVE Inv'
  BY <1>6, Approves
<1>7. ASSUME Run \/ (\E to \in Statuses \ {"draft", "awaiting_confirm"} : Dismiss(to))
      PROVE  Inv'
  BY <1>7, Runs
<1>8. QED BY <1>1, <1>2, <1>3, <1>4, <1>5, <1>6, <1>7 DEF Next

\* The invariant of every behaviour.
THEOREM InvAlways == Spec => []Inv
<1>1. Init => Inv
  BY InitInv
<1>2. Inv /\ [Next]_vars => Inv'
  BY StepInv
<1>3. QED BY <1>1, <1>2, PTL DEF Spec

-----------------------------------------------------------------------------
(* The properties                                                          *)

(* What runs is what was agreed: once a version is open the brief changes   *)
(* only by a card, and no constraint named before it was dropped on the way *)
(* (dialogue/actions.py:1, proposal.py:317).                                *)
THEOREM BriefIsAgreedAlways == Spec => []BriefIsAgreed
<1>1. Inv => BriefIsAgreed
  BY DEF Inv, BriefIsAgreed
<1>2. QED BY <1>1, InvAlways, PTL

(* A draft of another family never starts as mean reversion without the     *)
(* user's answer, however often the thesis was withdrawn and replaced since *)
(* (turns.py:120, run_gate.py:85).                                          *)
THEOREM FamilyWasAnsweredAlways == Spec => []FamilyWasAnswered
<1>1. Inv => FamilyWasAnswered
  BY DEF Inv
<1>2. QED BY <1>1, InvAlways, PTL

(* Prices for personal research are used only of a source the user ticked,  *)
(* and they are of the market of the brief (run_gate.py:99,                 *)
(* source_acknowledgement.py).                                              *)
THEOREM SourceWasTickedAlways == Spec => []SourceWasTicked
<1>1. Inv => SourceWasTicked
  BY DEF Inv
<1>2. QED BY <1>1, InvAlways, PTL
=============================================================================
