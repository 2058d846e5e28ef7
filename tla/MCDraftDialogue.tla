-------------------------- MODULE MCDraftDialogue --------------------------
(* Model-checking instance of DraftDialogue: four theses, one per outcome of *)
(* the family classifier, and the messages a short conversation is made of. *)
EXTENDS DraftDialogue, TLC

MCTheses == {"reversal", "low vol", "breakout", "vague"}
MCFamily == "reversal" :> "mean_reversion" @@ "low vol" :> "disclosed"
            @@ "breakout" :> "momentum" @@ "vague" :> "none"
MCSources == {"yahoo", "file"}
MCSourceMarket == "yahoo" :> "US" @@ "file" :> "CN"

Blank == [text |-> None, says |-> "other", market |-> None, hours |-> 0,
          corrects |-> FALSE, from |-> 0, methods |-> FALSE, floor |-> {},
          retracts |-> {}, limits |-> {}, waives |-> FALSE, cheap |-> FALSE,
          runNow |-> FALSE, source |-> NoSource]

MCMessages == {
    [Blank EXCEPT !.text = "reversal"],
    [Blank EXCEPT !.text = "reversal", !.limits = {"industry"}],
    [Blank EXCEPT !.text = "low vol", !.market = "US"],
    [Blank EXCEPT !.text = "breakout", !.market = "US"],
    [Blank EXCEPT !.text = "vague", !.market = "US"],
    [Blank EXCEPT !.says = "yes"],
    [Blank EXCEPT !.says = "no"],
    [Blank EXCEPT !.market = "US", !.hours = 1, !.methods = TRUE, !.floor = Parts],
    [Blank EXCEPT !.floor = {"assets"}, !.limits = {"industry"}],
    [Blank EXCEPT !.hours = 2, !.corrects = TRUE, !.from = 2],
    [Blank EXCEPT !.waives = TRUE],
    [Blank EXCEPT !.retracts = {"thesis"}],
    [Blank EXCEPT !.text = "reversal", !.cheap = TRUE, !.source = "file"],
    [Blank EXCEPT !.runNow = TRUE]}
=============================================================================
