------------------------- MODULE MCCandidateSearch -------------------------
(* Model-checking instance of CandidateSearch. *)
EXTENDS CandidateSearch, TLC

PanelSymmetry == Permutations(Panels)

MCOutOfRange == {<<60, 1>>}
=============================================================================
