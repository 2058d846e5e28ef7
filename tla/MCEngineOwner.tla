---------------------------- MODULE MCEngineOwner ----------------------------
(* Small instances of EngineOwner: d1, d2 are run by desktops or shells, e1 *)
(* by the command c1.                                                       *)
EXTENDS EngineOwner

CONSTANTS d1, d2, e1, c1

OneCommand == [c \in {c1} |-> e1]
NoCommands == [c \in {} |-> d1]
=============================================================================
