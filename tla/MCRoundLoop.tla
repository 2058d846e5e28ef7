---------------------------- MODULE MCRoundLoop ----------------------------
(* Small instances of RoundLoop: what the user and the environment do.     *)
EXTENDS RoundLoop

\* Every command that ends in a write of the research, and a busy database.
EveryCommand == CommandName \ {"delete_busy", "send_dialogue"}

\* A user who starts researches, talks, and stops them, but never resumes one.
StartAndStop == {"confirm_run", "send_dialogue", "pause", "delete", "db_busy"}

\* What the disagreements listed in the README need.
StartAndPause == {"confirm_run", "pause"}
StartAndDelete == {"confirm_run", "delete", "send_dialogue"}
StartAndResume == {"confirm_run", "resume"}
DeleteUnderLoad == {"confirm_run", "delete_busy"}
=============================================================================
