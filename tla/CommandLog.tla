---------------------------- MODULE CommandLog ----------------------------
(***************************************************************************)
(* What the command journal promises the clients of one research, without  *)
(* threads, locks, claims or crashes: a numbered history in which every    *)
(* command has at most one verdict, and takes effect in the very step that *)
(* gives it, against the revision its client saw.                          *)
(***************************************************************************)
EXTENDS Integers

CONSTANTS Command,      \* command ids
          Payload       \* what a command may ask for, with its revision

VARIABLES alive,        \* the research exists
          rev,          \* its revision
          verdict       \* command id -> "open", "ok", "failed" or "conflict"

Undecided == [c \in Command |-> "open"]

LogInit == /\ alive \in BOOLEAN
           /\ rev = 0
           /\ verdict = Undecided

Create(c) == /\ ~alive /\ verdict[c] = "open"
             /\ alive' = TRUE /\ rev' = 0
             /\ verdict' = [verdict EXCEPT ![c] = "ok"]

Delete == /\ alive /\ alive' = FALSE
          /\ rev' = rev
          /\ verdict' = Undecided

\* The command applies to the revision its client saw and to no other.
Apply(c, q) == /\ alive /\ verdict[c] = "open"
               /\ q.cmd = c /\ q.expected = rev
               /\ rev' = rev + 1
               /\ \E v \in {"ok", "failed"} :
                     verdict' = [verdict EXCEPT ![c] = v]
               /\ UNCHANGED alive

\* A refusal and a failure without a trace decide the command for good.
Refuse(c) == /\ verdict[c] = "open"
             /\ \E v \in {"failed", "conflict"} :
                   verdict' = [verdict EXCEPT ![c] = v]
             /\ UNCHANGED <<alive, rev>>

\* The research loop and legacy clients move the revision too.
Elsewhere == /\ alive /\ rev' = rev + 1
             /\ UNCHANGED <<alive, verdict>>

LogNext == \/ \E c \in Command : Create(c) \/ Refuse(c)
           \/ \E c \in Command : \E q \in Payload : Apply(c, q)
           \/ Delete \/ Elsewhere

LogSpec == LogInit /\ [][LogNext]_<<alive, rev, verdict>>
=============================================================================
