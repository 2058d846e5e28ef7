------------------------- MODULE MCCommandJournal -------------------------
(* Small instances of CommandJournal: the requests clients may send.       *)
EXTENDS CommandJournal

CONSTANTS t1, t2, c0, c1, c2, c3

Req(c, k, e) == [cmd |-> c, kind |-> k, expected |-> e, auth |-> FALSE]
CreateReq == Req(c0, "create", 0)
DeleteReq == Req(NoCommand, "delete", 0)

\* Clients that write without the lock, one id reused for another payload, a
\* legacy client, confirmations with an envelope, a deletion, a second
\* creation, and the two commands that write before the journal decides.
\* The ids of the confirmations serve for nothing else: see the README.
ClientRequests ==
    {CreateReq, DeleteReq, Req(c1, "dialogue", 0), Req(c1, "pause", 0),
     Req(NoCommand, "dialogue", 0), Req(c0, "iterate", 0),
     Req(c1, "reopen", 1), Req(c2, "confirm", 0),
     [Req(c3, "confirm", 0) EXCEPT !.auth = TRUE]}

\* Confirmations: two clients, a legacy client, an authorised resend, and a
\* message that edits the draft while a probe is out.
ConfirmRequests ==
    {Req(c1, "confirm", 0), Req(c2, "confirm", 0),
     [Req(c2, "confirm", 0) EXCEPT !.auth = TRUE],
     Req(NoCommand, "confirm", 0), Req(c0, "dialogue", 0)}
=============================================================================
