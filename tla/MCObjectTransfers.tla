--------------------------- MODULE MCObjectTransfers ---------------------------
(* Clients on a project slug of a user with two hosts.  Attachments sort before *)
(* archives, and each kind by the client's number.                              *)
EXTENDS ObjectTransfers, Sequences

CONSTANTS c1, c2, c3

Order == <<c1, c2, c3>>
Three == {c1, c2, c3}
ByName ==
    [p \in Three \X (0 .. 2) |->
        (CHOOSE i \in 1 .. 3 : Order[i] = p[1]) + (IF p[2] = 0 THEN 6 ELSE 3 * (p[2] - 1))]
================================================================================
