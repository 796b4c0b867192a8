------------------------------ MODULE MCPublisher ------------------------------
(***************************************************************************)
(* A small instance of Publisher: two controllers, which may work on the   *)
(* same issue and may have produced the same commit.                       *)
(***************************************************************************)
EXTENDS Publisher

CONSTANTS r1, r2, i1, i2, p1, p2

MCRuns == {r1, r2}
MCIssues == {i1, i2}
MCPublications == {p1, p2}

\* Issues and publications are interchangeable: the first run takes the first.
MCInit == Init /\ issue[r1] = i1 /\ work[r1] = p1

MCSpec == MCInit /\ [][Next]_vars /\ Fairness

===============================================================================
