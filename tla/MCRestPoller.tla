----------------------------- MODULE MCRestPoller -----------------------------
(* A small instance of RestPoller: two records, a page for each.             *)
EXTENDS RestPoller

CONSTANTS r1, r2

MCRefs == {r1, r2}

MCPlace == [r \in MCRefs |-> IF r = r1 THEN 1 ELSE 2]
=============================================================================
