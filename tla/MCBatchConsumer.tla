--------------------------- MODULE MCBatchConsumer ---------------------------
(* A small instance of BatchConsumer: two topic partitions, read in polls   *)
(* of two; the first holds any two kinds of record, the second a record the *)
(* handler accepts and one it raises on.                                    *)
EXTENDS BatchConsumer

CONSTANTS p1, p2

MCPartitions == {p1, p2}

\* p1 holds any two records of different kinds; p2 a good and a poison one.
MCContents ==
    {c \in [MCPartitions \X (1..LogLen) -> Kinds] :
        /\ c[<<p1, 1>>] # c[<<p1, 2>>]
        /\ c[<<p2, 1>>] = "good"
        /\ c[<<p2, 2>>] = "poison"}
==============================================================================
