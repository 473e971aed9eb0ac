--------------------------- MODULE MCSnapshotAdapter ---------------------------
(* A small instance of SnapshotAdapter: every population of two securities.   *)
EXTENDS SnapshotAdapter

\* The sorted rows of a population.
RowsOf(p) ==
    (IF p[1] = 0 THEN <<>> ELSE <<<<1, p[1]>>>>) \o (IF p[2] = 0 THEN <<>> ELSE <<<<2, p[2]>>>>)

MCWhole == {[rows |-> RowsOf(p), declared |-> Len(RowsOf(p))] : p \in Populations}

\* A file cut off after its first row, or before it.
MCTruncated == {[rows |-> <<<<1, 1>>>>, declared |-> 2], [rows |-> <<>>, declared |-> 1]}

\* A file in the wrong order, and one with a key twice.
MCUnsorted == {[rows |-> <<<<2, 1>>, <<1, 1>>>>, declared |-> 2]}
MCTwice == {[rows |-> <<<<1, 1>>, <<1, 2>>>>, declared |-> 2]}

MCExtracts == MCWhole \cup MCTruncated \cup MCTwice \cup MCUnsorted
=============================================================================
