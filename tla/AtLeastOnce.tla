----------------------------- MODULE AtLeastOnce -----------------------------
(***************************************************************************)
(* What a consumer group promises about the log it reads, with nothing of  *)
(* how: every record is settled some time (its document is written, or it  *)
(* is dead-lettered), any number of times and in any order, and the offset *)
(* the group acknowledges never covers a record that is not settled.       *)
(* Records the reader is entitled to drop are the ignored ones.            *)
(***************************************************************************)
EXTENDS Integers

CONSTANTS
    Partitions,     \* the topic partitions the group reads
    LogLen          \* how many records each of them holds

VARIABLES
    settled,        \* the records written or dead-lettered so far
    ignored,        \* the records that carry nothing to write
    committed       \* partition -> number of records acknowledged

vars == <<settled, ignored, committed>>

Records == Partitions \X (1..LogLen)

Positions == [Partitions -> 0..LogLen]

\* The records below the positions c.
Covered(c) == {r \in Records : r[2] <= c[r[1]]}

Init ==
    /\ settled = {}
    /\ ignored \in SUBSET Records
    /\ committed = [p \in Partitions |-> 0]

Settle ==
    /\ settled' \in SUBSET Records
    /\ settled \subseteq settled'
    /\ UNCHANGED <<ignored, committed>>

Acknowledge ==
    /\ committed' \in Positions
    /\ \A p \in Partitions : committed[p] <= committed'[p]
    /\ Covered(committed') \subseteq settled \cup ignored
    /\ UNCHANGED <<settled, ignored>>

Next == Settle \/ Acknowledge

Spec == Init /\ [][Next]_vars
=============================================================================
