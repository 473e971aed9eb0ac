-------------------------------- MODULE TrueUp --------------------------------
(***************************************************************************)
(* What the start-of-day true-up promises, with nothing of how: no merge,  *)
(* no queue, no run that fails half-way.  Files are on offer until they    *)
(* are retired.  The topic is told of a file on offer only, and of its     *)
(* differences only; the index becomes a file when the topic says all that *)
(* it changes; and a file is retired when the index is that file.          *)
(***************************************************************************)
EXTENDS Integers

CONSTANTS
    Keys,         \* the securities
    MaxVersion,   \* the versions of a record are 1..MaxVersion, 0 for none
    Names         \* the names of files

VARIABLES
    offered,      \* the files to take: <<name, population>>
    index,        \* the population considered applied
    topic,        \* what the topic says last of each key
    spoilt        \* keys a file that cannot be used had last

vars == <<offered, index, topic, spoilt>>

Populations == [Keys -> 0..MaxVersion]

Init ==
    /\ offered = {}
    /\ index = [k \in Keys |-> 0]
    /\ topic = [k \in Keys |-> 0]
    /\ spoilt = {}

Offer ==
    /\ \E n \in Names, p \in Populations :
          /\ \A f \in offered : f[1] # n
          /\ offered' = offered \cup {<<n, p>>}
    /\ UNCHANGED <<index, topic, spoilt>>

\* Some of the differences of a file reach the topic, the first time or again.
Tell ==
    /\ \E f \in offered, K \in SUBSET Keys :
          /\ \A k \in K : f[2][k] # index[k]
          /\ topic' = [k \in Keys |-> IF k \in K THEN f[2][k] ELSE topic[k]]
          /\ spoilt' = spoilt \ K
    /\ UNCHANGED <<offered, index>>

\* What is told of a file before it is found out of order.
Spoil ==
    /\ \E K \in SUBSET Keys :
          /\ \A k \in Keys \ K : topic'[k] = topic[k]
          /\ spoilt' = spoilt \cup K
    /\ topic' \in Populations
    /\ UNCHANGED <<offered, index>>

Adopt ==
    /\ \E f \in offered :
          /\ \A k \in Keys : f[2][k] # index[k] => f[2][k] = topic[k]
          /\ index' = f[2]
    /\ UNCHANGED <<offered, topic, spoilt>>

Retire ==
    /\ \E f \in offered : f[2] = index /\ offered' = offered \ {f}
    /\ UNCHANGED <<index, topic, spoilt>>

Next == Offer \/ Tell \/ Spoil \/ Adopt \/ Retire

Spec == Init /\ [][Next]_vars
-----------------------------------------------------------------------------
(***************************************************************************)
(* What the promise is for: of a key no unusable file had last, the topic  *)
(* says what the index says, unless a file on offer says it.               *)
(***************************************************************************)
Accounted ==
    \A k \in Keys \ spoilt :
        topic[k] = index[k] \/ \E f \in offered : topic[k] = f[2][k]
=============================================================================
