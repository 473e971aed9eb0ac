------------------------ MODULE SnapshotAdapter_proofs ------------------------
(***************************************************************************)
(* Proofs about SnapshotAdapter, for every number of keys, versions and    *)
(* names, every set of extracts the vendor may deliver, sound or not, and  *)
(* any number of deliveries, failed flushes and deaths.                    *)
(***************************************************************************)
EXTENDS SnapshotAdapter, WellFoundedInduction, TLAPS

USE SnapshotAssumption

\* The file in hand is whole, and its batch is recorded when it is all taken.
HandInv ==
    /\ pc \in {"idle", "next"} => cur = 0 /\ deltas = {} /\ newIndex = Empty /\ last = 0
    /\ pc \in {"merge", "flush", "index", "record", "archive"} => cur \in Names
    /\ pc \in {"merge", "flush", "index", "record"} => Whole(landing[cur])
    /\ pc \in {"merge", "flush", "index", "record"} => Batch(cur) \notin ledger
    /\ pc = "record" => index = newIndex /\ deltas = {}
    /\ pc = "archive" => Batch(cur) \in ledger /\ deltas = {}

\* The rows of the file in hand, and how many of them are merged.
Row(j) == landing[cur].rows[j]
Merged == Len(landing[cur].rows) - Len(right)

\* The rows merged are in order, and the new index is made of them.
RowsInv ==
    pc = "merge" =>
        /\ Merged \in Nat
        /\ \A j \in 1..Len(right) : right[j] = Row(Merged + j)
        /\ last = IF Merged = 0 THEN 0 ELSE Row(Merged)[1]
        /\ \A i, j \in 1..Merged : i < j => Row(i)[1] < Row(j)[1]
        /\ \A k \in Keys : \/ newIndex[k] = 0 /\ \A j \in 1..Merged : Row(j)[1] # k
                           \/ \E j \in 1..Merged : Row(j) = <<k, newIndex[k]>>

\* What is queued is the difference of the keys that are merged.
DeltasInv ==
    /\ \A d \in deltas : d \in Keys \X (0..MaxVersion) /\ newIndex[d[1]] = d[2]
    /\ pc = "merge" =>
          /\ \A k \in left : index[k] # 0 /\ last < k
          /\ \A d \in deltas : /\ index[d[1]] # d[2]
                               /\ \/ d[1] <= last
                                  \/ right # <<>> => d[1] < Head(right)[1]
          /\ \A k \in Keys \ left : index[k] # newIndex[k] => <<k, newIndex[k]>> \in deltas

\* A merge that is over has gone through the file.
OverInv ==
    /\ pc \in {"flush", "index", "record"} =>
          Sorted(landing[cur]) /\ newIndex = Population(landing[cur])
    /\ pc \in {"flush", "index"} =>
          deltas = {<<k, newIndex[k]>> : k \in {j \in Keys : index[j] # newIndex[j]}}
    /\ pc = "index" => \A d \in deltas : topic[d[1]] = d[2]

\* The topic says of a key what the index says, or what a sound file says that
\* is still to be taken; unless a file that was out of order had it last.
TopicInv ==
    \A k \in Keys \ spoilt :
        \/ topic[k] = index[k]
        \/ \E n \in Names : /\ Usable(landing[n]) /\ Batch(n) \notin ledger
                            /\ topic[k] = Population(landing[n])[k]

IInv == TypeOK /\ HandInv /\ RowsInv /\ DeltasInv /\ OverInv /\ TopicInv
-----------------------------------------------------------------------------
\* A set of numbers that is not empty has a least one.
LEMMA LeastFacts ==
    ASSUME NEW S, S \subseteq Nat, S # {}
    PROVE  Least(S) \in S /\ \A m \in S : Least(S) <= m
<1> DEFINE R == OpToRel(<, Nat)
<1>1. IsWellFoundedOn(R, Nat)
  BY NatLessThanWellFounded
<1>2. \A x, y \in Nat : y < x => <<y, x>> \in R
  BY DEF OpToRel
<1> HIDE DEF R
<1>3. PICK x \in S : \A y \in S : <<y, x>> \notin R
  BY <1>1, WFMin
<1>4. ASSUME NEW y \in S PROVE x <= y
  <2>1. ~(y < x) /\ y \in Nat /\ x \in Nat
    BY <1>2, <1>3
  <2>. QED BY <2>1
<1>. QED BY <1>4 DEF Least

\* Rows that are each before the next are each before all that follow.
LEMMA SortedFacts ==
    ASSUME NEW x, x.rows \in Seq(Rows), Sorted(x),
           NEW i \in 1..Len(x.rows), NEW j \in 1..Len(x.rows), i < j
    PROVE  x.rows[i][1] < x.rows[j][1]
<1> DEFINE key(n) == x.rows[n][1]
           S == {n \in (i + 1)..Len(x.rows) : ~(key(i) < key(n))}
<1>0. \A n \in 1..Len(x.rows) : key(n) \in Int
  BY DEF Rows, Keys
<1>1. SUFFICES ASSUME S # {} PROVE FALSE
  BY <1>0
<1>2. PICK n \in S : \A m \in S : n <= m
  <2>1. S \subseteq Nat
    OBVIOUS
  <2>. HIDE DEF S
  <2>. QED BY <1>1, <2>1, LeastFacts
<1>3. key(n - 1) < key(n)
  BY <1>2 DEF Sorted
<1>4. n - 1 = i \/ (n - 1 \in (i + 1)..Len(x.rows) /\ n - 1 \notin S)
  BY <1>2
<1>5. n \in 1..Len(x.rows) /\ n - 1 \in 1..Len(x.rows) /\ ~(key(i) < key(n))
  BY <1>2
<1>. QED BY <1>0, <1>3, <1>4, <1>5

\* The rows before the first that goes back are in the order of their keys.
LEMMA OrderFacts ==
    ASSUME NEW x, x.rows \in Seq(Rows), NEW m \in 1..Len(x.rows),
           \A n \in 2..m : x.rows[n - 1][1] <= x.rows[n][1],
           NEW i \in 1..m
    PROVE  x.rows[i][1] <= x.rows[m][1]
<1> DEFINE key(n) == x.rows[n][1]
           S == {n \in i..m : ~(key(i) <= key(n))}
<1>0. \A n \in 1..Len(x.rows) : key(n) \in Int
  BY DEF Rows, Keys
<1>1. SUFFICES ASSUME S # {} PROVE FALSE
  BY <1>0
<1>2. PICK n \in S : \A o \in S : n <= o
  <2>1. S \subseteq Nat
    OBVIOUS
  <2>. HIDE DEF S
  <2>. QED BY <1>1, <2>1, LeastFacts
<1>3. n \in i..m /\ ~(key(i) <= key(n)) /\ n # i
  BY <1>0, <1>2
<1>4. key(n - 1) <= key(n) /\ n - 1 \in i..m /\ n - 1 \notin S
  <2>1. n \in 2..m /\ n - 1 \in i..m
    BY <1>2, <1>3
  <2>2. key(n - 1) <= key(n)
    BY <2>1
  <2>3. n - 1 \notin S
    BY <1>2, <2>1
  <2>. QED BY <2>1, <2>2, <2>3
<1>5. key(i) <= key(n - 1)
  BY <1>4
<1>6. key(i) \in Int /\ key(n - 1) \in Int /\ key(n) \in Int
  BY <1>0, <1>3, <1>4
<1>. QED BY <1>3, <1>4, <1>5, <1>6

\* A file in order has all its keys in order.
LEMMA SortedKeys ==
    ASSUME NEW x, x.rows \in Seq(Rows), Sorted(x)
    PROVE  KeysInOrder(x) = KeysOf(x)
<1>1. \A n \in 1..Len(x.rows) : x.rows[n][1] \in Int
  BY DEF Rows, Keys
<1>2. \A n \in DOMAIN x.rows : \A j \in 2..n : x.rows[j - 1][1] <= x.rows[j][1]
  BY <1>1 DEF Sorted
<1>. QED BY <1>2 DEF KeysInOrder, KeysOf

\* The population that a file in order describes.
LEMMA PopulationFacts ==
    ASSUME NEW x, x.rows \in Seq(Rows), NEW k \in Keys
    PROVE  /\ k \notin KeysOf(x) => Population(x)[k] = 0
           /\ Sorted(x) => \A j \in 1..Len(x.rows) :
                               x.rows[j][1] = k => Population(x)[k] = x.rows[j][2]
<1>1. k \notin KeysOf(x) => Population(x)[k] = 0
  BY DEF Population
<1>2. ASSUME Sorted(x), NEW j \in 1..Len(x.rows), x.rows[j][1] = k
      PROVE  Population(x)[k] = x.rows[j][2]
  <2> DEFINE all == {x.rows[i] : i \in DOMAIN x.rows}
             chosen == CHOOSE r \in all : r[1] = k
  <2>1. k \in KeysOf(x) /\ x.rows[j] \in all
    BY <1>2 DEF KeysOf
  <2>2. Population(x)[k] = chosen[2]
    BY <2>1 DEF Population
  <2>3. chosen \in all /\ chosen[1] = k
    BY <2>1, <1>2
  <2>4. PICK i \in 1..Len(x.rows) : chosen = x.rows[i]
    BY <2>3
  <2>5. i = j
    <3>0. x.rows[i][1] = k /\ x.rows[j][1] = k /\ k \in Int
      BY <1>2, <2>3, <2>4 DEF Keys
    <3>1. i < j => x.rows[i][1] < x.rows[j][1]
      BY <1>2, SortedFacts
    <3>2. j < i => x.rows[j][1] < x.rows[i][1]
      BY <1>2, SortedFacts
    <3>. QED BY <3>0, <3>1, <3>2
  <2>. QED BY <2>2, <2>4, <2>5
<1>. QED BY <1>1, <1>2

\* What the topic says after some of what is queued is delivered.
LEMMA AfterFacts ==
    ASSUME TypeOK, DeltasInv, NEW D \in SUBSET deltas
    PROVE  /\ After(D) \in Populations
           /\ \A k \in Keys \ KeysIn(D) : After(D)[k] = topic[k]
           /\ \A k \in KeysIn(D) : k \in Keys /\ After(D)[k] = newIndex[k]
                                   /\ <<k, newIndex[k]>> \in D
<1>1. \A d \in D : d \in Keys \X (0..MaxVersion) /\ d[2] = newIndex[d[1]]
  BY DEF DeltasInv
<1>2. ASSUME NEW k \in KeysIn(D)
      PROVE  k \in Keys /\ After(D)[k] = newIndex[k] /\ <<k, newIndex[k]>> \in D
  <2>1. PICK d \in D : d[1] = k
    BY DEF KeysIn
  <2>2. k \in Keys /\ d = <<k, newIndex[k]>>
    BY <1>1, <2>1
  <2>3. \A e \in D : e[1] = k => e[2] = newIndex[k]
    BY <1>1
  <2>4. After(D)[k] = (CHOOSE e \in D : e[1] = k)[2]
    BY <2>1, <2>2 DEF After
  <2>. QED BY <2>1, <2>2, <2>3, <2>4
<1>3. ASSUME NEW k \in Keys \ KeysIn(D) PROVE After(D)[k] = topic[k]
  BY DEF After, KeysIn
<1>4. After(D) = [k \in Keys |-> After(D)[k]]
  BY DEF After
<1>5. \A k \in Keys : After(D)[k] \in 0..MaxVersion
  BY <1>2, <1>3 DEF TypeOK, Populations
<1>. HIDE DEF After
<1>6. After(D) \in [Keys -> 0..MaxVersion]
  BY <1>4, <1>5
<1>. QED BY <1>2, <1>3, <1>6 DEF Populations
-----------------------------------------------------------------------------
LEMMA TypeInit == Init => TypeOK
BY DEF Init, TypeOK, Populations, Empty, Stages, Rows

\* What is not there is not a file to take.
LEMMA NotNone ==
    ASSUME TypeOK, NEW n \in Names, Whole(landing[n])
    PROVE  landing[n] \in Extracts /\ landing[n].rows \in Seq(Rows)
BY DEF TypeOK, Whole, None

LEMMA ForgetType ==
    ASSUME Forget
    PROVE  /\ newIndex' \in Populations /\ pc' \in Stages
           /\ todo' \subseteq Names /\ cur' \in Names \cup {0}
           /\ left' \subseteq Keys /\ right' \in Seq(Rows) /\ last' \in Keys \cup {0}
           /\ deltas' \subseteq Keys \X (0..MaxVersion)
BY DEF Forget, Populations, Empty, Stages, Rows

LEMMA AbortType ==
    ASSUME TypeOK, DeltasInv, Abort, faults' \in 0..MaxFaults PROVE TypeOK'
<1>1. PICK D \in SUBSET deltas : topic' = After(D) /\ spoilt' \subseteq spoilt \cup KeysIn(D)
  BY DEF Abort
<1>2. topic' \in Populations /\ KeysIn(D) \subseteq Keys
  BY <1>1, AfterFacts
<1>. QED BY <1>1, <1>2, ForgetType DEF Abort, TypeOK

LEMMA TypeStep ==
    ASSUME TypeOK, HandInv, DeltasInv, [Next]_vars PROVE TypeOK'
<1>. USE DEF TypeOK
<1>1. ASSUME NEW n \in Names, NEW x \in Extracts, Drop(n, x) PROVE TypeOK'
  BY <1>1 DEF Drop, memory
<1>2. CASE Run
  BY <1>2 DEF Run, Stages, Waiting
<1>3. CASE RunEnds
  BY <1>3, ForgetType DEF RunEnds
<1>4. CASE Take
  <2>1. PICK n \in todo : /\ cur' = n /\ todo' = todo \ {n} /\ pc' \in {"archive", "merge"}
                          /\ left' \in {left, {k \in Keys : index[k] # 0}}
                          /\ right' = right \/ (Whole(landing[n]) /\ right' = landing[n].rows)
    <3>1. Least(todo) \in todo
      <4>1. todo \subseteq Nat /\ todo # {}
        BY <1>4 DEF Take, Names
      <4>. QED BY <4>1, LeastFacts
    <3>. QED BY <1>4, <3>1 DEF Take
  <2>2. right' \in Seq(Rows)
    BY <2>1, NotNone
  <2>. QED BY <1>4, <2>1, <2>2 DEF Take, Stages
<1>5. CASE Refuse
  BY <1>5, ForgetType DEF Refuse
<1>6. CASE MergeRemoved
  <2>1. Least(left) \in left
    <3>1. left \subseteq Nat /\ left # {}
      BY <1>6 DEF MergeRemoved, Gone, Keys
    <3>. QED BY <3>1, LeastFacts
  <2>. QED BY <1>6, <2>1 DEF MergeRemoved, Merging, Removal
<1>7. ASSUME TakeRow, right # <<>>
      PROVE  /\ Head(right) \in Rows /\ right' \in Seq(Rows)
             /\ last' \in Keys /\ newIndex' \in Populations
  BY <1>7 DEF TakeRow, Rows, Versions, Populations
<1>8. CASE MergeAdded
  BY <1>7, <1>8 DEF MergeAdded, Merging, Fresh, Rows, Versions
<1>9. CASE MergeBoth
  BY <1>7, <1>9 DEF MergeBoth, Merging, Rows, Versions
<1>10. CASE MergeRaises
  BY <1>10, AbortType DEF MergeRaises
<1>11. CASE MergeEnds
  BY <1>11 DEF MergeEnds, Stages
<1>12. CASE Flush
  BY <1>12, AfterFacts DEF Flush, Stages
<1>13. CASE FlushFails
  BY <1>13, AbortType DEF FlushFails
<1>14. CASE Crash
  BY <1>14, AbortType DEF Crash
<1>15. CASE WriteIndex
  BY <1>15 DEF WriteIndex, Stages
<1>16. CASE RecordBatch
  <2>1. Batch(cur) \in Names \X Extracts
    BY <1>16, NotNone DEF RecordBatch, HandInv, Batch
  <2>. QED BY <1>16, <2>1 DEF RecordBatch, Stages
<1>17. CASE Archive
  <2>1. /\ newIndex' \in Populations /\ pc' \in Stages /\ cur' \in Names \cup {0}
        /\ left' \subseteq Keys /\ right' \in Seq(Rows) /\ last' \in Keys \cup {0}
    BY <1>17 DEF Archive, Stages, Populations, Empty, Rows
  <2>2. landing' \in [Names -> Extracts \cup {None}]
    BY <1>17 DEF Archive
  <2>. QED BY <1>17, <2>1, <2>2 DEF Archive
<1>18. CASE UNCHANGED vars
  BY <1>18 DEF vars
<1>. QED
  BY <1>1, <1>2, <1>3, <1>4, <1>5, <1>6, <1>8, <1>9, <1>10, <1>11, <1>12, <1>13, <1>14,
     <1>15, <1>16, <1>17, <1>18 DEF Next, Step
-----------------------------------------------------------------------------
LEMMA InitHolds == Init => IInv
<1>. SUFFICES ASSUME Init PROVE IInv
  OBVIOUS
<1>1. TypeOK
  BY TypeInit
<1>2. HandInv /\ RowsInv /\ DeltasInv /\ OverInv
  BY DEF Init, HandInv, RowsInv, DeltasInv, OverInv
<1>3. TopicInv
  BY DEF Init, TopicInv
<1>. QED BY <1>1, <1>2, <1>3 DEF IInv

\* The name taken next is one of those the run still has.
LEMMA NextName ==
    ASSUME TypeOK, todo # {}
    PROVE  Least(todo) \in todo /\ Least(todo) \in Names
<1>1. todo \subseteq Nat /\ todo \subseteq Names
  BY DEF TypeOK, Names
<1>. QED BY <1>1, LeastFacts

\* The key of the index merged next is the least.
LEMMA NextKey ==
    ASSUME TypeOK, left # {}
    PROVE  Least(left) \in left /\ Least(left) \in Keys /\ \A k \in left : Least(left) <= k
<1>1. left \subseteq Nat /\ left \subseteq Keys
  BY DEF TypeOK, Keys
<1>. QED BY <1>1, LeastFacts

\* A run that is over leaves nothing in memory.
LEMMA ForgetStep ==
    ASSUME Forget PROVE HandInv' /\ RowsInv' /\ DeltasInv' /\ OverInv'
BY DEF Forget, HandInv, RowsInv, DeltasInv, OverInv

LEMMA HandStep ==
    ASSUME TypeOK, HandInv, [Next]_vars PROVE HandInv'
<1>1. ASSUME NEW n \in Names, NEW x \in Extracts, Drop(n, x) PROVE HandInv'
  <2>1. cur # n /\ landing' = [landing EXCEPT ![n] = x]
    BY <1>1 DEF Drop
  <2>2. cur \in Names => landing'[cur] = landing[cur]
    BY <2>1 DEF TypeOK
  <2>. QED BY <1>1, <2>2 DEF Drop, memory, HandInv, Batch, Whole
<1>2. CASE Run
  BY <1>2 DEF Run, HandInv
<1>3. CASE Forget
  BY <1>3, ForgetStep
<1>4. CASE Take
  BY <1>4, NextName DEF Take, HandInv, Batch, Whole
<1>5. CASE MergeRemoved \/ MergeAdded \/ MergeBoth
  BY <1>5 DEF MergeRemoved, MergeAdded, MergeBoth, Merging, HandInv, Batch, Whole
<1>6. CASE MergeEnds
  BY <1>6 DEF MergeEnds, HandInv, Batch, Whole
<1>7. CASE Flush
  BY <1>7 DEF Flush, HandInv, Batch, Whole
<1>8. CASE WriteIndex
  BY <1>8 DEF WriteIndex, HandInv, Batch, Whole
<1>9. CASE RecordBatch
  BY <1>9 DEF RecordBatch, HandInv, Batch
<1>10. CASE Archive
  BY <1>10 DEF Archive, HandInv
<1>11. CASE UNCHANGED vars
  BY <1>11 DEF vars, HandInv, Batch, Whole
<1>. QED
  BY <1>1, <1>2, <1>3, <1>4, <1>5, <1>6, <1>7, <1>8, <1>9, <1>10, <1>11
     DEF Next, Step, RunEnds, Refuse, MergeRaises, FlushFails, Crash, Abort
-----------------------------------------------------------------------------
\* What a merge has in hand: rows, and a row to take next unless it is over.
LEMMA InHand ==
    ASSUME TypeOK, HandInv, RowsInv, pc = "merge"
    PROVE  /\ cur \in Names /\ landing[cur].rows \in Seq(Rows)
           /\ Merged \in 0..Len(landing[cur].rows)
           /\ \A j \in 1..Len(landing[cur].rows) : Row(j) \in Rows
           /\ right # <<>> => /\ Merged + 1 \in 1..Len(landing[cur].rows)
                              /\ Head(right) = Row(Merged + 1)
                              /\ Head(right) \in Rows
           /\ right = <<>> => Merged = Len(landing[cur].rows)
<1>1. cur \in Names /\ Whole(landing[cur])
  BY DEF HandInv
<1>2. landing[cur].rows \in Seq(Rows)
  BY <1>1, NotNone
<1>3. right \in Seq(Rows) /\ Merged \in Nat
  BY DEF TypeOK, RowsInv
<1>4. Merged \in 0..Len(landing[cur].rows)
  BY <1>2, <1>3 DEF Merged
<1>5. ASSUME right # <<>>
      PROVE  /\ Merged + 1 \in 1..Len(landing[cur].rows)
             /\ Head(right) = Row(Merged + 1) /\ Head(right) \in Rows
  <2>1. Len(right) \in Nat \ {0} /\ Head(right) = right[1] /\ Head(right) \in Rows
    BY <1>3, <1>5
  <2>2. Merged + 1 \in 1..Len(landing[cur].rows)
    BY <1>2, <1>4, <2>1 DEF Merged
  <2>. QED BY <2>1, <2>2 DEF RowsInv
<1>. QED BY <1>1, <1>2, <1>3, <1>4, <1>5 DEF Merged, Row

\* The keys of the rows merged are no greater than the last.
LEMMA MergedFacts ==
    ASSUME TypeOK, HandInv, RowsInv, pc = "merge"
    PROVE  /\ \A j \in 1..Merged : Row(j)[1] \in Keys /\ Row(j)[1] <= last
           /\ \A k \in Keys : last < k => newIndex[k] = 0
<1>1. ASSUME NEW j \in 1..Merged PROVE Row(j)[1] \in Keys /\ Row(j)[1] <= last
  <2>1. Row(j) \in Rows /\ Merged # 0
    BY InHand
  <2>2. last = Row(Merged)[1] /\ (j < Merged => Row(j)[1] < Row(Merged)[1])
    BY <2>1, InHand DEF RowsInv
  <2>. QED BY <2>1, <2>2, InHand DEF Rows, Keys
<1>2. ASSUME NEW k \in Keys, last < k PROVE newIndex[k] = 0
  <2>1. ASSUME NEW j \in 1..Merged PROVE Row(j)[1] # k
    BY <1>1, <1>2, <2>1 DEF Keys, TypeOK
  <2>. QED BY <2>1 DEF RowsInv
<1>. QED BY <1>1, <1>2

\* The row at the head is merged in its order.
LEMMA TakeRowRows ==
    ASSUME TypeOK, HandInv, RowsInv, pc = "merge", right # <<>>, ~Unsorted, TakeRow,
           UNCHANGED <<landing, cur>>
    PROVE  RowsInv'
<1> DEFINE m == Merged + 1
<1>1. /\ right \in Seq(Rows) /\ Merged \in Nat /\ m \in 1..Len(landing[cur].rows)
      /\ Head(right) = Row(m) /\ Row(m) \in Rows
  BY InHand DEF TypeOK, RowsInv
<1>2. /\ right' = Tail(right) /\ right' \in Seq(Rows)
      /\ Len(right') = Len(right) - 1 /\ Len(right) \in Nat \ {0}
      /\ \A j \in 1..Len(right') : right'[j] = right[j + 1]
  BY <1>1 DEF TakeRow
<1>3. Merged' = m
  BY <1>1, <1>2, InHand DEF Merged
<1>4. \A j : Row(j)' = Row(j)
  BY DEF Row
<1>5. \A j \in 1..Len(right') : right'[j] = Row(m + j)
  <2>1. ASSUME NEW j \in 1..Len(right') PROVE right'[j] = Row(m + j)
    <3>1. j + 1 \in 1..Len(right) /\ Merged + (j + 1) = m + j
      BY <1>1, <1>2
    <3>. QED BY <1>2, <3>1 DEF RowsInv
  <2>. QED BY <2>1
<1>6. last' = Row(m)[1] /\ m # 0
  BY <1>1 DEF TakeRow
<1>7. \A j \in 1..Merged : Row(j)[1] < Row(m)[1]
  <2>1. last < Row(m)[1]
    BY <1>1 DEF Unsorted, TypeOK, Rows, Keys
  <2>. QED BY <1>1, <2>1, MergedFacts DEF TypeOK, Rows, Keys
<1>8. \A i, j \in 1..m : i < j => Row(i)[1] < Row(j)[1]
  <2>1. ASSUME NEW i \in 1..m, NEW j \in 1..m, i < j PROVE Row(i)[1] < Row(j)[1]
    <3>1. i \in 1..Merged /\ (j = m \/ j \in 1..Merged)
      BY <1>1, <2>1
    <3>. QED BY <1>7, <2>1, <3>1 DEF RowsInv
  <2>. QED BY <2>1
<1>9. \A k \in Keys : \/ newIndex'[k] = 0 /\ \A j \in 1..m : Row(j)[1] # k
                      \/ \E j \in 1..m : Row(j) = <<k, newIndex'[k]>>
  <2>1. newIndex' = [newIndex EXCEPT ![Row(m)[1]] = Row(m)[2]]
    <3>. HIDE DEF m
    <3>. QED BY <1>1 DEF TakeRow
  <2>2. 1..m = (1..Merged) \cup {m}
    BY <1>1
  <2>3. ASSUME NEW k \in Keys, k = Row(m)[1] PROVE Row(m) = <<k, newIndex'[k]>>
    <3>. HIDE DEF m
    <3>1. Row(m) = <<Row(m)[1], Row(m)[2]>>
      BY <1>1 DEF Rows
    <3>2. newIndex'[k] = Row(m)[2]
      BY <2>1, <2>3 DEF TypeOK, Populations
    <3>. QED BY <2>3, <3>1, <3>2
  <2>4. ASSUME NEW k \in Keys, k # Row(m)[1] PROVE newIndex'[k] = newIndex[k]
    BY <2>1, <2>4 DEF TypeOK, Populations
  <2>5. \A k \in Keys : \/ newIndex[k] = 0 /\ \A j \in 1..Merged : Row(j)[1] # k
                        \/ \E j \in 1..Merged : Row(j) = <<k, newIndex[k]>>
    BY DEF RowsInv
  <2>. HIDE DEF m
  <2>6. ASSUME NEW k \in Keys, k # Row(m)[1]
        PROVE  \/ newIndex'[k] = 0 /\ \A j \in 1..m : Row(j)[1] # k
               \/ \E j \in 1..m : Row(j) = <<k, newIndex'[k]>>
    <3>1. newIndex'[k] = newIndex[k]
      BY <2>4, <2>6
    <3>2. CASE newIndex[k] = 0 /\ \A j \in 1..Merged : Row(j)[1] # k
      BY <2>2, <2>6, <3>1, <3>2
    <3>3. CASE \E j \in 1..Merged : Row(j) = <<k, newIndex[k]>>
      BY <2>2, <3>1, <3>3
    <3>. QED BY <2>5, <3>2, <3>3
  <2>7. m \in 1..m
    BY <2>2
  <2>. QED BY <2>3, <2>6, <2>7
<1>. HIDE DEF m
<1>. QED BY <1>1, <1>3, <1>4, <1>5, <1>6, <1>8, <1>9 DEF RowsInv

\* What is merged stays so when the file in hand and what is made of it do.
LEMMA SameRows ==
    ASSUME RowsInv, UNCHANGED <<pc, cur, right, last, newIndex>>,
           pc = "merge" => landing'[cur] = landing[cur]
    PROVE  RowsInv'
<1>. SUFFICES ASSUME pc = "merge" PROVE RowsInv'
  BY DEF RowsInv
<1>1. Merged' = Merged /\ \A j : Row(j)' = Row(j)
  BY DEF Merged, Row
<1>. QED BY <1>1 DEF RowsInv

LEMMA RowsStep ==
    ASSUME TypeOK, HandInv, RowsInv, [Next]_vars PROVE RowsInv'
<1>1. ASSUME NEW n \in Names, NEW x \in Extracts, Drop(n, x) PROVE RowsInv'
  <2>1. cur # n /\ landing' = [landing EXCEPT ![n] = x]
    BY <1>1 DEF Drop
  <2>2. cur \in Names => landing'[cur] = landing[cur]
    BY <2>1 DEF TypeOK
  <2>3. pc = "merge" => cur \in Names
    BY DEF HandInv
  <2>4. UNCHANGED <<pc, cur, right, last, newIndex>>
    BY <1>1 DEF Drop, memory
  <2>. QED BY <2>2, <2>3, <2>4, SameRows
<1>2. CASE pc' # "merge"
  BY <1>2 DEF RowsInv
<1>3. CASE Take /\ pc' = "merge"
  <2> DEFINE n == Least(todo)
  <2>1. /\ n \in Names /\ Whole(landing[n]) /\ right' = landing[n].rows
        /\ landing' = landing /\ cur' = n /\ last' = 0 /\ newIndex' = Empty
    BY <1>3, NextName DEF Take, HandInv
  <2>. HIDE DEF n
  <2>2. landing[n].rows \in Seq(Rows)
    BY <2>1, NotNone
  <2>3. Merged' = 0
    BY <2>1, <2>2 DEF Merged
  <2>. QED BY <2>1, <2>2, <2>3 DEF RowsInv, Row, Empty
<1>4. CASE MergeRemoved
  BY <1>4, SameRows DEF MergeRemoved, Merging
<1>5. CASE MergeAdded \/ MergeBoth
  BY <1>5, TakeRowRows DEF MergeAdded, MergeBoth, Merging, Fresh
<1>6. CASE UNCHANGED vars
  BY <1>6, SameRows DEF vars
<1>. QED
  BY <1>1, <1>2, <1>3, <1>4, <1>5, <1>6
     DEF Next, Step, Run, RunEnds, Refuse, MergeRaises, MergeEnds, Flush, FlushFails, Crash,
         WriteIndex, RecordBatch, Archive, Abort, Forget
-----------------------------------------------------------------------------
\* A key of the index that is not in the file is queued for removal.
LEMMA RemovedDeltas ==
    ASSUME TypeOK, HandInv, RowsInv, DeltasInv, MergeRemoved PROVE DeltasInv'
<1> DEFINE m == Least(left)
<1>1. /\ pc = "merge" /\ pc' = "merge" /\ m \in left /\ m \in Keys /\ \A k \in left : m <= k
      /\ right # <<>> => m < Head(right)[1]
      /\ deltas' = deltas \cup {<<m, 0>>} /\ left' = left \ {m}
      /\ UNCHANGED <<index, right, last, newIndex>>
  BY NextKey DEF MergeRemoved, Merging, Gone, Removal
<1>. HIDE DEF m
<1>2. index[m] # 0 /\ last < m /\ newIndex[m] = 0
  BY <1>1, MergedFacts DEF DeltasInv
<1>3. \A d \in deltas' : /\ d \in Keys \X (0..MaxVersion)
                         /\ newIndex'[d[1]] = d[2] /\ index'[d[1]] # d[2]
                         /\ \/ d[1] <= last'
                            \/ right' # <<>> => d[1] < Head(right')[1]
  <2>1. ASSUME NEW d \in deltas
        PROVE  /\ d \in Keys \X (0..MaxVersion) /\ newIndex[d[1]] = d[2] /\ index[d[1]] # d[2]
               /\ \/ d[1] <= last
                  \/ right # <<>> => d[1] < Head(right)[1]
    BY <1>1 DEF DeltasInv
  <2>2. <<m, 0>> \in Keys \X (0..MaxVersion)
    BY <1>1
  <2>. QED BY <1>1, <1>2, <2>1, <2>2
<1>4. \A k \in left' : index'[k] # 0 /\ last' < k
  BY <1>1 DEF DeltasInv
<1>5. \A k \in Keys \ left' : index'[k] # newIndex'[k] => <<k, newIndex'[k]>> \in deltas'
  BY <1>1, <1>2 DEF DeltasInv
<1>. QED BY <1>1, <1>3, <1>4, <1>5 DEF DeltasInv

\* A key that only the file has had no place in the index.
LEMMA FreshKey ==
    ASSUME TypeOK, HandInv, RowsInv, DeltasInv, pc = "merge",
           right # <<>>, ~Unsorted, Head(right)[1] \notin left
    PROVE  index[Head(right)[1]] = 0
<1> DEFINE h == Head(right)[1]
<1>1. h \in Keys /\ h \in Int /\ last \in Int /\ last < h
  BY InHand DEF Unsorted, Rows, Keys, TypeOK
<1>2. newIndex[h] = 0
  BY <1>1, MergedFacts
<1>3. SUFFICES ASSUME index[h] # 0 PROVE FALSE
  OBVIOUS
<1>. HIDE DEF h
<1>4. <<h, 0>> \in deltas
  BY <1>1, <1>2, <1>3 DEF DeltasInv, h
<1>5. h <= last \/ (right # <<>> => h < Head(right)[1])
  BY <1>4 DEF DeltasInv
<1>. QED BY <1>1, <1>5 DEF h

\* The row at the head is queued if its version is not that of the index.
LEMMA TakeRowDeltas ==
    ASSUME TypeOK, HandInv, RowsInv, DeltasInv, pc = "merge", pc' = "merge",
           right # <<>>, ~Unsorted, TakeRow, index' = index,
           left' = left \ {Head(right)[1]},
           \A k \in left : Head(right)[1] <= k,
           deltas' = IF index[Head(right)[1]] # Head(right)[2]
                     THEN deltas \cup {Head(right)} ELSE deltas
    PROVE  DeltasInv'
<1> DEFINE h == Head(right)[1]
           v == Head(right)[2]
<1>0. Head(right) \in Rows
  BY InHand
<1>1. /\ Head(right) = <<h, v>> /\ h \in Keys /\ v \in 0..MaxVersion
      /\ h \in Int /\ last \in Int /\ last < h
  <2>1. Head(right) = <<h, v>> /\ h \in Keys /\ v \in 0..MaxVersion
    BY <1>0 DEF Rows, Versions
  <2>. HIDE DEF v
  <2>. QED BY <2>1 DEF Unsorted, Keys, TypeOK
<1>2. /\ newIndex' = [newIndex EXCEPT ![h] = v] /\ last' = h
      /\ newIndex'[h] = v /\ \A k \in Keys : k # h => newIndex'[k] = newIndex[k]
  BY <1>1 DEF TakeRow, TypeOK, Populations
<1>3. left' = left \ {h} /\ \A k \in left : h <= k /\ k \in Int
  BY DEF TypeOK, Keys
<1>4. deltas' = IF index[h] # v THEN deltas \cup {<<h, v>>} ELSE deltas
  BY <1>1
<1>5. ASSUME NEW d \in deltas
      PROVE  /\ d \in Keys \X (0..MaxVersion) /\ newIndex[d[1]] = d[2] /\ index[d[1]] # d[2]
             /\ d[1] < h
  <2>1. /\ d \in Keys \X (0..MaxVersion) /\ newIndex[d[1]] = d[2] /\ index[d[1]] # d[2]
        /\ d[1] <= last \/ d[1] < h
    BY DEF DeltasInv
  <2>2. d[1] \in Int
    BY <2>1 DEF Keys
  <2>. QED BY <1>1, <2>1, <2>2
<1>. HIDE DEF h, v
<1>6. \A d \in deltas' : /\ d \in Keys \X (0..MaxVersion)
                         /\ newIndex'[d[1]] = d[2] /\ index'[d[1]] # d[2] /\ d[1] <= last'
  <2>1. ASSUME NEW d \in deltas
        PROVE  newIndex'[d[1]] = d[2] /\ d[1] <= h
    <3>1. d[1] \in Keys /\ d[1] \in Int /\ d[1] < h
      BY <1>5 DEF Keys
    <3>. QED BY <1>1, <1>2, <1>5, <3>1
  <2>2. index[h] # v => LET d == <<h, v>> IN
                        /\ d \in Keys \X (0..MaxVersion)
                        /\ newIndex'[d[1]] = d[2] /\ index[d[1]] # d[2] /\ d[1] <= h
    BY <1>1, <1>2
  <2>3. \A d \in deltas' : d \in deltas \/ (d = <<h, v>> /\ index[h] # v)
    BY <1>4
  <2>. QED BY <1>2, <1>5, <2>1, <2>2, <2>3
<1>7. \A k \in left' : index'[k] # 0 /\ last' < k
  BY <1>1, <1>2, <1>3 DEF DeltasInv
<1>8. \A k \in Keys \ left' : index'[k] # newIndex'[k] => <<k, newIndex'[k]>> \in deltas'
  BY <1>1, <1>2, <1>3, <1>4 DEF DeltasInv
<1>. QED BY <1>6, <1>7, <1>8 DEF DeltasInv

LEMMA DeltasStep ==
    ASSUME TypeOK, HandInv, RowsInv, DeltasInv, [Next]_vars PROVE DeltasInv'
<1>1. CASE deltas' = {} /\ pc' # "merge"
  BY <1>1 DEF DeltasInv
<1>2. CASE UNCHANGED <<deltas, newIndex>> /\ pc' # "merge"
  BY <1>2 DEF DeltasInv
<1>3. CASE UNCHANGED <<deltas, newIndex, index, left, last, right, pc>>
  BY <1>3 DEF DeltasInv
<1>4. CASE Take
  <2>1. /\ deltas' = {} /\ newIndex' = Empty /\ last' = 0 /\ index' = index
        /\ pc' = "merge" => left' = {k \in Keys : index[k] # 0}
    BY <1>4 DEF Take, HandInv
  <2>. QED BY <2>1 DEF DeltasInv, Keys, Empty
<1>5. CASE MergeRemoved
  BY <1>5, RemovedDeltas
<1>6. CASE MergeAdded
  <2>1. /\ pc = "merge" /\ pc' = "merge" /\ right # <<>> /\ ~Unsorted /\ TakeRow
        /\ index' = index /\ deltas' = deltas \cup {Head(right)} /\ left' = left
    BY <1>6 DEF MergeAdded, Merging, Fresh
  <2>2. Head(right) \in Rows /\ Head(right)[1] \in Int /\ Head(right)[2] # 0
    BY <2>1, InHand DEF Rows, Keys, Versions
  <2>3. \A k \in left : Head(right)[1] < k
    <3>1. left # {} => Head(right)[1] < Least(left) /\ Least(left) \in Keys
      BY <1>6, NextKey DEF MergeAdded, Fresh
    <3>. QED BY <2>2, <3>1, NextKey DEF TypeOK, Keys
  <2>4. Head(right)[1] \notin left /\ \A k \in left : Head(right)[1] <= k
    BY <2>2, <2>3 DEF TypeOK, Keys
  <2>5. index[Head(right)[1]] = 0
    BY <2>1, <2>4, FreshKey
  <2>6. left' = left \ {Head(right)[1]}
    BY <2>1, <2>4
  <2>. QED BY <2>1, <2>2, <2>4, <2>5, <2>6, TakeRowDeltas
<1>7. CASE MergeBoth
  <2>1. /\ pc = "merge" /\ pc' = "merge" /\ right # <<>> /\ ~Unsorted /\ TakeRow
        /\ index' = index /\ left # {} /\ Least(left) = Head(right)[1]
        /\ left' = left \ {Least(left)}
        /\ deltas' = IF index[Least(left)] # Head(right)[2]
                     THEN deltas \cup {Head(right)} ELSE deltas
    BY <1>7 DEF MergeBoth, Merging
  <2>2. \A k \in left : Head(right)[1] <= k
    BY <2>1, NextKey
  <2>. QED BY <2>1, <2>2, TakeRowDeltas
<1>8. CASE Archive
  BY <1>8 DEF Archive, HandInv, DeltasInv
<1>. QED
  BY <1>1, <1>2, <1>3, <1>4, <1>5, <1>6, <1>7, <1>8
     DEF Next, Step, Run, RunEnds, Refuse, MergeRaises, MergeEnds, Flush, FlushFails, Crash,
         WriteIndex, RecordBatch, Abort, Forget, Drop, memory, vars
-----------------------------------------------------------------------------
\* When both streams are through, the file is in order, the new index is its
\* population, and what is queued is what that changes.
LEMMA MergeIsOver ==
    ASSUME TypeOK, HandInv, RowsInv, DeltasInv, MergeEnds
    PROVE  /\ Sorted(landing[cur]) /\ newIndex = Population(landing[cur])
           /\ deltas = {<<k, newIndex[k]>> : k \in {j \in Keys : index[j] # newIndex[j]}}
<1> DEFINE x == landing[cur]
<1>1. /\ pc = "merge" /\ left = {} /\ Merged = Len(x.rows)
      /\ x.rows \in Seq(Rows) /\ \A j : Row(j) = x.rows[j]
  BY InHand DEF MergeEnds, Row
<1>2. \A i, j \in 1..Len(x.rows) : i < j => x.rows[i][1] < x.rows[j][1]
  BY <1>1 DEF RowsInv
<1>3. Sorted(x)
  BY <1>1, <1>2 DEF Sorted
<1>4. ASSUME NEW k \in Keys PROVE newIndex[k] = Population(x)[k]
  <2>1. CASE newIndex[k] = 0 /\ \A j \in 1..Merged : Row(j)[1] # k
    BY <1>1, <2>1, PopulationFacts DEF KeysOf
  <2>2. CASE \E j \in 1..Merged : Row(j) = <<k, newIndex[k]>>
    BY <1>1, <1>3, <2>2, PopulationFacts
  <2>. QED BY <1>1, <2>1, <2>2 DEF RowsInv
<1>5. newIndex = Population(x)
  BY <1>4 DEF TypeOK, Populations, Population
<1>6. \A d \in deltas : d = <<d[1], newIndex[d[1]]>> /\ d[1] \in Keys
                        /\ index[d[1]] # newIndex[d[1]]
  BY <1>1 DEF DeltasInv
<1>7. \A k \in Keys : index[k] # newIndex[k] => <<k, newIndex[k]>> \in deltas
  BY <1>1 DEF DeltasInv
<1>8. deltas = {<<k, newIndex[k]>> : k \in {j \in Keys : index[j] # newIndex[j]}}
  BY <1>6, <1>7
<1>. QED BY <1>3, <1>5, <1>8

LEMMA OverStep ==
    ASSUME TypeOK, HandInv, RowsInv, DeltasInv, OverInv, [Next]_vars PROVE OverInv'
<1>1. CASE pc' \notin {"flush", "index", "record"}
  BY <1>1 DEF OverInv
<1>2. ASSUME NEW n \in Names, NEW x \in Extracts, Drop(n, x) PROVE OverInv'
  <2>1. cur # n /\ landing' = [landing EXCEPT ![n] = x]
    BY <1>2 DEF Drop
  <2>2. cur \in Names => landing'[cur] = landing[cur]
    BY <2>1 DEF TypeOK
  <2>3. pc \in {"flush", "index", "record"} => cur \in Names
    BY DEF HandInv
  <2>4. UNCHANGED <<pc, cur, newIndex, deltas, index, topic>>
    BY <1>2 DEF Drop, memory
  <2>. QED BY <2>2, <2>3, <2>4 DEF OverInv
<1>3. CASE MergeEnds
  <2>1. pc' = "flush" /\ UNCHANGED <<landing, cur, newIndex, deltas, index>>
    BY <1>3 DEF MergeEnds
  <2>. QED BY <1>3, <2>1, MergeIsOver DEF OverInv
<1>4. CASE Flush
  <2>1. /\ pc = "flush" /\ pc' = "index" /\ topic' = After(deltas)
        /\ UNCHANGED <<landing, cur, newIndex, deltas, index>>
    BY <1>4 DEF Flush
  <2>2. ASSUME NEW d \in deltas PROVE topic'[d[1]] = d[2]
    <3>1. d[1] \in KeysIn(deltas) /\ newIndex[d[1]] = d[2]
      BY DEF KeysIn, DeltasInv
    <3>. QED BY <2>1, <3>1, AfterFacts
  <2>. QED BY <2>1, <2>2 DEF OverInv
<1>5. CASE WriteIndex
  BY <1>5 DEF WriteIndex, OverInv
<1>6. CASE UNCHANGED vars
  BY <1>6 DEF vars, OverInv
<1>. QED
  BY <1>1, <1>2, <1>3, <1>4, <1>5, <1>6
     DEF Next, Step, Run, RunEnds, Take, Refuse, MergeRemoved, MergeAdded, MergeBoth, Merging,
         MergeRaises, FlushFails, Crash, RecordBatch, Archive, Abort, Forget
-----------------------------------------------------------------------------
\* The removal of a key is not queued while the file may still have it before
\* the first row that goes back.
LEMMA RemovedIsAbsent ==
    ASSUME TypeOK, HandInv, RowsInv, DeltasInv, pc = "merge", NEW k \in Keys,
           <<k, 0>> \in deltas
    PROVE  k \notin KeysInOrder(landing[cur])
<1> DEFINE len == Len(landing[cur].rows)
<1>1. /\ Merged \in 0..len /\ len \in Nat /\ \A j \in 1..len : Row(j) \in Rows
      /\ right # <<>> => Head(right) = Row(Merged + 1)
      /\ right = <<>> => Merged = len
  BY InHand
<1>2. newIndex[k] = 0 /\ (k <= last \/ (right # <<>> => k < Head(right)[1]))
  BY DEF DeltasInv
<1>3. ASSUME NEW j \in 1..Merged PROVE Row(j)[1] # k
  <2>1. \/ \A i \in 1..Merged : Row(i)[1] # k
        \/ \E i \in 1..Merged : Row(i) = <<k, 0>>
    BY <1>2 DEF RowsInv
  <2>2. \A i \in 1..Merged : Row(i) # <<k, 0>>
    <3>1. \A i \in 1..Merged : Row(i) \in Rows
      BY <1>1
    <3>. QED BY <3>1 DEF Rows, Versions
  <2>. QED BY <2>1, <2>2
<1>4. SUFFICES ASSUME NEW j \in 1..len, Row(j)[1] = k,
                      \A n \in 2..j : Row(n - 1)[1] <= Row(n)[1]
               PROVE  FALSE
  BY <1>1 DEF KeysInOrder, Row
<1>0. \A i \in 1..j : Row(i)[1] <= k
  <2>1. landing[cur].rows \in Seq(Rows)
    BY InHand
  <2>. QED BY <1>4, <2>1, OrderFacts DEF Row
<1>5. j \in (Merged + 1)..len /\ k \in Int /\ right # <<>>
  BY <1>1, <1>3, <1>4 DEF Keys
<1>6. last < k
  <2>1. CASE Merged = 0
    BY <2>1, <1>5 DEF RowsInv, Keys
  <2>2. CASE Merged # 0
    <3>1. Merged \in 1..Merged /\ Merged \in 1..len /\ Merged < j
      BY <1>1, <1>5, <2>2
    <3>2. last = Row(Merged)[1] /\ Row(Merged)[1] <= k /\ Row(Merged)[1] # k
      BY <1>0, <1>3, <1>4, <2>2, <3>1 DEF RowsInv
    <3>. QED BY <1>5, <3>2 DEF TypeOK, Keys
  <2>. QED BY <2>1, <2>2
<1>7. k < Row(Merged + 1)[1]
  BY <1>1, <1>2, <1>5, <1>6 DEF TypeOK, Keys
<1>8. j = Merged + 1 \/ (Merged + 1 \in 1..len /\ Merged + 1 < j)
  BY <1>1, <1>5
<1>9. Row(Merged + 1)[1] <= k
  BY <1>0, <1>1, <1>5, <1>8
<1>. QED
  <2>1. Merged + 1 \in 1..len
    BY <1>1, <1>5
  <2>2. Row(Merged + 1)[1] \in Int
    BY <1>1, <2>1 DEF Rows, Keys
  <2>. QED BY <1>5, <1>7, <1>9, <2>2

\* What is queued of a file in order is what the file says.
LEMMA QueuedIsFile ==
    ASSUME IInv, NEW k \in Keys, <<k, newIndex[k]>> \in deltas,
           cur # 0 => Sorted(landing[cur])
    PROVE  /\ cur \in Names /\ Usable(landing[cur]) /\ Batch(cur) \notin ledger
           /\ newIndex[k] = Population(landing[cur])[k]
<1>. USE DEF IInv
<1>1. /\ pc \in {"merge", "flush", "index"} /\ cur \in Names /\ cur # 0
      /\ Usable(landing[cur]) /\ Batch(cur) \notin ledger
  BY DEF HandInv, TypeOK, Stages, Usable, Names
<1>2. CASE pc \in {"flush", "index"}
  BY <1>1, <1>2 DEF OverInv
<1>3. CASE pc = "merge"
  <2> DEFINE x == landing[cur]
  <2>1. /\ x.rows \in Seq(Rows) /\ Merged \in 0..Len(x.rows)
        /\ \A j \in 1..Len(x.rows) : Row(j) = x.rows[j] /\ Row(j) \in Rows
    BY <1>3, InHand DEF Row
  <2>2. CASE \E j \in 1..Merged : Row(j) = <<k, newIndex[k]>>
    BY <1>1, <2>1, <2>2, PopulationFacts
  <2>3. CASE newIndex[k] = 0 /\ \A j \in 1..Merged : Row(j)[1] # k
    <3>3. k \notin KeysOf(x)
      BY <1>1, <1>3, <2>1, <2>3, RemovedIsAbsent, SortedKeys
    <3>. QED BY <1>1, <2>1, <2>3, <3>3, PopulationFacts
  <2>. QED BY <1>1, <1>3, <2>2, <2>3 DEF RowsInv
<1>. QED BY <1>1, <1>2, <1>3

\* Some of what is queued is delivered, the files and the index stay.
LEMMA DeliverTopic ==
    ASSUME IInv, NEW D \in SUBSET deltas, topic' = After(D),
           spoilt' = IF cur # 0 /\ ~Sorted(landing[cur]) THEN spoilt \cup KeysIn(D)
                     ELSE spoilt \ KeysIn(D),
           UNCHANGED <<landing, ledger, index>>
    PROVE  TopicInv'
<1>. USE DEF IInv
<1>1. /\ \A k \in Keys \ KeysIn(D) : topic'[k] = topic[k]
      /\ \A k \in KeysIn(D) : topic'[k] = newIndex[k] /\ <<k, newIndex[k]>> \in deltas
  BY AfterFacts
<1>2. \A n : Batch(n)' = Batch(n)
  BY DEF Batch
<1>3. ASSUME NEW k \in Keys \ spoilt'
      PROVE  \/ topic'[k] = index[k]
             \/ \E n \in Names : /\ Usable(landing[n]) /\ Batch(n) \notin ledger
                                 /\ topic'[k] = Population(landing[n])[k]
  <2>1. CASE k \in KeysIn(D)
    BY <1>1, <1>3, <2>1, QueuedIsFile
  <2>2. CASE k \notin KeysIn(D)
    BY <1>1, <1>3, <2>2 DEF TopicInv
  <2>. QED BY <2>1, <2>2
<1>. QED BY <1>2, <1>3 DEF TopicInv

LEMMA TopicStep ==
    ASSUME IInv, [Next]_vars PROVE TopicInv'
<1>. USE DEF IInv
<1>1. ASSUME NEW n \in Names, NEW x \in Extracts, Drop(n, x) PROVE TopicInv'
  <2>1. /\ ~Usable(landing[n]) /\ landing' = [landing EXCEPT ![n] = x]
        /\ UNCHANGED <<ledger, index, topic, spoilt>>
    BY <1>1 DEF Drop, Usable, Whole, None
  <2>2. \A m \in Names : m # n => landing'[m] = landing[m] /\ Batch(m)' = Batch(m)
    BY <2>1 DEF TypeOK, Batch
  <2>. QED BY <2>1, <2>2 DEF TopicInv
<1>2. CASE Abort
  BY <1>2, DeliverTopic DEF Abort
<1>3. CASE Flush
  <2>1. /\ pc = "flush" /\ topic' = After(deltas) /\ spoilt' = spoilt \ KeysIn(deltas)
        /\ UNCHANGED <<landing, ledger, index>>
    BY <1>3 DEF Flush
  <2>2. Sorted(landing[cur])
    BY <2>1 DEF OverInv
  <2>. QED BY <2>1, <2>2, DeliverTopic
<1>4. CASE WriteIndex
  <2>1. pc = "index" /\ index' = newIndex /\ UNCHANGED <<landing, ledger, topic, spoilt>>
    BY <1>4 DEF WriteIndex
  <2>2. ASSUME NEW k \in Keys, index[k] # newIndex[k] PROVE topic[k] = newIndex[k]
    <3>1. <<k, newIndex[k]>> \in deltas
      BY <2>1, <2>2 DEF OverInv
    <3>. QED BY <2>1, <3>1 DEF OverInv
  <2>. QED BY <2>1, <2>2 DEF TopicInv, Batch
<1>5. CASE RecordBatch
  <2>1. /\ pc = "record" /\ ledger' = ledger \cup {Batch(cur)}
        /\ UNCHANGED <<landing, index, topic, spoilt>>
    BY <1>5 DEF RecordBatch
  <2>2. index = Population(landing[cur])
    BY <2>1 DEF HandInv, OverInv
  <2>3. \A n \in Names : Batch(n) \in ledger' => Batch(n) \in ledger \/ n = cur
    BY <2>1 DEF Batch
  <2>4. \A n : Batch(n)' = Batch(n)
    BY <2>1 DEF Batch
  <2>. QED BY <2>1, <2>2, <2>3, <2>4 DEF TopicInv
<1>6. CASE Archive
  <2>1. /\ landing' = [landing EXCEPT ![cur] = None] /\ Batch(cur) \in ledger
        /\ UNCHANGED <<ledger, index, topic, spoilt>>
    BY <1>6 DEF Archive, HandInv
  <2>2. \A n \in Names : n # cur => landing'[n] = landing[n] /\ Batch(n)' = Batch(n)
    BY <2>1 DEF TypeOK, Batch
  <2>. QED BY <2>1, <2>2 DEF TopicInv
<1>7. CASE UNCHANGED <<landing, ledger, index, topic, spoilt>>
  BY <1>7 DEF TopicInv, Batch
<1>. QED
  BY <1>1, <1>2, <1>3, <1>4, <1>5, <1>6, <1>7
     DEF Next, Step, Run, RunEnds, Take, Refuse, MergeRemoved, MergeAdded, MergeBoth, Merging,
         MergeRaises, MergeEnds, FlushFails, Crash, vars
-----------------------------------------------------------------------------
(***************************************************************************)
(* The memory of a run holds what the code puts there, and the invariant:  *)
(* the file in hand is whole, the new index is made of the rows merged,    *)
(* what is queued is what they change, and the topic says of a key what    *)
(* the index says or what a file says that is still to be taken.           *)
(***************************************************************************)
THEOREM Invariance == Spec => []IInv
<1>1. Init => IInv
  BY InitHolds
<1>2. IInv /\ [Next]_vars => IInv'
  <2>. SUFFICES ASSUME IInv, [Next]_vars PROVE IInv'
    OBVIOUS
  <2>. QED BY TypeStep, HandStep, RowsStep, DeltasStep, OverStep, TopicStep DEF IInv
<1>. QED BY <1>1, <1>2, PTL DEF Spec

\* The variables have the values the code gives them.
THEOREM TypeCorrect == Spec => []TypeOK
<1>1. IInv => TypeOK
  BY DEF IInv
<1>. QED BY <1>1, Invariance, PTL

(***************************************************************************)
(* The one pass over the two sorted streams queues exactly what the file   *)
(* changes in the index, and its new index is the file (sort_merge).       *)
(***************************************************************************)
THEOREM MergeComputesDifference == Spec => []MergeIsDifference
<1>1. IInv => MergeIsDifference
  <2>. SUFFICES ASSUME IInv, pc = "flush" PROVE MergeIsDifference
    BY DEF MergeIsDifference
  <2>1. /\ newIndex = Population(landing[cur])
        /\ deltas = {<<k, newIndex[k]>> : k \in {j \in Keys : index[j] # newIndex[j]}}
    BY DEF IInv, OverInv
  <2>. QED BY <2>1 DEF MergeIsDifference
<1>. QED BY <1>1, Invariance, PTL

(***************************************************************************)
(* When no file is left to take, the topic and the index agree of every    *)
(* key that a file in order had last, whatever failed, died or was         *)
(* delivered again on the way: nothing is considered applied that was not  *)
(* delivered (run_snapshot replaces the index after the flush).            *)
(***************************************************************************)
THEOREM NothingIsMissed == Spec => []IndexIsTopic
<1>1. IInv => IndexIsTopic
  <2>. SUFFICES ASSUME IInv, Waiting = {}, NEW k \in Keys \ spoilt
                PROVE  topic[k] = index[k]
    BY DEF IndexIsTopic
  <2>1. \A n \in Names : ~Usable(landing[n])
    BY DEF Waiting, Usable, Whole, None
  <2>. QED BY <2>1 DEF IInv, TopicInv
<1>. QED BY <1>1, Invariance, PTL

(***************************************************************************)
(* A key is taken off the topic only by a whole file that does not have it *)
(* before the first row that goes back, whatever files the vendor sends    *)
(* and at whatever point a run fails; by a file in order, only if it does  *)
(* not have it at all.                                                     *)
(***************************************************************************)
THEOREM LiveKeysStay == Spec => RemovedOnlyWhenAbsent
<1>1. ASSUME IInv, [Next]_vars, NEW k \in Keys, topic[k] # 0, topic'[k] = 0
      PROVE  Whole(landing[cur]) /\ k \notin KeysInOrder(landing[cur])
  <2>. USE DEF IInv
  <2>1. PICK D \in SUBSET deltas : topic' = After(D)
    BY <1>1 DEF Next, Step, Run, RunEnds, Take, Refuse, MergeRemoved, MergeAdded, MergeBoth,
                Merging, MergeRaises, MergeEnds, Flush, FlushFails, Crash, WriteIndex,
                RecordBatch, Archive, Abort, Drop, vars
  <2>2. k \in KeysIn(D) /\ newIndex[k] = 0 /\ <<k, 0>> \in deltas
    BY <1>1, <2>1, AfterFacts
  <2>3. pc \in {"merge", "flush", "index"} /\ cur \in Names /\ Whole(landing[cur])
    BY <1>1, <2>2 DEF HandInv, TypeOK, Stages
  <2>4. landing[cur] \in Extracts /\ landing[cur].rows \in Seq(Rows)
    BY <1>1, <2>3, NotNone
  <2>5. CASE pc = "merge"
    BY <1>1, <2>2, <2>3, <2>5, RemovedIsAbsent
  <2>6. CASE pc \in {"flush", "index"}
    <3>1. Sorted(landing[cur]) /\ Population(landing[cur])[k] = 0
      BY <1>1, <2>2, <2>6 DEF OverInv
    <3>2. ASSUME NEW j \in 1..Len(landing[cur].rows), landing[cur].rows[j][1] = k
          PROVE  FALSE
      <4>1. landing[cur].rows[j][2] = 0 /\ landing[cur].rows[j] \in Rows
        BY <2>4, <3>1, <3>2, PopulationFacts
      <4>. QED BY <4>1 DEF Rows, Versions
    <3>. QED BY <2>3, <2>4, <3>1, <3>2, SortedKeys DEF KeysOf
  <2>. QED BY <2>3, <2>5, <2>6
<1>2. IInv /\ [Next]_vars =>
        [\A k \in Keys : topic[k] # 0 /\ topic'[k] = 0 =>
             Whole(landing[cur]) /\ k \notin KeysInOrder(landing[cur])]_vars
  BY <1>1
<1>. QED BY <1>2, Invariance, PTL DEF Spec, RemovedOnlyWhenAbsent
-----------------------------------------------------------------------------
(* TrueUp, step by step.                                                   *)

\* A file on offer is sound, of one name, and not recorded.
LEMMA OfferedFacts ==
    ASSUME NEW n \in Names
    PROVE  /\ Usable(landing[n]) /\ Batch(n) \notin ledger
                => <<n, Population(landing[n])>> \in Offered
           /\ \A p : <<n, p>> \in Offered =>
                Usable(landing[n]) /\ Batch(n) \notin ledger /\ p = Population(landing[n])
           /\ \A f \in Offered : f = <<f[1], f[2]>> /\ f[1] \in Names
BY DEF Offered, Offerable

\* The population of a file is one.
LEMMA PopulationType ==
    ASSUME NEW x, x.rows \in Seq(Rows) PROVE Population(x) \in Populations
<1>1. ASSUME NEW k \in Keys PROVE Population(x)[k] \in 0..MaxVersion
  <2> DEFINE all == {x.rows[i] : i \in DOMAIN x.rows}
  <2>1. CASE k \notin KeysOf(x)
    BY <2>1, PopulationFacts
  <2>2. CASE k \in KeysOf(x)
    <3>1. Population(x)[k] = (CHOOSE r \in all : r[1] = k)[2]
      BY <2>2 DEF Population
    <3>2. \E r \in all : r[1] = k
      BY <2>2 DEF KeysOf
    <3>3. \A r \in all : r[2] \in 0..MaxVersion
      BY DEF Rows, Versions
    <3>. HIDE DEF all
    <3>. QED BY <3>1, <3>2, <3>3
  <2>. QED BY <2>1, <2>2
<1>2. Population(x) = [k \in Keys |-> Population(x)[k]]
  BY DEF Population
<1>. HIDE DEF Population
<1>. QED BY <1>1, <1>2 DEF Populations

\* The files and the ledger say what is on offer.
LEMMA OfferStays ==
    ASSUME UNCHANGED <<landing, ledger>> PROVE Offered' = Offered
BY DEF Offered, Offerable, Batch

\* What is delivered of a file in order is told, of another it is spoilt.
LEMMA DeliverStep ==
    ASSUME IInv, NEW D \in SUBSET deltas, topic' = After(D),
           spoilt' = IF cur # 0 /\ ~Sorted(landing[cur]) THEN spoilt \cup KeysIn(D)
                     ELSE spoilt \ KeysIn(D),
           UNCHANGED <<landing, ledger, index>>
    PROVE  [TU!Next]_(TU!vars)
<1>. USE DEF IInv
<1>1. /\ After(D) \in Populations
      /\ \A k \in Keys \ KeysIn(D) : topic'[k] = topic[k]
      /\ \A k \in KeysIn(D) : k \in Keys /\ topic'[k] = newIndex[k] /\ <<k, newIndex[k]>> \in deltas
  BY AfterFacts
<1>2. KeysIn(D) \in SUBSET Keys
  BY <1>1
<1>3. Offered' = Offered
  BY OfferStays
<1>4. CASE D = {}
  <2>1. KeysIn(D) = {} /\ spoilt' = spoilt
    BY <1>4 DEF KeysIn
  <2>2. topic' = topic
    BY <1>1, <2>1 DEF TypeOK, Populations
  <2>. QED BY <1>3, <2>1, <2>2 DEF TU!vars
<1>5. CASE cur # 0 /\ ~Sorted(landing[cur])
  <2>1. spoilt' = spoilt \cup KeysIn(D)
    BY <1>5
  <2>2. topic' \in TU!Populations
    BY <1>1 DEF Populations, TU!Populations
  <2>3. TU!Spoil
    BY <1>1, <1>2, <1>3, <2>1, <2>2 DEF TU!Spoil
  <2>. QED BY <2>3 DEF TU!Next
<1>6. CASE D # {} /\ (cur # 0 => Sorted(landing[cur]))
  <2> DEFINE p == Population(landing[cur])
  <2>1. \A k \in KeysIn(D) : /\ cur \in Names /\ Usable(landing[cur]) /\ Batch(cur) \notin ledger
                             /\ newIndex[k] = p[k]
    BY <1>1, <1>6, QueuedIsFile
  <2>2. \E k : k \in KeysIn(D)
    BY <1>6 DEF KeysIn
  <2>3. <<cur, p>> \in Offered
    BY <2>1, <2>2, OfferedFacts
  <2>4. ASSUME NEW k \in KeysIn(D) PROVE p[k] # index[k]
    <3>1. <<k, newIndex[k]>> \in deltas /\ newIndex[k] = p[k]
      BY <1>1, <2>1
    <3>2. CASE pc = "merge"
      BY <3>1, <3>2 DEF DeltasInv
    <3>3. CASE pc \in {"flush", "index"}
      BY <3>1, <3>3 DEF OverInv
    <3>4. pc \in {"merge", "flush", "index"}
      BY <3>1 DEF HandInv, TypeOK, Stages
    <3>. QED BY <3>2, <3>3, <3>4
  <2>5. spoilt' = spoilt \ KeysIn(D)
    BY <1>6
  <2>6. topic' = [k \in Keys |-> IF k \in KeysIn(D) THEN p[k] ELSE topic[k]]
    BY <1>1, <2>1 DEF Populations
  <2>. HIDE DEF p
  <2>7. TU!Tell
    <3> DEFINE f == <<cur, p>>
    <3>1. f \in Offered /\ f[2] = p
      BY <2>3
    <3>. HIDE DEF f
    <3>. QED BY <1>2, <1>3, <2>4, <2>5, <2>6, <3>1 DEF TU!Tell
  <2>. QED BY <2>7 DEF TU!Next
<1>. QED BY <1>4, <1>5, <1>6

\* What the vendor delivers is on offer when it is sound and new.
LEMMA DropOffers ==
    ASSUME IInv, NEW n \in Names, NEW x \in Extracts, Drop(n, x) PROVE [TU!Next]_(TU!vars)
<1>1. /\ ~Usable(landing[n]) /\ landing' = [landing EXCEPT ![n] = x]
      /\ UNCHANGED <<ledger, index, topic, spoilt>>
  BY DEF Drop, Usable, Whole, None
<1>2. landing'[n] = x /\ \A m \in Names : m # n => landing'[m] = landing[m]
  BY <1>1 DEF IInv, TypeOK
<1>3. n \notin Offerable /\ \A m : m # n => (m \in Offerable' <=> m \in Offerable)
  BY <1>1, <1>2 DEF Offerable, Batch
<1>4. CASE n \in Offerable'
  <2> DEFINE f == <<n, Population(x)>>
  <2>1. Offerable' = Offerable \cup {n}
    BY <1>3, <1>4
  <2>2. \A m \in Offerable : m \in Names /\ Population(landing'[m]) = Population(landing[m])
    BY <1>2, <1>3 DEF Offerable
  <2>3. Population(landing'[n]) = Population(x)
    BY <1>2
  <2>4. Offered' = Offered \cup {f}
    BY <2>1, <2>2, <2>3 DEF Offered
  <2>5. \A g \in Offered : g[1] # n
    <3>1. SUFFICES ASSUME NEW g \in Offered PROVE g[1] # n
      OBVIOUS
    <3>2. PICK m \in Offerable : g = <<m, Population(landing[m])>>
      BY <3>1 DEF Offered
    <3>3. m # n
      BY <1>3
    <3>. QED BY <3>2, <3>3
  <2>6. Population(x) \in TU!Populations
    BY PopulationType DEF Populations, TU!Populations
  <2>7. TU!Offer
    <3> DEFINE p == Population(x)
    <3>1. /\ n \in Names /\ p \in TU!Populations
          /\ \A g \in Offered : g[1] # n
          /\ Offered' = Offered \cup {<<n, p>>}
      BY <2>4, <2>5, <2>6
    <3>2. UNCHANGED <<index, topic, spoilt>>
      BY <1>1
    <3>. HIDE DEF p
    <3>. QED BY <3>1, <3>2 DEF TU!Offer
  <2>. QED BY <2>7 DEF TU!Next
<1>5. CASE n \notin Offerable'
  <2>1. \A m : m \in Offerable' <=> m \in Offerable
    BY <1>3, <1>5
  <2>2. Offerable' = Offerable
    BY <2>1, Zenon
  <2>3. \A m \in Offerable : Population(landing'[m]) = Population(landing[m])
    BY <1>2, <1>3 DEF Offerable
  <2>4. Offered' = Offered
    BY <2>2, <2>3 DEF Offered
  <2>. QED BY <1>1, <2>4 DEF TU!vars
<1>. QED BY <1>4, <1>5

\* The index becomes the file in hand, which the topic has been told.
LEMMA WriteAdopts ==
    ASSUME IInv, WriteIndex PROVE TU!Next
<1>. USE DEF IInv
<1> DEFINE f == <<cur, newIndex>>
<1>1. pc = "index" /\ index' = newIndex /\ UNCHANGED <<landing, ledger, topic, spoilt>>
  BY DEF WriteIndex
<1>2. f \in Offered
  <2>1. cur \in Names /\ Usable(landing[cur]) /\ Batch(cur) \notin ledger
        /\ newIndex = Population(landing[cur])
    BY <1>1 DEF HandInv, OverInv, Usable
  <2>. QED BY <2>1, OfferedFacts
<1>3. ASSUME NEW k \in Keys, newIndex[k] # index[k] PROVE newIndex[k] = topic[k]
  <2>1. <<k, newIndex[k]>> \in deltas
    BY <1>1, <1>3 DEF OverInv
  <2>. QED BY <1>1, <2>1 DEF OverInv
<1>4. Offered' = Offered
  BY <1>1, OfferStays
<1>5. f[2] = newIndex
  OBVIOUS
<1>. HIDE DEF f
<1>. QED BY <1>1, <1>2, <1>3, <1>4, <1>5 DEF TU!Next, TU!Adopt

\* A file recorded is no more on offer, and the index is that file.
LEMMA RecordRetires ==
    ASSUME IInv, RecordBatch PROVE TU!Next
<1>. USE DEF IInv
<1> DEFINE f == <<cur, Population(landing[cur])>>
<1>1. /\ pc = "record" /\ ledger' = ledger \cup {Batch(cur)}
      /\ UNCHANGED <<landing, index, topic, spoilt>>
  BY DEF RecordBatch
<1>2. cur \in Names /\ Usable(landing[cur]) /\ index = Population(landing[cur])
  BY <1>1 DEF HandInv, OverInv, Usable
<1>3. f \in Offered /\ f[1] = cur /\ f[2] = index
  BY <1>1, <1>2, OfferedFacts DEF HandInv
<1>4. ASSUME NEW n \in Names
      PROVE  Batch(n)' = Batch(n) /\ (Batch(n) \in ledger' <=> Batch(n) \in ledger \/ n = cur)
  BY <1>1 DEF Batch
<1>5. Offered' = Offered \ {f}
  BY <1>1, <1>2, <1>4 DEF Offered, Offerable, HandInv
<1>. HIDE DEF f
<1>. QED BY <1>1, <1>3, <1>5 DEF TU!Next, TU!Retire

\* What is archived was recorded, and is on offer no more than an empty place.
LEMMA ArchiveStutters ==
    ASSUME IInv, Archive PROVE UNCHANGED TU!vars
<1>1. /\ landing' = [landing EXCEPT ![cur] = None] /\ Batch(cur) \in ledger
      /\ UNCHANGED <<ledger, index, topic, spoilt>>
  BY DEF Archive, IInv, HandInv
<1>2. ASSUME NEW n \in Names, n # cur PROVE landing'[n] = landing[n]
  BY <1>1, <1>2 DEF IInv, TypeOK
<1>3. ~Usable(None)
  BY DEF Usable, Whole, None
<1>4. cur \in Names => landing'[cur] = None
  BY <1>1 DEF IInv, TypeOK
<1>5. Offerable' = Offerable /\ cur \notin Offerable
  BY <1>1, <1>2, <1>3, <1>4 DEF Offerable, Batch
<1>6. \A n \in Offerable : Population(landing'[n]) = Population(landing[n])
  BY <1>2, <1>5 DEF Offerable
<1>7. Offered' = Offered
  BY <1>5, <1>6 DEF Offered
<1>. QED BY <1>1, <1>7 DEF TU!vars

LEMMA RefinementStep ==
    ASSUME IInv, [Next]_vars PROVE [TU!Next]_(TU!vars)
<1>1. ASSUME NEW n \in Names, NEW x \in Extracts, Drop(n, x) PROVE [TU!Next]_(TU!vars)
  BY <1>1, DropOffers
<1>2. CASE Abort
  BY <1>2, DeliverStep DEF Abort
<1>3. CASE Flush
  <2>1. /\ pc = "flush" /\ topic' = After(deltas) /\ spoilt' = spoilt \ KeysIn(deltas)
        /\ UNCHANGED <<landing, ledger, index>>
    BY <1>3 DEF Flush
  <2>2. Sorted(landing[cur])
    BY <2>1 DEF IInv, OverInv
  <2>. QED BY <2>1, <2>2, DeliverStep
<1>4. CASE WriteIndex
  BY <1>4, WriteAdopts
<1>5. CASE RecordBatch
  BY <1>5, RecordRetires
<1>6. CASE Archive
  BY <1>6, ArchiveStutters
<1>7. CASE UNCHANGED <<landing, ledger, index, topic, spoilt>>
  BY <1>7, OfferStays DEF TU!vars
<1>. QED
  BY <1>1, <1>2, <1>3, <1>4, <1>5, <1>6, <1>7
     DEF Next, Step, Run, RunEnds, Take, Refuse, MergeRemoved, MergeAdded, MergeBoth, Merging,
         MergeRaises, MergeEnds, FlushFails, Crash, vars

(***************************************************************************)
(* The adapter implements the contract: whatever fails, dies or comes out  *)
(* of its order, the topic is told a difference of a sound file that is    *)
(* still to be recorded, the index becomes a file only when the topic says *)
(* all that it changes, and a file is recorded only when it is the index.  *)
(***************************************************************************)
THEOREM Refinement == Spec => ImplementsTrueUp
<1>1. Init => TU!Init
  <2>. SUFFICES ASSUME Init PROVE TU!Init
    OBVIOUS
  <2>1. \A n \in Names : ~Usable(landing[n])
    BY DEF Init, Usable, Whole, None
  <2>2. Offered = {}
    BY <2>1 DEF Offered, Offerable
  <2>. QED BY <2>2 DEF Init, TU!Init, Empty
<1>2. IInv /\ [Next]_vars => [TU!Next]_(TU!vars)
  BY RefinementStep
<1>. QED BY <1>1, <1>2, Invariance, PTL DEF Spec, ImplementsTrueUp, TU!Spec

(***************************************************************************)
(* The contract is enough: of a key that no unusable file had last, the    *)
(* topic says what the index says, unless a file on offer says it, however *)
(* the files are told, adopted and retired.                                *)
(***************************************************************************)
THEOREM ContractSuffices == ImplementsTrueUp => []TU!Accounted
<1>1. TU!Init => TU!Accounted
  BY DEF TU!Init, TU!Accounted
<1>2. TU!Accounted /\ [TU!Next]_(TU!vars) => TU!Accounted'
  <2>. SUFFICES ASSUME TU!Accounted, [TU!Next]_(TU!vars), NEW k \in Keys \ spoilt'
                PROVE  topic'[k] = index'[k] \/ \E f \in Offered' : topic'[k] = f[2][k]
    BY DEF TU!Accounted
  <2>1. CASE TU!Offer
    <3>1. Offered \subseteq Offered' /\ UNCHANGED <<index, topic, spoilt>>
      BY <2>1 DEF TU!Offer
    <3>. QED BY <3>1 DEF TU!Accounted
  <2>2. CASE TU!Tell
    <3>1. PICK f \in Offered, K \in SUBSET Keys :
              /\ topic' = [j \in Keys |-> IF j \in K THEN f[2][j] ELSE topic[j]]
              /\ spoilt' = spoilt \ K
      BY <2>2 DEF TU!Tell
    <3>2. Offered' = Offered /\ index' = index
      BY <2>2 DEF TU!Tell
    <3>3. CASE k \in K
      BY <3>1, <3>2, <3>3
    <3>4. CASE k \notin K
      BY <3>1, <3>2, <3>4 DEF TU!Accounted
    <3>. QED BY <3>3, <3>4
  <2>3. CASE TU!Spoil
    <3>1. PICK K \in SUBSET Keys : /\ \A j \in Keys \ K : topic'[j] = topic[j]
                                  /\ spoilt' = spoilt \cup K
      BY <2>3 DEF TU!Spoil
    <3>2. Offered' = Offered /\ index' = index
      BY <2>3 DEF TU!Spoil
    <3>. QED BY <3>1, <3>2 DEF TU!Accounted
  <2>4. CASE TU!Adopt
    <3>1. PICK f \in Offered : /\ \A j \in Keys : f[2][j] # index[j] => f[2][j] = topic[j]
                               /\ index' = f[2]
      BY <2>4 DEF TU!Adopt
    <3>2. Offered' = Offered /\ UNCHANGED <<topic, spoilt>>
      BY <2>4 DEF TU!Adopt
    <3>. QED BY <3>1, <3>2 DEF TU!Accounted
  <2>5. CASE TU!Retire
    <3>1. PICK f \in Offered : f[2] = index /\ Offered' = Offered \ {f}
      BY <2>5 DEF TU!Retire
    <3>2. UNCHANGED <<index, topic, spoilt>>
      BY <2>5 DEF TU!Retire
    <3>. QED BY <3>1, <3>2 DEF TU!Accounted
  <2>6. CASE UNCHANGED TU!vars
    BY <2>6 DEF TU!vars, TU!Accounted
  <2>. QED BY <2>1, <2>2, <2>3, <2>4, <2>5, <2>6 DEF TU!Next
<1>. QED BY <1>1, <1>2, PTL DEF ImplementsTrueUp, TU!Spec
=============================================================================
