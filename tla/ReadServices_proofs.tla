------------------------- MODULE ReadServices_proofs -------------------------
(***************************************************************************)
(* Proofs about the read side.                                             *)
(*                                                                         *)
(* KeysetPagination: for every set of lists, every sort of any number of   *)
(* fields, every filter and every number of writes, a walk is given rows   *)
(* in one strict order, and one that has ended has been given all that was *)
(* there throughout.                                                       *)
(*                                                                         *)
(* ReleaseChecks: for every set of feeds and collections, all ages, and    *)
(* any number of faults, a PASS is earned.                                 *)
(***************************************************************************)
EXTENDS DayLists, ReleaseChecks, WellFoundedInduction, TLAPS

-----------------------------------------------------------------------------
(* The order of a list. *)

\* A full sort is a sequence of fields that ends with _id, and a key has an
\* integer of the field's type at each of its places.
LEMMA SortFacts ==
    ASSUME NEW l \in Lists
    PROVE  /\ FullSort(l) \in Sorts
           /\ DOMAIN FullSort(l) = 1..(Len(Query[l].sort) + 1)
           /\ Len(Query[l].sort) \in Nat
           /\ Len(FullSort(l)) = Len(Query[l].sort) + 1
           /\ FullSort(l)[Len(Query[l].sort) + 1] = [field |-> "_id", direction |-> 1]
           /\ \A i \in DOMAIN FullSort(l) :
                 /\ FullSort(l)[i].field \in Fields
                 /\ FullSort(l)[i].direction \in {1, -1}
<1> DEFINE Term == [field : Fields, direction : Directions]
<1>1. Query[l].sort \in Seq(Term)
  BY PaginationAssumption DEF Sorts
<1>2. [field |-> "_id", direction |-> 1] \in Term
  BY PaginationAssumption DEF Directions
<1> HIDE DEF Term
<1>3. /\ FullSort(l) \in Seq(Term)
      /\ DOMAIN FullSort(l) = 1..(Len(Query[l].sort) + 1)
      /\ Len(Query[l].sort) \in Nat
      /\ Len(FullSort(l)) = Len(Query[l].sort) + 1
      /\ FullSort(l)[Len(Query[l].sort) + 1] = [field |-> "_id", direction |-> 1]
  BY <1>1, <1>2 DEF FullSort
<1>4. \A i \in DOMAIN FullSort(l) : FullSort(l)[i] \in Term
  BY <1>3
<1>5. QED
  BY <1>3, <1>4 DEF Term, Sorts, Directions

\* Every key of a row has the value of the field at each place.
LEMMA KeyFacts ==
    ASSUME NEW l \in Lists, NEW r \in Rows, NEW i \in DOMAIN FullSort(l)
    PROVE  /\ KeyOf(l, r)[i].type = TypeOf[FullSort(l)[i].field]
           /\ KeyOf(l, r)[i].value = Value[r][FullSort(l)[i].field]
           /\ KeyOf(l, r)[i].value \in Int
           /\ KeyOf(l, r)[i] = [type |-> TypeOf[FullSort(l)[i].field],
                                value |-> Value[r][FullSort(l)[i].field]]
<1>1. FullSort(l)[i].field \in Fields
  BY SortFacts
<1>2. Value[r][FullSort(l)[i].field] \in Int
  BY <1>1, PaginationAssumption
<1>3. QED
  BY <1>2 DEF KeyOf, Tagged

\* What "before" means, at the first place where two keys differ.
LEMMA PrecedesDef ==
    ASSUME NEW l \in Lists, NEW q \in Rows, NEW r \in Rows
    PROVE  Precedes(l, q, r) <=>
           \E i \in DOMAIN FullSort(l) :
              /\ \A j \in DOMAIN FullSort(l) : j < i => KeyOf(l, q)[j] = KeyOf(l, r)[j]
              /\ Beyond(FullSort(l)[i].direction, KeyOf(l, r)[i], KeyOf(l, q)[i])
  BY DEF Precedes, Order, Earlier

\* The range predicate selects exactly the rows after the cursor's row: the
\* $or of seek_predicate and the sort of the query agree.
LEMMA SeekIsAfter ==
    ASSUME NEW l \in Lists, NEW q \in Rows, NEW r \in Rows
    PROVE  SeekPredicate(l, r, KeyOf(l, q)) <=> Precedes(l, q, r)
<1>1. SeekPredicate(l, r, KeyOf(l, q)) <=>
        \E i \in DOMAIN FullSort(l) :
          /\ \A j \in DOMAIN FullSort(l) : j < i => KeyOf(l, r)[j] = KeyOf(l, q)[j]
          /\ Beyond(FullSort(l)[i].direction, KeyOf(l, r)[i], KeyOf(l, q)[i])
  BY DEF SeekPredicate
<1>2. QED
  BY <1>1, PrecedesDef

\* One place of the key: beyond is strict and passes on.
LEMMA BeyondFacts ==
    ASSUME NEW l \in Lists, NEW i \in DOMAIN FullSort(l),
           NEW p \in Rows, NEW q \in Rows, NEW r \in Rows
    PROVE  LET Past(x, y) == Beyond(FullSort(l)[i].direction, KeyOf(l, x)[i], KeyOf(l, y)[i])
           IN  /\ ~ Past(p, p)
               /\ Past(p, q) /\ Past(q, r) => Past(p, r)
               /\ KeyOf(l, p)[i] # KeyOf(l, q)[i] => Past(p, q) \/ Past(q, p)
<1>1. FullSort(l)[i].direction \in {1, -1}
  BY SortFacts
<1>2. /\ KeyOf(l, p)[i].value \in Int /\ KeyOf(l, q)[i].value \in Int /\ KeyOf(l, r)[i].value \in Int
      /\ KeyOf(l, p)[i].type = KeyOf(l, q)[i].type
      /\ KeyOf(l, q)[i].type = KeyOf(l, r)[i].type
      /\ KeyOf(l, p)[i].value = KeyOf(l, q)[i].value => KeyOf(l, p)[i] = KeyOf(l, q)[i]
  <2> DEFINE t == TypeOf[FullSort(l)[i].field]
             v(x) == Value[x][FullSort(l)[i].field]
  <2>1. /\ KeyOf(l, p)[i] = [type |-> t, value |-> v(p)] /\ v(p) \in Int
        /\ KeyOf(l, q)[i] = [type |-> t, value |-> v(q)] /\ v(q) \in Int
        /\ KeyOf(l, r)[i] = [type |-> t, value |-> v(r)] /\ v(r) \in Int
    BY KeyFacts
  <2> HIDE DEF t, v
  <2>2. QED
    BY <2>1
<1> DEFINE d == FullSort(l)[i].direction
           a == KeyOf(l, p)[i]
           b == KeyOf(l, q)[i]
           c == KeyOf(l, r)[i]
<1>3. /\ d \in {1, -1}
      /\ a.value \in Int /\ b.value \in Int /\ c.value \in Int
      /\ a.type = b.type /\ b.type = c.type
      /\ a.value = b.value => a = b
  BY <1>1, <1>2
<1> HIDE DEF a, b, c, d
<1>4. /\ ~ Beyond(d, a, a)
      /\ Beyond(d, a, b) /\ Beyond(d, b, c) => Beyond(d, a, c)
      /\ a # b => Beyond(d, a, b) \/ Beyond(d, b, a)
  BY <1>3 DEF Beyond, Greater
<1>5. QED
  BY <1>4 DEF a, b, c, d

\* No row is before itself.
LEMMA Irreflexive ==
    ASSUME NEW l \in Lists, NEW r \in Rows
    PROVE  ~ Precedes(l, r, r)
  BY PrecedesDef, BeyondFacts

LEMMA Transitive ==
    ASSUME NEW l \in Lists, NEW p \in Rows, NEW q \in Rows, NEW r \in Rows,
           Precedes(l, p, q), Precedes(l, q, r)
    PROVE  Precedes(l, p, r)
<1> DEFINE D == DOMAIN FullSort(l)
           Same(x, y, i) == KeyOf(l, x)[i] = KeyOf(l, y)[i]
           Past(x, y, i) == Beyond(FullSort(l)[i].direction, KeyOf(l, x)[i], KeyOf(l, y)[i])
<1>1. D \subseteq Nat
  BY SortFacts
<1>2. PICK a \in D : (\A j \in D : j < a => Same(p, q, j)) /\ Past(q, p, a)
  BY PrecedesDef
<1>3. PICK b \in D : (\A j \in D : j < b => Same(q, r, j)) /\ Past(r, q, b)
  BY PrecedesDef
<1>4. \A i \in D : Past(q, p, i) /\ Same(q, r, i) => Past(r, p, i)
  OBVIOUS
<1>5. \A i \in D : Same(p, q, i) /\ Past(r, q, i) => Past(r, p, i)
  OBVIOUS
<1>6. \A i \in D : Past(r, q, i) /\ Past(q, p, i) => Past(r, p, i)
  BY BeyondFacts
<1>7. \A i, j, k \in Nat : j < i /\ i < k => j < k
  OBVIOUS
<1> HIDE DEF D, Past
<1>8. CASE a < b
  <2>1. (\A j \in D : j < a => Same(p, r, j)) /\ Past(r, p, a)
    BY <1>1, <1>2, <1>3, <1>4, <1>7, <1>8
  <2>2. QED
    BY <2>1, PrecedesDef DEF D, Past
<1>9. CASE b < a
  <2>1. (\A j \in D : j < b => Same(p, r, j)) /\ Past(r, p, b)
    BY <1>1, <1>2, <1>3, <1>5, <1>7, <1>9
  <2>2. QED
    BY <2>1, PrecedesDef DEF D, Past
<1>10. CASE a = b
  <2>1. (\A j \in D : j < a => Same(p, r, j)) /\ Past(r, p, a)
    BY <1>2, <1>3, <1>6, <1>10
  <2>2. QED
    BY <2>1, PrecedesDef DEF D, Past
<1>11. QED
  BY <1>1, <1>8, <1>9, <1>10

\* A nonempty set of numbers has a least one.
LEMMA Least ==
    ASSUME NEW T, T \subseteq Nat, T # {}
    PROVE  \E x \in T : \A y \in T : ~ (y < x)
<1> DEFINE R == OpToRel(<, Nat)
<1>1. IsWellFoundedOn(R, Nat)
  BY NatLessThanWellFounded
<1>2. \A x, y \in Nat : y < x => <<y, x>> \in R
  BY DEF OpToRel
<1> HIDE DEF R
<1>3. PICK x \in T : \A y \in T : <<y, x>> \notin R
  BY <1>1, WFMin
<1>4. QED
  BY <1>2, <1>3

\* The tie-breaker makes the order total.
LEMMA Total ==
    ASSUME NEW l \in Lists, NEW q \in Rows, NEW r \in Rows, q # r
    PROVE  Precedes(l, q, r) \/ Precedes(l, r, q)
<1> DEFINE Apart == {i \in DOMAIN FullSort(l) : KeyOf(l, q)[i] # KeyOf(l, r)[i]}
           tail == Len(Query[l].sort) + 1
<1>1. tail \in DOMAIN FullSort(l) /\ FullSort(l)[tail].field = "_id"
  BY SortFacts
<1>2. Value[q]["_id"] # Value[r]["_id"]
  BY PaginationAssumption
<1>3. tail \in Apart
  <2>1. KeyOf(l, q)[tail].value = Value[q]["_id"] /\ KeyOf(l, r)[tail].value = Value[r]["_id"]
    <3>1. /\ KeyOf(l, q)[tail].value = Value[q][FullSort(l)[tail].field]
          /\ KeyOf(l, r)[tail].value = Value[r][FullSort(l)[tail].field]
      BY <1>1, KeyFacts, Zenon
    <3> QED
      BY <1>1, <3>1, Zenon
  <2>2. KeyOf(l, q)[tail] # KeyOf(l, r)[tail]
    BY <1>2, <2>1
  <2>3. QED
    BY <1>1, <2>2
<1>4. Apart \subseteq Nat
  BY SortFacts
<1>5. PICK i \in Apart : \A j \in Apart : ~ (j < i)
  BY <1>3, <1>4, Least
<1>6. /\ i \in DOMAIN FullSort(l)
      /\ KeyOf(l, q)[i] # KeyOf(l, r)[i]
      /\ \A j \in DOMAIN FullSort(l) : j < i => KeyOf(l, q)[j] = KeyOf(l, r)[j]
  BY <1>5
<1>7. \/ Beyond(FullSort(l)[i].direction, KeyOf(l, q)[i], KeyOf(l, r)[i])
      \/ Beyond(FullSort(l)[i].direction, KeyOf(l, r)[i], KeyOf(l, q)[i])
  BY <1>6, BeyondFacts
<1>8. QED
  BY <1>6, <1>7, PrecedesDef

\* A cursor decodes for its own list only.
LEMMA OwnCursor ==
    ASSUME NEW l \in Lists, NEW m \in Lists, NEW r \in Rows,
           Decodes(l, EncodeCursor(m, r))
    PROVE  l = m
<1>1. /\ Query[l].collection = Query[m].collection
      /\ FullSort(l) = FullSort(m)
  BY DEF Decodes, EncodeCursor, Fingerprint
<1>2. Query[l].sort \in Sorts /\ Query[m].sort \in Sorts
  BY PaginationAssumption
<1>3. Query[l].sort = Query[m].sort
  <2>1. Len(Query[l].sort) = Len(Query[m].sort)
    BY <1>1, SortFacts
  <2>2. \A i \in 1..Len(Query[l].sort) : Query[l].sort[i] = FullSort(l)[i]
    BY <1>2 DEF FullSort, Sorts
  <2>3. \A i \in 1..Len(Query[m].sort) : Query[m].sort[i] = FullSort(m)[i]
    BY <1>2 DEF FullSort, Sorts
  <2>4. QED
    BY <1>1, <1>2, <2>1, <2>2, <2>3 DEF Sorts
<1>4. QED
  BY <1>1, <1>3, PaginationAssumption

-----------------------------------------------------------------------------
(* What a page holds. *)

\* The last row a walk has been given.
LastOf(s) == s[Len(s)]

\* The documents found are candidates, in the strict order of the list, and a
\* candidate that was left out comes after all of them.
LEMMA FoundFacts ==
    ASSUME NEW l \in Lists, NEW C, C \subseteq Rows, NEW size \in Nat,
           NEW docs \in Found(l, C, size)
    PROVE  /\ docs \in Seq(C)
           /\ Len(docs) \in Nat /\ Len(docs) <= size
           /\ \A i, j \in 1..Len(docs) : i < j => Precedes(l, docs[i], docs[j])
           /\ \A q \in C \ Range(docs) : \A i \in 1..Len(docs) : Precedes(l, docs[i], q)
           /\ Len(docs) < size => C = Range(docs)
<1>1. PICK n \in 0..size : docs \in [1..n -> C]
  BY DEF Found
<1>2. docs \in Seq(C) /\ Len(docs) = n /\ DOMAIN docs = 1..n
  BY <1>1
<1>3. /\ Len(docs) = size \/ C = Range(docs)
      /\ \A i, j \in DOMAIN docs : i < j => docs[i] # docs[j] /\ ~ Precedes(l, docs[j], docs[i])
      /\ \A q \in C \ Range(docs), i \in DOMAIN docs : ~ Precedes(l, q, docs[i])
  BY DEF Found
<1>4. \A i \in 1..n : docs[i] \in Rows /\ docs[i] \in Range(docs)
  BY <1>1, <1>2 DEF Range
<1>5. \A i, j \in 1..n : i < j => Precedes(l, docs[i], docs[j])
  BY <1>2, <1>3, <1>4, Total
<1>6. \A q \in C \ Range(docs) : \A i \in 1..n : Precedes(l, docs[i], q)
  BY <1>2, <1>3, <1>4, Total
<1>7. QED
  BY <1>1, <1>2, <1>3, <1>5, <1>6

-----------------------------------------------------------------------------
(* The invariant. *)

\* The cursor of a walk is the key of the last row it was given, a walk that
\* has none has not begun or has ended, and a row that was there throughout
\* has been given or comes after the last.
Walk(l) ==
    /\ returned[l] \in Seq(Rows)
    /\ \A i, j \in 1..Len(returned[l]) :
          i < j => Precedes(l, returned[l][i], returned[l][j])
    /\ cursor[l] # Null =>
          /\ l \notin finished
          /\ returned[l] # <<>>
          /\ cursor[l] = EncodeCursor(l, LastOf(returned[l]))
          /\ \A r \in steady[l] : Matches(l, r) =>
                r \in Range(returned[l]) \/ Precedes(l, LastOf(returned[l]), r)
    /\ cursor[l] = Null /\ l \notin finished => returned[l] = <<>>
    /\ l \in finished =>
          \A r \in steady[l] : Matches(l, r) => r \in Range(returned[l])

State ==
    /\ status \in [Rows -> Statuses \cup {Absent}]
    /\ walks \in Clients
    /\ cursor \in [Lists -> Cursors \cup {Null}]
    /\ finished \subseteq Lists
    /\ returned \in [Lists -> Seq(Rows)]
    /\ steady \in [Lists -> SUBSET Rows]
    /\ writes \in 0..MaxWrites

IInv == State /\ \A l \in Lists : Walk(l)

LEMMA InitIInv == Init => IInv
<1> SUFFICES ASSUME Init PROVE IInv
  OBVIOUS
<1>1. State
  BY PaginationAssumption DEF Init, State, Watched
<1>2. ASSUME NEW l \in Lists PROVE Walk(l)
  BY DEF Init, Walk
<1>3. QED
  BY <1>1, <1>2 DEF IInv

\* A write changes what a filter matches for the row written only.
LEMMA WriteStep ==
    ASSUME IInv, NEW r \in Watched, NEW s \in Statuses, Write(r, s)
    PROVE  IInv'
<1>1. r \in Rows
  BY DEF Watched
<1>2. State'
  BY <1>1, PaginationAssumption DEF IInv, State, Write
<1>3. ASSUME NEW l \in Lists PROVE Walk(l)'
  <2>1. /\ steady'[l] = steady[l] \ {r}
        /\ \A q \in Rows : q # r => status'[q] = status[q]
        /\ steady[l] \subseteq Rows
    BY <1>1 DEF Write, IInv, State
  <2>2. \A q \in steady'[l] : q \in steady[l] /\ (Matches(l, q)' <=> Matches(l, q))
    BY <2>1 DEF Matches
  <2>3. returned' = returned /\ cursor' = cursor /\ finished' = finished
    BY DEF Write
  <2>4. QED
    BY <2>2, <2>3 DEF IInv, Walk
<1>4. QED
  BY <1>2, <1>3 DEF IInv

\* A page goes on where the walk was.
LEMMA PageStep ==
    ASSUME IInv, NEW l \in walks, NEW m \in walks, NEW limit \in Limits,
           Page(l, m, limit)
    PROVE  IInv'
<1> DEFINE n == ClampLimit(limit)
           C == Candidates(l, cursor[m])
           old == returned[l]
<1>1. l \in Lists /\ m \in Lists
  BY PaginationAssumption DEF IInv, State
<1>2. n \in Nat \ {0}
  BY PaginationAssumption DEF ClampLimit
<1>3. l = m
  <2>1. CASE l # m
    <3>1. cursor[m] # Null /\ Decodes(l, cursor[m])
      BY <2>1 DEF Page
    <3>2. cursor[m] = EncodeCursor(m, LastOf(returned[m])) /\ LastOf(returned[m]) \in Rows
      BY <1>1, <3>1 DEF IInv, Walk, LastOf
    <3>3. QED
      BY <1>1, <3>1, <3>2, OwnCursor
  <2>2. QED
    BY <2>1
<1>4. Walk(l) /\ l \notin finished
  BY <1>1 DEF IInv, Page
<1>5. old \in Seq(Rows)
  BY <1>4 DEF Walk
<1>6. PICK docs \in Found(l, C, n + 1) :
        LET more == Len(docs) > n
            page == IF more THEN SubSeq(docs, 1, n) ELSE docs
        IN  /\ returned' = [returned EXCEPT ![l] = @ \o page]
            /\ cursor' = [cursor EXCEPT ![l] =
                   IF more THEN EncodeCursor(l, page[Len(page)]) ELSE Null]
            /\ finished' = IF more THEN finished ELSE finished \cup {l}
  BY DEF Page, FetchSize
<1> DEFINE more == Len(docs) > n
           page == IF more THEN SubSeq(docs, 1, n) ELSE docs
<1>7. C \subseteq Rows
  BY DEF Candidates
<1>8. /\ docs \in Seq(C)
      /\ Len(docs) \in Nat /\ Len(docs) <= n + 1
      /\ \A i, j \in 1..Len(docs) : i < j => Precedes(l, docs[i], docs[j])
      /\ \A q \in C \ Range(docs) : \A i \in 1..Len(docs) : Precedes(l, docs[i], q)
      /\ Len(docs) < n + 1 => C = Range(docs)
  BY <1>1, <1>2, <1>7, FoundFacts
<1>9. /\ page \in Seq(C) /\ page \in Seq(Rows) /\ Len(page) \in Nat
      /\ Len(page) <= Len(docs)
      /\ \A i \in 1..Len(page) : page[i] = docs[i] /\ page[i] \in C
      /\ more => Len(page) = n
      /\ ~ more => page = docs
      /\ DOMAIN page = 1..Len(page) /\ 1..Len(page) \subseteq 1..Len(docs)
  <2> HIDE DEF n, C
  <2>1. CASE more
    <3>1. /\ page = SubSeq(docs, 1, n) /\ n <= Len(docs)
      BY <1>2, <1>8, <2>1
    <3>2. page \in Seq(C) /\ Len(page) = n /\ \A i \in 1..n : page[i] = docs[i]
      BY <1>2, <1>8, <3>1
    <3>3. QED
      BY <1>2, <1>7, <1>8, <2>1, <3>1, <3>2
  <2>2. CASE ~ more
    BY <1>2, <1>7, <1>8, <2>2
  <2>3. QED
    BY <2>1, <2>2
<1> HIDE DEF n, C, page, old
<1>10. status' = status /\ walks' = walks /\ steady' = steady /\ writes' = writes
  BY DEF Page
<1>11. /\ DOMAIN cursor = Lists /\ DOMAIN returned = Lists
  BY DEF IInv, State
<1>12. /\ returned'[l] = old \o page
       /\ cursor'[l] = IF more THEN EncodeCursor(l, page[Len(page)]) ELSE Null
       /\ l \in finished' <=> ~ more
  BY <1>1, <1>4, <1>6, <1>11 DEF page, old
<1>13. State'
  <2>1. returned' \in [Lists -> Seq(Rows)]
    <3>1. returned' = [returned EXCEPT ![l] = old \o page]
      BY <1>6 DEF old, page
    <3>2. old \o page \in Seq(Rows)
      BY <1>5, <1>9
    <3>3. QED
      BY <3>1, <3>2 DEF IInv, State
  <2>2. cursor' \in [Lists -> Cursors \cup {Null}]
    <3>1. more => page[Len(page)] \in Rows
      BY <1>2, <1>9
    <3>2. \A r \in Rows : EncodeCursor(l, r) \in Cursors
      <4> SUFFICES ASSUME NEW r \in Rows PROVE EncodeCursor(l, r) \in Cursors
        OBVIOUS
      <4>1. <<l, r>> \in Lists \X Rows
        BY <1>1
      <4>2. EncodeCursor(<<l, r>>[1], <<l, r>>[2]) \in Cursors
        BY <4>1 DEF Cursors
      <4>3. QED
        BY <4>2
    <3>3. cursor' = [cursor EXCEPT ![l] =
             IF more THEN EncodeCursor(l, page[Len(page)]) ELSE Null]
      BY <1>6 DEF page
    <3>4. QED
      BY <3>1, <3>2, <3>3 DEF IInv, State
  <2>3. finished' \subseteq Lists
    BY <1>1, <1>6 DEF IInv, State
  <2>4. QED
    BY <1>10, <2>1, <2>2, <2>3 DEF IInv, State
<1>14. ASSUME NEW k \in Lists, k # l PROVE Walk(k)'
  <2>1. /\ returned'[k] = returned[k] /\ cursor'[k] = cursor[k]
        /\ k \in finished' <=> k \in finished
    BY <1>6, <1>11, <1>14
  <2>2. \A r \in Rows : Matches(k, r)' <=> Matches(k, r)
    BY <1>10 DEF Matches
  <2>3. Walk(k) /\ steady[k] \subseteq Rows
    BY DEF IInv, State
  <2>4. QED
    BY <1>10, <2>1, <2>2, <2>3 DEF Walk
\* Every candidate comes after what the walk has been given.
<1>15. \A q \in C, i \in 1..Len(old) : Precedes(l, old[i], q)
  <2>1. CASE old = <<>>
    BY <2>1
  <2>2. CASE old # <<>>
    <3>1. /\ cursor[l] # Null
          /\ cursor[l] = EncodeCursor(l, LastOf(old))
      BY <1>4, <2>2 DEF Walk, old
    <3>2. LastOf(old) \in Rows /\ \A i \in 1..Len(old) : old[i] \in Rows
      BY <1>5, <2>2 DEF LastOf
    <3>3. \A q \in C : q \in Rows /\ Precedes(l, LastOf(old), q)
      <4>1. \A q \in C : q \in Rows /\ SeekPredicate(l, q, KeyOf(l, LastOf(old)))
        BY <1>3, <3>1 DEF C, Candidates, EncodeCursor
      <4>2. QED
        BY <1>1, <3>2, <4>1, SeekIsAfter
    <3>4. \A i \in 1..Len(old) : i = Len(old) \/ Precedes(l, old[i], LastOf(old))
      BY <1>4, <1>5, <2>2 DEF Walk, LastOf, old
    <3>5. QED
      BY <1>1, <3>2, <3>3, <3>4, Transitive DEF LastOf
  <2>3. QED
    BY <2>1, <2>2
<1>16. old \o page \in Seq(Rows)
  BY <1>5, <1>9
<1>17. \A i, j \in 1..Len(old \o page) :
         i < j => Precedes(l, (old \o page)[i], (old \o page)[j])
  <2> SUFFICES ASSUME NEW i \in 1..Len(old \o page), NEW j \in 1..Len(old \o page), i < j
               PROVE  Precedes(l, (old \o page)[i], (old \o page)[j])
    OBVIOUS
  <2>1. CASE j <= Len(old)
    <3>1. i \in 1..Len(old) /\ j \in 1..Len(old)
      BY <1>5, <2>1
    <3>2. (old \o page)[i] = old[i] /\ (old \o page)[j] = old[j]
      BY <1>5, <1>9, <3>1
    <3>3. QED
      BY <1>4, <3>1, <3>2 DEF Walk, old
  <2>2. CASE i <= Len(old) /\ j > Len(old)
    <3>1. i \in 1..Len(old) /\ (j - Len(old)) \in 1..Len(page)
      BY <1>5, <1>9, <2>2
    <3>2. (old \o page)[i] = old[i] /\ (old \o page)[j] = page[j - Len(old)]
      BY <1>5, <1>9, <2>2, <3>1
    <3>3. QED
      BY <1>9, <1>15, <3>1, <3>2
  <2>3. CASE i > Len(old)
    <3>1. /\ (i - Len(old)) \in 1..Len(page) /\ (j - Len(old)) \in 1..Len(page)
          /\ i - Len(old) < j - Len(old)
      BY <1>5, <1>9, <2>3
    <3>2. (old \o page)[i] = page[i - Len(old)] /\ (old \o page)[j] = page[j - Len(old)]
      BY <1>5, <1>9, <2>3, <3>1
    <3>3. QED
      BY <1>8, <1>9, <3>1, <3>2
  <2>4. QED
    BY <1>5, <1>9, <2>1, <2>2, <2>3
<1>18. Range(old \o page) = Range(old) \cup Range(page)
  <2>1. Range(old \o page) \subseteq Range(old) \cup Range(page)
    <3> SUFFICES ASSUME NEW i \in 1..Len(old \o page)
                 PROVE  (old \o page)[i] \in Range(old) \cup Range(page)
      BY <1>16 DEF Range
    <3>1. CASE i <= Len(old)
      BY <1>5, <1>9, <3>1 DEF Range
    <3>2. CASE i > Len(old)
      <4>1. (i - Len(old)) \in 1..Len(page) /\ (old \o page)[i] = page[i - Len(old)]
        BY <1>5, <1>9, <3>2
      <4>2. QED
        BY <1>9, <4>1 DEF Range
    <3>3. QED
      BY <1>5, <3>1, <3>2
  <2>2. Range(old) \subseteq Range(old \o page)
    BY <1>5, <1>9 DEF Range
  <2>3. Range(page) \subseteq Range(old \o page)
    <3> SUFFICES ASSUME NEW i \in 1..Len(page) PROVE page[i] \in Range(old \o page)
      BY <1>9 DEF Range
    <3>1. (Len(old) + i) \in 1..Len(old \o page) /\ (old \o page)[Len(old) + i] = page[i]
      BY <1>5, <1>9
    <3>2. QED
      BY <1>16, <3>1 DEF Range
  <2>4. QED
    BY <2>1, <2>2, <2>3
\* A row that was there throughout was given, or is a candidate.
<1>19. \A r \in steady[l] : Matches(l, r) => r \in Range(old) \/ r \in C
  <2> SUFFICES ASSUME NEW r \in steady[l], Matches(l, r), r \notin Range(old)
               PROVE  r \in C
    OBVIOUS
  <2>1. r \in Rows
    BY <1>1 DEF IInv, State
  <2>2. CASE cursor[l] = Null
    BY <1>3, <2>1, <2>2 DEF C, Candidates
  <2>3. CASE cursor[l] # Null
    <3>1. /\ cursor[l] = EncodeCursor(l, LastOf(old)) /\ old # <<>>
          /\ Precedes(l, LastOf(old), r)
      BY <1>4, <2>3 DEF Walk, old
    <3>2. LastOf(old) \in Rows
      BY <1>5, <3>1 DEF LastOf
    <3>3. SeekPredicate(l, r, KeyOf(l, LastOf(old)))
      BY <1>1, <2>1, <3>1, <3>2, SeekIsAfter
    <3>4. QED
      BY <1>3, <2>1, <3>1, <3>3 DEF C, Candidates, EncodeCursor
  <2>4. QED
    BY <2>2, <2>3
\* A candidate that is not in a page followed by others comes after it.
<1>20. ASSUME more, NEW q \in C, q \notin Range(page)
       PROVE  Precedes(l, page[Len(page)], q)
  <2>1. Len(docs) = n + 1 /\ Len(page) = n /\ page[Len(page)] = docs[n]
    BY <1>2, <1>8, <1>9, <1>20
  <2>2. CASE q \notin Range(docs)
    BY <1>2, <1>8, <2>1, <2>2
  <2>3. CASE q \in Range(docs)
    <3>1. PICK i \in 1..(n + 1) : q = docs[i]
      BY <1>8, <2>1, <2>3 DEF Range
    <3>2. ~ (i <= n)
      <4> SUFFICES ASSUME i <= n PROVE FALSE
        OBVIOUS
      <4>1. i \in 1..Len(page) /\ page[i] = q
        BY <1>2, <1>9, <2>1, <3>1
      <4>2. QED
        BY <1>9, <1>20, <4>1 DEF Range
    <3>3. i = n + 1
      BY <1>2, <3>1, <3>2
    <3>4. QED
      BY <1>2, <1>8, <2>1, <3>1, <3>3
  <2>4. QED
    BY <2>2, <2>3
<1>21. \A r \in steady[l] : Matches(l, r)' <=> Matches(l, r)
  BY <1>10 DEF Matches
<1>22. CASE more
  <2>1. Len(page) = n /\ page # <<>>
    BY <1>2, <1>9, <1>22
  <2>2. old \o page # <<>> /\ LastOf(old \o page) = page[Len(page)]
    BY <1>2, <1>5, <1>9, <2>1 DEF LastOf
  <2>3. \A r \in steady[l] : Matches(l, r) =>
          r \in Range(old \o page) \/ Precedes(l, LastOf(old \o page), r)
    BY <1>18, <1>19, <1>20, <1>22, <2>2
  <2>4. cursor'[l] = EncodeCursor(l, LastOf(old \o page)) /\ l \notin finished'
    BY <1>12, <1>22, <2>2
  <2>5. page[Len(page)] \in Rows
    BY <1>2, <1>9, <2>1
  <2>6. cursor'[l] # Null
    BY <1>1, <2>2, <2>4, <2>5, NullAssumption
  <2>7. Walk(l)'
    <3>1. returned'[l] = old \o page /\ steady'[l] = steady[l]
      BY <1>10, <1>12
    <3>2. \A r \in steady'[l] : Matches(l, r)' =>
            r \in Range(returned'[l]) \/ Precedes(l, LastOf(returned'[l]), r)
      BY <1>21, <2>3, <3>1
    <3>3. cursor'[l] = EncodeCursor(l, LastOf(returned'[l]))
      BY <2>4, <3>1
    <3>4. QED
      BY <1>16, <1>17, <2>2, <2>4, <2>6, <3>1, <3>2, <3>3 DEF Walk
  <2>8. QED
    BY <1>13, <1>14, <2>7 DEF IInv
<1>23. CASE ~ more
  <2>1. C = Range(page)
    <3>1. Len(docs) < n + 1
      BY <1>2, <1>8, <1>23
    <3>2. C = Range(docs)
      BY <1>8, <3>1
    <3>3. page = docs
      BY <1>9, <1>23
    <3>4. QED
      BY <3>2, <3>3
  <2>2. \A r \in steady[l] : Matches(l, r) => r \in Range(old \o page)
    BY <1>18, <1>19, <2>1
  <2>3. cursor'[l] = Null /\ l \in finished'
    BY <1>12, <1>23
  <2>4. Walk(l)'
    <3>1. returned'[l] = old \o page /\ steady'[l] = steady[l]
      BY <1>10, <1>12
    <3>2. \A r \in steady'[l] : Matches(l, r)' => r \in Range(returned'[l])
      BY <1>21, <2>2, <3>1
    <3>3. QED
      BY <1>16, <1>17, <2>3, <3>1, <3>2 DEF Walk
  <2>5. QED
    BY <1>13, <1>14, <2>4 DEF IInv
<1>24. QED
  BY <1>22, <1>23

\* A walk that begins again has been given nothing.
LEMMA AgainStep ==
    ASSUME IInv, NEW l \in walks, Again(l)
    PROVE  IInv'
<1>1. l \in Lists /\ l \in finished
  BY PaginationAssumption DEF IInv, State, Again
<1>2. State'
  BY <1>1 DEF IInv, State, Again
<1>3. ASSUME NEW k \in Lists PROVE Walk(k)'
  <2>1. Walk(k) /\ steady[k] \subseteq Rows /\ DOMAIN returned = Lists /\ DOMAIN steady = Lists
    BY DEF IInv, State
  <2>2. cursor' = cursor /\ status' = status
    BY DEF Again
  <2>3. CASE k = l
    <3>1. /\ returned'[k] = <<>> /\ k \notin finished'
          /\ cursor'[k] = Null
      BY <1>1, <2>1, <2>2, <2>3 DEF Again, Walk
    <3>2. QED
      BY <3>1 DEF Walk
  <2>4. CASE k # l
    <3>1. /\ returned'[k] = returned[k] /\ steady'[k] = steady[k]
          /\ k \in finished' <=> k \in finished
      BY <2>1, <2>4 DEF Again
    <3>2. \A r \in Rows : Matches(k, r)' <=> Matches(k, r)
      BY <2>2 DEF Matches
    <3>3. QED
      BY <2>1, <2>2, <3>1, <3>2 DEF Walk
  <2>5. QED
    BY <2>3, <2>4
<1>4. QED
  BY <1>2, <1>3 DEF IInv

\* The invariant is inductive.
THEOREM Inductive == Spec => []IInv
<1>1. Init => IInv
  BY InitIInv
<1>2. IInv /\ [Next]_vars => IInv'
  <2> SUFFICES ASSUME IInv, [Next]_vars PROVE IInv'
    OBVIOUS
  <2>1. CASE \E r \in Watched, s \in Statuses : Write(r, s)
    BY <2>1, WriteStep
  <2>2. CASE \E l \in walks, m \in walks, limit \in Limits : Page(l, m, limit)
    BY <2>2, PageStep
  <2>3. CASE \E l \in walks : Again(l)
    BY <2>3, AgainStep
  <2>4. CASE UNCHANGED vars
    BY <2>4 DEF vars, IInv, State, Walk, Matches
  <2>5. CASE \E l \in walks, m \in walks : Refused(l, m)
    BY <2>4, <2>5 DEF Refused
  <2>6. QED
    BY <2>1, <2>2, <2>3, <2>4, <2>5 DEF Next
<1>3. QED
  BY <1>1, <1>2, PTL DEF Spec

\* However the collections are written during a walk, with whatever limits
\* and whatever cursors of lists with another collection or sort are handed
\* in, no row is returned twice or out of order.
THEOREM NoRowTwice == Spec => []OneOrder
<1>1. IInv => OneOrder
  BY DEF IInv, Walk, OneOrder
<1>2. QED
  BY <1>1, Inductive, PTL

\* When there is no more, every row that was there throughout was returned.
THEOREM NothingMissed == Spec => []Complete
<1>1. IInv => Complete
  BY DEF IInv, State, Walk, Complete
<1>2. QED
  BY <1>1, Inductive, PTL

\* Every variable keeps its type; a cursor always names a shape that is served.
THEOREM TypeCorrect == Spec => []TypeOK
<1>1. IInv => TypeOK
  BY DEF IInv, State, TypeOK
<1>2. QED
  BY <1>1, Inductive, PTL
-----------------------------------------------------------------------------
(* The lists over days. *)

\* What a walk was given and nobody has written since still matches.
StillMatches ==
    \A l \in Lists : \A r \in steady[l] :
        r \in Range(returned[l]) => Matches(l, r)

\* What a page gives are candidates.
LEMMA PageFacts ==
    ASSUME IInv, NEW l \in walks, NEW m \in walks, NEW limit \in Limits, Page(l, m, limit)
    PROVE  /\ l \in Lists
           /\ \A k \in Lists \ {l} : returned'[k] = returned[k]
           /\ \A r \in Range(returned'[l]) : r \in Range(returned[l]) \/ Matches(l, r)
<1> DEFINE n == ClampLimit(limit)
           C == Candidates(l, cursor[m])
<1>1. l \in Lists /\ m \in Lists
  BY PaginationAssumption DEF IInv, State
<1>2. n \in Nat /\ FetchSize(n) \in Nat
  BY PaginationAssumption DEF ClampLimit, FetchSize
<1>3. PICK docs \in Found(l, C, FetchSize(n)) :
        returned' = [returned EXCEPT ![l] =
            @ \o (IF Len(docs) > n THEN SubSeq(docs, 1, n) ELSE docs)]
  BY DEF Page
<1> DEFINE page == IF Len(docs) > n THEN SubSeq(docs, 1, n) ELSE docs
           old == returned[l]
<1>4. C \subseteq Rows /\ \A r \in C : Matches(l, r)
  BY DEF Candidates
<1> HIDE DEF C, n
<1>5. docs \in Seq(C) /\ Len(docs) \in Nat
  BY <1>1, <1>2, <1>4, FoundFacts
<1>6. page \in Seq(C) /\ Len(page) \in Nat /\ \A i \in 1..Len(page) : page[i] \in C
  <2>1. \A i \in 1..Len(docs) : docs[i] \in C
    BY <1>5
  <2>2. CASE Len(docs) > n
    <3>1. page = SubSeq(docs, 1, n)
      BY <2>2
    <3>2. /\ SubSeq(docs, 1, n) \in Seq(C) /\ Len(SubSeq(docs, 1, n)) = n
          /\ \A i \in 1..n : SubSeq(docs, 1, n)[i] = docs[i]
      BY <1>2, <1>5, <2>2
    <3>3. QED
      BY <1>2, <1>5, <2>1, <2>2, <3>1, <3>2
  <2>3. CASE ~ (Len(docs) > n)
    BY <1>5, <2>1, <2>3
  <2>4. QED
    BY <2>2, <2>3
<1>7. old \in Seq(Rows) /\ Len(old) \in Nat /\ DOMAIN old = 1..Len(old)
  BY <1>1 DEF IInv, State
<1>8. /\ returned'[l] = old \o page
      /\ \A k \in Lists \ {l} : returned'[k] = returned[k]
  BY <1>1, <1>3 DEF IInv, State
<1> HIDE DEF page, old
<1>9. ASSUME NEW r \in Range(old \o page) PROVE r \in Range(old) \/ Matches(l, r)
  <2>1. /\ page \in Seq(Rows)
        /\ DOMAIN (old \o page) = 1..(Len(old) + Len(page))
    BY <1>4, <1>6, <1>7
  <2>2. PICK i \in 1..(Len(old) + Len(page)) : r = (old \o page)[i]
    BY <1>9, <2>1 DEF Range
  <2>3. CASE i <= Len(old)
    <3>1. r = old[i] /\ i \in DOMAIN old
      BY <1>6, <1>7, <2>1, <2>2, <2>3
    <3>2. QED
      BY <3>1 DEF Range
  <2>4. CASE i > Len(old)
    <3>1. i - Len(old) \in 1..Len(page) /\ r = page[i - Len(old)]
      BY <1>6, <1>7, <2>1, <2>2, <2>4
    <3>2. QED
      BY <1>4, <1>6, <3>1
  <2>5. QED
    BY <1>7, <2>3, <2>4
<1>10. QED
  BY <1>1, <1>8, <1>9 DEF old

LEMMA StillMatchesStep == IInv /\ StillMatches /\ [Next]_vars => StillMatches'
<1> SUFFICES ASSUME IInv, StillMatches, [Next]_vars, NEW l \in Lists,
                    NEW r \in steady'[l], r \in Range(returned'[l])
             PROVE  Matches(l, r)'
  BY DEF StillMatches
<1>1. steady \in [Lists -> SUBSET Rows] /\ DOMAIN returned = Lists /\ DOMAIN status = Rows
  BY DEF IInv, State
<1>2. ASSUME NEW q \in Watched, NEW s \in Statuses, Write(q, s) PROVE Matches(l, r)'
  <2>1. r \in steady[l] /\ r # q /\ r \in Range(returned[l])
    BY <1>1, <1>2 DEF Write
  <2>2. r \in Rows /\ status'[r] = status[r]
    BY <1>1, <1>2, <2>1 DEF Write
  <2>3. QED
    BY <2>1, <2>2 DEF StillMatches, Matches
<1>3. ASSUME NEW k \in walks, NEW m \in walks, NEW limit \in Limits, Page(k, m, limit)
      PROVE  Matches(l, r)'
  <2>1. steady' = steady /\ status' = status
    BY <1>3 DEF Page
  <2>2. r \in Range(returned[l]) \/ Matches(l, r)
    <3>1. CASE l = k
      BY <1>3, <3>1, PageFacts
    <3>2. CASE l # k
      <4>1. returned'[l] = returned[l]
        BY <1>3, <3>2, PageFacts
      <4>2. QED
        BY <4>1
    <3>3. QED
      BY <3>1, <3>2
  <2>3. QED
    BY <2>1, <2>2 DEF StillMatches, Matches
<1>4. ASSUME NEW k \in walks, Again(k) PROVE Matches(l, r)'
  <2>1. status' = status
    BY <1>4 DEF Again
  <2>2. CASE l = k
    <3>1. returned'[l] = <<>>
      BY <1>1, <1>4, <2>2 DEF Again
    <3>2. QED
      BY <3>1 DEF Range
  <2>3. CASE l # k
    <3>1. returned'[l] = returned[l] /\ steady'[l] = steady[l]
      BY <1>1, <1>4, <2>3 DEF Again
    <3>2. QED
      BY <2>1, <3>1 DEF StillMatches, Matches
  <2>4. QED
    BY <2>2, <2>3
<1>5. CASE UNCHANGED vars \/ (\E k \in walks, m \in walks : Refused(k, m))
  <2>1. UNCHANGED <<status, steady, returned>>
    BY <1>5 DEF vars, Refused
  <2>2. QED
    BY <2>1 DEF StillMatches, Matches
<1>6. QED
  BY <1>2, <1>3, <1>4, <1>5 DEF Next

\* The instants of some days in a row are those whose day is one of them.
LEMMA WholeDay ==
    ASSUME NEW t \in Nat, NEW a \in Nat, NEW b \in Nat
    PROVE  /\ t \in DateWindow(a, b) <=> DayOf(t) \in a..b
           /\ t \in DayRange(a) <=> DayOf(t) \in {a}
<1> DEFINE L == DayLength
           d == t \div DayLength
<1>1. L \in Nat \ {0}
  BY ServicesAssumption
<1>2. d \in Nat /\ L * d <= t /\ t < L * d + L
  BY <1>1
<1>3. ASSUME NEW x \in Nat, NEW y \in Nat, x <= y PROVE L * x <= L * y
  BY <1>1, <1>3
<1>4. ASSUME NEW x \in Nat, NEW y \in Nat, x < y PROVE L * x + L <= L * y
  <2>1. L * (x + 1) <= L * y
    BY <1>3, <1>4
  <2>2. QED
    BY <1>1, <2>1
<1> HIDE DEF d
<1>5. ASSUME NEW x \in Nat PROVE L * x \in Nat
  BY <1>1
<1>6. ASSUME NEW x \in Nat PROVE /\ L * x <= t <=> x <= d
                                 /\ t < L * x + L <=> d <= x
  <2>1. x <= d => L * x <= t
    BY <1>1, <1>2, <1>3, <1>5
  <2>2. x > d => t < L * x
    <3>1. x > d => L * d + L <= L * x
      BY <1>2, <1>4
    <3>2. QED
      BY <1>1, <1>2, <1>5, <3>1
  <2>3. d <= x => t < L * x + L
    <3>1. d <= x => L * d <= L * x
      BY <1>2, <1>3
    <3>2. QED
      BY <1>1, <1>2, <1>5, <3>1
  <2>4. d > x => t >= L * x + L
    <3>1. d > x => L * x + L <= L * d
      BY <1>2, <1>4
    <3>2. QED
      BY <1>1, <1>2, <1>5, <3>1
  <2>5. QED
    BY <1>1, <1>2, <1>5, <2>1, <2>2, <2>3, <2>4
<1>7. /\ t \in DateWindow(a, b) <=> L * a <= t /\ t < L * b + L
      /\ t \in DayRange(a) <=> L * a <= t /\ t < L * a + L
  BY <1>1, <1>5 DEF DateWindow, DayRange, DayStart, DayAfter
<1>8. DayOf(t) = d
  BY DEF DayOf, d
<1>9. /\ DayOf(t) \in a..b <=> a <= d /\ d <= b
      /\ DayOf(t) \in {a} <=> a <= d /\ d <= a
  BY <1>2, <1>8
<1>10. QED
  BY <1>6, <1>7, <1>9

\* The store has the documents of the rows, and no others.
LEMMA StoreFacts ==
    ASSUME NEW c \in DOMAIN Store
    PROVE  /\ \A d \in Store[c] : \E r \in Rows, s \in Statuses :
                  Collection[r] = c /\ d = Document[r][s] /\ d._id = r /\ d.status = s
           /\ \A r \in Rows, s \in Statuses :
                  Collection[r] = c => Document[r][s] \in Store[c]
<1>1. Store[c] = {Document[r][s] : r \in {q \in Rows : Collection[q] = c}, s \in Statuses}
  BY DocumentAssumption
<1>2. \A r \in Rows, s \in Statuses :
         Document[r][s]._id = r /\ Document[r][s].status = s
  BY DocumentAssumption
<1>3. QED
  BY <1>1, <1>2

\* What a list of a collection selects.
LEMMA ListingSelects ==
    ASSUME NEW c \in DOMAIN Store, NEW D, D \subseteq Store[c], NEW sort,
           NEW r \in Rows, NEW s \in Statuses \cup {Absent}
    PROVE  <<r, s>> \in Listing(c, sort, D).selects <=>
               Collection[r] = c /\ s # Absent /\ Document[r][s] \in D
<1>1. Listing(c, sort, D).selects = {<<d._id, d.status>> : d \in D}
  BY DEF Listing
<1>2. s # Absent => Document[r][s]._id = r /\ Document[r][s].status = s
  <2>1. s # Absent => s \in Statuses
    OBVIOUS
  <2>2. QED
    BY <2>1, DocumentAssumption
<1>3. Absent \notin Statuses
  BY PaginationAssumption
<1>4. ASSUME <<r, s>> \in Listing(c, sort, D).selects
      PROVE  Collection[r] = c /\ s # Absent /\ Document[r][s] \in D
  <2>1. PICK d \in D : <<r, s>> = <<d._id, d.status>>
    BY <1>1, <1>4
  <2>2. PICK x \in Rows, t \in Statuses :
           Collection[x] = c /\ d = Document[x][t] /\ d._id = x /\ d.status = t
    BY StoreFacts
  <2>3. x = r /\ t = s
    BY <2>1, <2>2
  <2>4. QED
    BY <1>3, <2>2, <2>3
<1>5. QED
  BY <1>1, <1>2, <1>4

\* What a service over days selects is what it describes.
LEMMA AnswerSelects ==
    ASSUME NEW l \in DOMAIN Asked, NEW r \in Rows, NEW s \in Statuses \cup {Absent}
    PROVE  <<r, s>> \in Query[l].selects <=>
               /\ Collection[r] = CollectionOfService[Asked[l].service]
               /\ s # Absent
               /\ Described(Asked[l], Document[r][s])
<1> DEFINE q == Asked[l]
           c == CollectionOfService[q.service]
           D == {d \in Store[c] : Described(q, d)}
<1>1. /\ q.service \in Services /\ Query[l] = Answer(q) /\ c \in DOMAIN Store
      /\ \A d \in Store[c] : Date(q.service, d) \in Nat
      /\ q.from \in Nat /\ q.to \in Nat
  BY DocumentAssumption
<1>2. \A d \in Store[c] :
         /\ Date(q.service, d) \in DateWindow(q.from, q.to) <=>
                DayOf(Date(q.service, d)) \in q.from..q.to
         /\ Date(q.service, d) \in DayRange(q.from) <=>
                DayOf(Date(q.service, d)) \in {q.from}
  BY <1>1, WholeDay
<1>3. \E sort : Query[l] = Listing(c, sort, D)
  <2> USE DEF Answer, CollectionOfService, Services, Date, Described, DaysAsked
  <2>1. CASE q.service = "transactions"
    <3>1. c = "transactions"
      BY <2>1
    <3>2. D = {d \in Store["transactions"] :
                  /\ d.accountId = q.account
                  /\ d.tradeDate \in DateWindow(q.from, q.to)
                  /\ IfGiven(q.status, d.status)}
      BY <1>2, <2>1, <3>1
    <3>3. Answer(q) = GetTransactions(q.account, q.from, q.to, q.status)
      BY <2>1
    <3>4. QED
      BY <1>1, <3>1, <3>2, <3>3 DEF GetTransactions
  <2>2. CASE q.service = "settlements"
    <3>1. c = "settlements"
      BY <2>2
    <3>2. D = {d \in Store["settlements"] :
                  /\ d.accountId = q.account
                  /\ d.settlementDate \in DayRange(q.from)
                  /\ IfGiven(q.status, d.status)}
      BY <1>2, <2>2, <3>1
    <3>3. Answer(q) = GetSettlements(q.account, q.from, q.status)
      BY <2>2
    <3>4. QED
      BY <1>1, <3>1, <3>2, <3>3 DEF GetSettlements
  <2>3. CASE q.service = "fails"
    <3>1. c = "settlements"
      BY <2>3
    <3>2. D = {d \in Store["settlements"] :
                  /\ d.status = "FAILED"
                  /\ d.settlementDate \in DateWindow(q.from, q.to)
                  /\ IfGiven(q.account, d.accountId)}
      BY <1>2, <2>3, <3>1
    <3>3. Answer(q) = GetSettlementFails(q.from, q.to, q.account)
      BY <2>3
    <3>4. QED
      BY <1>1, <3>1, <3>2, <3>3 DEF GetSettlementFails
  <2>4. CASE q.service = "positions"
    <3>1. c = "positions"
      BY <2>4
    <3>2. D = {d \in Store["positions"] :
                  d.accountId = q.account /\ d.asOfDate \in DayRange(q.from)}
      BY <1>2, <2>4, <3>1
    <3>3. Answer(q) = GetPositions(q.account, q.from)
      BY <2>4
    <3>4. QED
      BY <1>1, <3>1, <3>2, <3>3 DEF GetPositions
  <2>5. CASE q.service = "history"
    <3>1. c = "positions"
      BY <2>5
    <3>2. D = {d \in Store["positions"] :
                  /\ d.accountId = q.account /\ d.securityId = q.security
                  /\ d.asOfDate \in DateWindow(q.from, q.to)}
      BY <1>2, <2>5, <3>1
    <3>3. Answer(q) = GetPositionHistory(q.account, q.security, q.from, q.to)
      BY <2>5
    <3>4. QED
      BY <1>1, <3>1, <3>2, <3>3 DEF GetPositionHistory
  <2>6. CASE q.service = "balances"
    <3>1. c = "cash_balances"
      BY <2>6
    <3>2. D = {d \in Store["cash_balances"] :
                  d.accountId = q.account /\ d.asOfDate \in DayRange(q.from)}
      BY <1>2, <2>6, <3>1
    <3>3. Answer(q) = GetCashBalances(q.account, q.from)
      BY <2>6
    <3>4. QED
      BY <1>1, <3>1, <3>2, <3>3 DEF GetCashBalances
  <2>7. QED
    BY <1>1, <2>1, <2>2, <2>3, <2>4, <2>5, <2>6
<1>4. PICK sort : Query[l] = Listing(c, sort, D)
  BY <1>3
<1>5. D \subseteq Store[c]
  OBVIOUS
<1>6. s # Absent /\ Collection[r] = c => Document[r][s] \in Store[c]
  BY <1>1, StoreFacts
<1> DEFINE X == Document[r][s]
<1>7. <<r, s>> \in Query[l].selects <=> Collection[r] = c /\ s # Absent /\ X \in D
  <2> HIDE DEF c, D, q
  <2>1. <<r, s>> \in Listing(c, sort, D).selects <=>
           Collection[r] = c /\ s # Absent /\ Document[r][s] \in D
    BY <1>1, <1>5, ListingSelects
  <2>2. QED
    BY <1>4, <2>1 DEF X
<1>8. X \in D <=> X \in Store[c] /\ Described(q, X)
  OBVIOUS
<1>9. QED
  <2> HIDE DEF D, c, q, X
  <2>1. <<r, s>> \in Query[l].selects <=> Collection[r] = c /\ s # Absent /\ Described(q, X)
    BY <1>6, <1>7, <1>8 DEF X
  <2>2. QED
    BY <2>1 DEF c, q, X

\* When there is no more, a list over days has returned the rows of the whole
\* days asked for and no others, of those nobody wrote meanwhile.
THEOREM DaysAreWhole == Spec => []WholeDays
<1>1. Init => StillMatches
  BY DEF Init, StillMatches, Range
<1>2. IInv /\ StillMatches => WholeDays
  <2> SUFFICES ASSUME IInv, StillMatches, NEW l \in finished \cap DOMAIN Asked,
                      NEW r \in steady[l]
               PROVE  r \in Range(returned[l]) <=>
                          /\ Collection[r] = CollectionOfService[Asked[l].service]
                          /\ status[r] # Absent
                          /\ Described(Asked[l], Document[r][status[r]])
    BY DEF WholeDays
  <2>1. l \in Lists /\ r \in Rows /\ status[r] \in Statuses \cup {Absent}
    BY DEF IInv, State
  <2>2. r \in Range(returned[l]) <=> <<r, status[r]>> \in Query[l].selects
    BY <2>1 DEF IInv, Walk, StillMatches, Matches
  <2>3. QED
    BY <2>1, <2>2, AnswerSelects
<1>3. QED
  BY <1>1, <1>2, StillMatchesStep, Inductive, PTL DEF Spec
-----------------------------------------------------------------------------
(* The release checks. *)

LEMMA TickType ==
    ASSUME MaxTime \in Nat, clock \in 1..MaxTime, Tick
    PROVE  clock' \in 1..MaxTime /\ UNCHANGED <<store, written, call, well, faults>>
  BY DEF Tick

USE ChecksAssumption

\* What the rest of the system does between two queries.
Around ==
    \/ Tick
    \/ \E f \in Topics : Land(f) \/ RecordSinkProgress(f)
    \/ SinkDies \/ RecordDlq \/ Curate

LEMMA NextSplit == ChecksNext <=> Around \/ RunReleaseChecks \/ QueryFails
  BY DEF ChecksNext, Around

LEMMA FollowingStages == 
  ASSUME at \in DOMAIN Following
  PROVE  /\ at \in {"ping", "collections", "cycle", "match", "sinks", "ages", "dlq"}
         /\ Following[at] \in {"collections", "cycle", "sinks", "dlq", "report"}
  BY DEF Following

-----------------------------------------------------------------------------
(* Types. *)

LEMMA ChecksTypeInit == ChecksInit => ChecksTypeOK
<1> SUFFICES ASSUME ChecksInit PROVE ChecksTypeOK
  OBVIOUS
<1>1. Never \in [Feeds -> Times]
  BY DEF Never, Times
<1>2. NotBegun \in [clock : 1..MaxTime, dead : 0..MaxDead, beating : SUBSET Topics]
  BY DEF NotBegun
<1>3. Len(Registry) \in Nat
  OBVIOUS
<1> QED
  BY <1>1, <1>2, <1>3 DEF ChecksInit, ChecksTypeOK, Stages, Times

LEMMA TypeAround ==
  ASSUME ChecksTypeOK, Around
  PROVE  ChecksTypeOK'
<1> USE DEF ChecksTypeOK, store, call, Times, Feeds
<1>1. CASE Tick
  <2>1. clock' \in 1..MaxTime /\ UNCHANGED <<store, written, call, well, faults>>
    BY <1>1, TickType
  <2> QED
    BY <2>1
<1>2. ASSUME NEW f \in Topics, Land(f) PROVE ChecksTypeOK'
  <2>1. cycle' \in Times /\ records' \subseteq Pairs
    BY <1>2, SMTT(30) DEF Land
  <2>2. CollectionOf[f] \in Collections
    BY DEF Collections
  <2> QED
    BY <1>2, <2>1, <2>2 DEF Land
<1>3. ASSUME NEW f \in Topics, RecordSinkProgress(f) PROVE ChecksTypeOK'
  <2>1. heartbeat' \in [Feeds -> Times]
    BY <1>3 DEF RecordSinkProgress
  <2>2. written' \subseteq Topics
    BY <1>3 DEF RecordSinkProgress
  <2>3. UNCHANGED <<clock, dead, filled, cycle, records, positions, at, statuses, counted,
                    asked, wanted, seen, began, well, faults>>
    BY <1>3 DEF RecordSinkProgress
  <2> QED
    BY <2>1, <2>2, <2>3
<1>4. CASE SinkDies
  BY <1>4, SMTT(30) DEF SinkDies
<1>5. CASE RecordDlq
  BY <1>5, SMTT(30) DEF RecordDlq
<1>6. CASE Curate
  BY <1>6 DEF Curate, Collections
<1> QED
  BY <1>1, <1>2, <1>3, <1>4, <1>5, <1>6 DEF Around

LEMMA TypeCall ==
  ASSUME ChecksTypeOK, RunReleaseChecks \/ QueryFails
  PROVE  ChecksTypeOK'
<1> USE DEF ChecksTypeOK, store, Rest, Stages, Verdicts, Adds
<1>0. Never \in [Feeds -> Times] /\ Len(Registry) \in Nat
  BY DEF Never, Times
<1>1. CASE Begin
  <2>1. began' \in [clock : 1..MaxTime, dead : 0..MaxDead, beating : SUBSET Topics]
    BY <1>1 DEF Begin
  <2> QED
    BY <1>1, <2>1 DEF Begin
<1>2. CASE Ping
  BY <1>2 DEF Ping
<1>3. CASE Count
  BY <1>0, <1>3 DEF Count
<1>4. CASE ReadCycle
  BY <1>4 DEF ReadCycle
<1>5. CASE Match
  BY <1>5 DEF Match, Times
<1>6. CASE ReadSinks
  BY <1>6 DEF ReadSinks
<1>7. CASE CompareAges
  BY <1>0, <1>7 DEF CompareAges, Freshness
<1>8. CASE ReadDlq
  BY <1>8 DEF ReadDlq
<1>9. CASE Report
  <2>1. NotBegun \in [clock : 1..MaxTime, dead : 0..MaxDead, beating : SUBSET Topics]
    BY DEF NotBegun
  <2> QED
    BY <1>9, <2>1 DEF Report, Overall
<1>10. CASE QueryFails
  <2>1. at' \in Stages
    BY <1>10, FollowingStages DEF QueryFails
  <2> QED
    BY <1>0, <1>10, <2>1 DEF QueryFails, Times
<1> QED
  BY <1>1, <1>2, <1>3, <1>4, <1>5, <1>6, <1>7, <1>8, <1>9, <1>10 DEF RunReleaseChecks

LEMMA ChecksTypeStep == ChecksTypeOK /\ [ChecksNext]_checksVars => ChecksTypeOK'
<1> SUFFICES ASSUME ChecksTypeOK, [ChecksNext]_checksVars PROVE ChecksTypeOK'
  OBVIOUS
<1>1. CASE UNCHANGED checksVars
  BY <1>1 DEF ChecksTypeOK, checksVars, store, call
<1> QED
  BY <1>1, NextSplit, TypeAround, TypeCall

\* Every state of the store, the sink and the call is well typed.
THEOREM ChecksTypeCorrect == ChecksSpec => []ChecksTypeOK
  BY ChecksTypeInit, ChecksTypeStep, PTL DEF ChecksSpec

-----------------------------------------------------------------------------
(***************************************************************************)
(* The inductive invariant.  What the call has seen so far is not older    *)
(* than its beginning; and as long as all its checks have passed, what     *)
(* each of them found still holds of the state, because heartbeats, cycles *)
(* and collections never go back.                                          *)
(***************************************************************************)

\* A heartbeat is not of the future.
HeartbeatsPast == \A f \in Topics : heartbeat[f] <= clock

\* The state when the call began is of the past.
BeganPast ==
    /\ began.clock <= clock
    /\ began.dead <= dead
    /\ \A f \in began.beating : heartbeat[f] # 0

\* What the call has in memory it read from the store since.
MemoryPast ==
    /\ at = "match" => asked <= cycle
    /\ at = "ages" => \A f \in Topics : /\ seen[f] <= heartbeat[f]
                                        /\ f \in began.beating => seen[f] # 0

Counted == \A i \in 1..counted : Registry[i] \in filled

\* What passed so far is still so.
PassedSoFar ==
    /\ at = "idle" => statuses = {}
    /\ at = "ping" => statuses = {}
    /\ at # "collections" => counted = 0
    /\ statuses \subseteq {"PASS"} =>
          /\ at = "collections" => Counted
          /\ at \in {"cycle", "match", "sinks", "ages", "dlq", "report"} =>
                Collections \subseteq filled
          /\ at \in {"sinks", "ages", "dlq", "report"} => cycle >= began.clock - CycleAge
          /\ at \in {"dlq", "report"} =>
                \A f \in began.beating : heartbeat[f] >= began.clock - MaxAge[f]
          /\ at = "report" => began.dead = 0

ChecksInv == ChecksTypeOK /\ HeartbeatsPast /\ BeganPast /\ MemoryPast /\ PassedSoFar

LEMMA ChecksInvInit == ChecksInit => ChecksInv
<1> SUFFICES ASSUME ChecksInit PROVE ChecksInv
  OBVIOUS
<1>1. ChecksTypeOK
  BY ChecksTypeInit
<1>2. HeartbeatsPast /\ BeganPast
  BY DEF ChecksInit, HeartbeatsPast, BeganPast, NotBegun, Never, Feeds
<1>3. MemoryPast /\ PassedSoFar
  BY DEF ChecksInit, MemoryPast, PassedSoFar
<1> QED
  BY <1>1, <1>2, <1>3 DEF ChecksInv

\* Around the call, the store only moves on.
LEMMA StoreMovesOn ==
  ASSUME ChecksTypeOK, HeartbeatsPast, Around
  PROVE  /\ clock' >= clock /\ dead' >= dead /\ cycle' >= cycle
         /\ filled \subseteq filled'
         /\ \A f \in Topics : heartbeat'[f] >= heartbeat[f] /\ heartbeat'[f] <= clock'
         /\ UNCHANGED call
<1> DEFINE Goal ==
             /\ clock' >= clock /\ dead' >= dead /\ cycle' >= cycle
             /\ filled \subseteq filled'
             /\ \A f \in Topics : heartbeat'[f] >= heartbeat[f] /\ heartbeat'[f] <= clock'
             /\ UNCHANGED call
<1>0. /\ clock \in Nat /\ dead \in Nat /\ cycle \in Nat
      /\ heartbeat \in [Feeds -> Nat] /\ \A f \in Topics : heartbeat[f] \in Nat
      /\ \A f \in Topics : heartbeat[f] <= clock
  BY DEF ChecksTypeOK, Feeds, Times, HeartbeatsPast
<1>1. CASE Tick
  BY <1>0, <1>1 DEF Tick, store
<1>2. ASSUME NEW f \in Topics, Land(f) PROVE Goal
  <2>1. /\ UNCHANGED <<clock, dead, heartbeat, call>> /\ filled \subseteq filled'
    BY <1>2 DEF Land
  <2>2. cycle' >= cycle
    <3>1. cycle' = cycle \/ \E c \in 1..clock : cycle' = IF c > cycle THEN c ELSE cycle
      BY <1>2 DEF Land
    <3> QED
      BY <1>0, <3>1
  <2> QED
    BY <1>0, <2>1, <2>2
<1>3. ASSUME NEW f \in Topics, RecordSinkProgress(f) PROVE Goal
  <2>1. /\ UNCHANGED <<clock, dead, cycle, filled, call>>
        /\ heartbeat' = [heartbeat EXCEPT ![f] = clock]
    BY <1>3 DEF RecordSinkProgress
  <2>2. \A g \in Topics : heartbeat'[g] >= heartbeat[g] /\ heartbeat'[g] <= clock
    BY <1>0, <2>1 DEF Feeds
  <2> QED
    BY <1>0, <2>1, <2>2
<1>4. CASE SinkDies
  BY <1>0, <1>4 DEF SinkDies, store
<1>5. CASE RecordDlq
  BY <1>0, <1>5 DEF RecordDlq
<1>6. CASE Curate
  BY <1>0, <1>6 DEF Curate
<1> QED
  BY <1>1, <1>2, <1>3, <1>4, <1>5, <1>6 DEF Around

LEMMA ChecksInvAround ==
  ASSUME ChecksInv, Around
  PROVE  ChecksInv'
<1> USE DEF ChecksInv
<1>1. ChecksTypeOK'
  BY TypeAround
<1>2. /\ clock' >= clock /\ dead' >= dead /\ cycle' >= cycle
      /\ filled \subseteq filled'
      /\ \A f \in Topics : heartbeat'[f] >= heartbeat[f] /\ heartbeat'[f] <= clock'
      /\ UNCHANGED <<at, statuses, counted, asked, wanted, seen, began>>
  BY StoreMovesOn DEF call
<1>3. /\ clock \in Int /\ dead \in Int /\ cycle \in Int
      /\ began.clock \in Int /\ began.dead \in Int /\ began.beating \subseteq Topics
      /\ \A f \in Topics : /\ heartbeat[f] \in Nat /\ seen[f] \in Nat /\ MaxAge[f] \in Nat
  BY DEF ChecksTypeOK, Feeds, Times
<1>8. /\ clock' \in Int /\ dead' \in Int /\ cycle' \in Int /\ asked \in Int
      /\ \A f \in Topics : heartbeat'[f] \in Nat
  <2>1. clock' \in Int /\ dead' \in Int /\ cycle' \in Int /\ heartbeat' \in [Feeds -> Times]
    BY <1>1 DEF ChecksTypeOK, Times
  <2>2. asked \in Int
    BY DEF ChecksTypeOK, Times
  <2> QED
    BY <2>1, <2>2 DEF Feeds, Times
<1>4. HeartbeatsPast'
  BY <1>2 DEF HeartbeatsPast
<1>5. BeganPast'
  <2>1. began'.clock <= clock' /\ began'.dead <= dead'
    BY <1>2, <1>3, <1>8 DEF BeganPast
  <2>2. ASSUME NEW f \in began'.beating PROVE heartbeat'[f] # 0
    <3>1. f \in Topics /\ heartbeat[f] # 0
      BY <1>2, <1>3 DEF BeganPast
    <3> QED
      BY <1>2, <1>3, <1>8, <3>1
  <2> QED
    BY <2>1, <2>2 DEF BeganPast
<1>6. MemoryPast'
  BY <1>2, <1>3, <1>8, SMTT(30) DEF MemoryPast
<1>7. PassedSoFar'
  <2>1. Counted => Counted'
    BY <1>2 DEF Counted
  <2>2. cycle >= began.clock - CycleAge => cycle' >= began'.clock - CycleAge
    BY <1>2, <1>3, <1>8
  <2>3. ASSUME NEW f \in began.beating, heartbeat[f] >= began.clock - MaxAge[f]
        PROVE  heartbeat'[f] >= began.clock - MaxAge[f]
    BY <1>2, <1>3, <1>8, <2>3
  <2> QED
    BY <1>2, <2>1, <2>2, <2>3 DEF PassedSoFar
<1> QED
  BY <1>1, <1>4, <1>5, <1>6, <1>7

LEMMA ChecksInvCall ==
  ASSUME ChecksInv, RunReleaseChecks \/ QueryFails
  PROVE  ChecksInv'
<1> USE DEF ChecksInv, Rest, store, Adds
<1>1. ChecksTypeOK'
  BY TypeCall
<1>2. /\ clock \in Int /\ dead \in Int /\ cycle \in Int /\ asked \in Int
      /\ began.clock \in Int /\ began.dead \in Int /\ began.beating \subseteq Topics
      /\ \A f \in Topics : heartbeat[f] \in Nat /\ seen[f] \in Nat /\ MaxAge[f] \in Nat
      /\ counted \in 0..Len(Registry) /\ Len(Registry) \in Nat
  BY DEF ChecksTypeOK, Feeds, Times
<1>3. UNCHANGED <<clock, heartbeat, dead, filled, cycle>>
  BY DEF RunReleaseChecks, Begin, Ping, Count, ReadCycle, Match, ReadSinks, CompareAges,
         ReadDlq, Report, QueryFails
<1>4. HeartbeatsPast'
  BY <1>3 DEF HeartbeatsPast
<1>5. CASE Begin
  <2>1. /\ at' = "ping" /\ statuses' = statuses /\ counted' = counted /\ at = "idle"
        /\ began'.clock = clock /\ began'.dead = dead
        /\ began'.beating = {f \in Topics : heartbeat[f] # 0}
    BY <1>5 DEF Begin
  <2> QED
    BY <1>1, <1>2, <1>3, <1>4, <2>1 DEF BeganPast, MemoryPast, PassedSoFar
<1>6. CASE Ping
  <2>1. /\ at = "ping" /\ at' = "collections" /\ counted' = counted /\ counted = 0
        /\ began' = began
    BY <1>6 DEF Ping, PassedSoFar
  <2>2. Counted'
    BY <2>1 DEF Counted
  <2> QED
    BY <1>1, <1>3, <1>4, <2>1, <2>2 DEF BeganPast, MemoryPast, PassedSoFar
<1>7. CASE Count
  <2> DEFINE c == Registry[counted + 1]
  <2>1. /\ at = "collections" /\ counted < Len(Registry) /\ began' = began
        /\ statuses' = statuses \cup {IF c \in filled THEN "PASS" ELSE "FAIL"}
    BY <1>7 DEF Count
  <2>2. ASSUME statuses' \subseteq {"PASS"}
        PROVE  \A i \in 1..(counted + 1) : Registry[i] \in filled
    <3>1. c \in filled /\ Counted
      BY <2>1, <2>2 DEF PassedSoFar
    <3> QED
      BY <1>2, <3>1 DEF Counted
  <2>3. CASE counted + 1 = Len(Registry)
    <3>1. at' = "cycle" /\ counted' = 0
      BY <1>7, <2>3 DEF Count
    <3>2. ASSUME statuses' \subseteq {"PASS"} PROVE Collections \subseteq filled
      <4>1. DOMAIN Registry = 1..(counted + 1)
        BY <2>3
      <4> QED
        BY <2>2, <3>2, <4>1
    <3> QED
      BY <1>1, <1>3, <1>4, <2>1, <3>1, <3>2 DEF BeganPast, MemoryPast, PassedSoFar
  <2>4. CASE counted + 1 # Len(Registry)
    <3>1. at' = "collections" /\ counted' = counted + 1
      BY <1>7, <2>1, <2>4 DEF Count
    <3>2. ASSUME statuses' \subseteq {"PASS"} PROVE Counted'
      BY <1>3, <2>2, <3>1, <3>2 DEF Counted
    <3> QED
      BY <1>1, <1>3, <1>4, <2>1, <3>1, <3>2 DEF BeganPast, MemoryPast, PassedSoFar
  <2> QED
    BY <2>3, <2>4
<1>8. CASE ReadCycle
  <2>1. at = "cycle" /\ counted' = counted /\ began' = began
    BY <1>8 DEF ReadCycle
  <2>2. \/ at' = "sinks" /\ "FAIL" \in statuses'
        \/ at' = "match" /\ asked' = cycle /\ statuses' = statuses
    BY <1>8 DEF ReadCycle
  <2> QED
    BY <1>1, <1>2, <1>3, <1>4, <2>1, <2>2 DEF BeganPast, MemoryPast, PassedSoFar
<1>9. CASE Match
  <2>1. at = "match" /\ at' = "sinks" /\ counted' = counted /\ began' = began
    BY <1>9 DEF Match
  <2>2. statuses \subseteq statuses'
    BY <1>9 DEF Match
  <2>3. ASSUME statuses' \subseteq {"PASS"} PROVE cycle >= began.clock - CycleAge
    <3>1. clock - asked <= CycleAge
      BY <1>9, <2>3 DEF Match
    <3> QED
      BY <1>2, <2>1, <3>1 DEF MemoryPast, BeganPast
  <2> QED
    BY <1>1, <1>3, <1>4, <2>1, <2>2, <2>3 DEF BeganPast, MemoryPast, PassedSoFar
<1>10. CASE ReadSinks
  <2>1. /\ at = "sinks" /\ at' = "ages" /\ counted' = counted /\ began' = began
        /\ statuses' = statuses /\ seen' = heartbeat
    BY <1>10 DEF ReadSinks
  <2> QED
    BY <1>1, <1>2, <1>3, <1>4, <2>1 DEF BeganPast, MemoryPast, PassedSoFar
<1>11. CASE CompareAges
  <2>1. /\ at = "ages" /\ at' = "dlq" /\ counted' = counted /\ began' = began
        /\ statuses' = statuses \cup {Freshness}
    BY <1>11 DEF CompareAges
  <2>2. ASSUME statuses' \subseteq {"PASS"}, NEW f \in began.beating
        PROVE  heartbeat[f] >= began.clock - MaxAge[f]
    <3>1. Stale = {}
      BY <2>1, <2>2 DEF Freshness
    <3>2. f \in Topics /\ seen[f] # 0 /\ seen[f] <= heartbeat[f]
      BY <1>2, <2>1 DEF MemoryPast
    <3>3. clock - seen[f] <= MaxAge[f]
      BY <1>2, <3>1, <3>2 DEF Stale, NeverLanded, Feeds
    <3> QED
      BY <1>2, <3>2, <3>3 DEF BeganPast
  <2> QED
    BY <1>1, <1>3, <1>4, <2>1, <2>2 DEF BeganPast, MemoryPast, PassedSoFar
<1>12. CASE ReadDlq
  <2>1. /\ at = "dlq" /\ at' = "report" /\ counted' = counted /\ began' = began
        /\ statuses' = statuses \cup {IF dead = 0 THEN "PASS" ELSE "WARN"}
    BY <1>12 DEF ReadDlq
  <2>2. ASSUME statuses' \subseteq {"PASS"} PROVE began.dead = 0
    <3>1. dead = 0
      BY <2>1, <2>2
    <3>2. began.dead \in Nat
      BY DEF ChecksTypeOK
    <3> QED
      BY <3>1, <3>2 DEF BeganPast
  <2> QED
    BY <1>1, <1>3, <1>4, <2>1, <2>2 DEF BeganPast, MemoryPast, PassedSoFar
<1>13. CASE Report
  <2>1. /\ at = "report" /\ at' = "idle" /\ statuses' = {} /\ counted' = counted
        /\ began'.clock = 1 /\ began'.dead = 0 /\ began'.beating = {}
    BY <1>13 DEF Report, NotBegun
  <2>2. clock >= 1 /\ dead >= 0
    BY DEF ChecksTypeOK
  <2> QED
    BY <1>1, <1>3, <1>4, <2>1, <2>2 DEF BeganPast, MemoryPast, PassedSoFar
<1>14. CASE QueryFails
  <2>1. /\ "FAIL" \in statuses' /\ counted' = 0 /\ began' = began
        /\ at' \in {"collections", "cycle", "sinks", "dlq", "report"}
    BY <1>14, FollowingStages DEF QueryFails
  <2>2. ~(statuses' \subseteq {"PASS"})
    BY <2>1
  <2> QED
    BY <1>1, <1>3, <1>4, <2>1, <2>2 DEF BeganPast, MemoryPast, PassedSoFar
<1> QED
  BY <1>5, <1>6, <1>7, <1>8, <1>9, <1>10, <1>11, <1>12, <1>13, <1>14 DEF RunReleaseChecks

\* The inductive invariant holds in every state.
THEOREM ChecksInvariance == ChecksSpec => []ChecksInv
<1>1. ChecksInv /\ [ChecksNext]_checksVars => ChecksInv'
  <2> SUFFICES ASSUME ChecksInv, [ChecksNext]_checksVars PROVE ChecksInv'
    OBVIOUS
  <2>1. CASE UNCHANGED checksVars
    BY <2>1 DEF checksVars, store, call, ChecksInv, ChecksTypeOK, HeartbeatsPast, BeganPast, MemoryPast,
                PassedSoFar, Counted
  <2> QED
    BY <2>1, NextSplit, ChecksInvAround, ChecksInvCall
<1> QED
  BY <1>1, ChecksInvInit, PTL DEF ChecksSpec

\* A PASS is earned: for any feeds, ages and faults, whatever happens between
\* the queries of the call (run_release_checks).
THEOREM PassMeansHealthy == ChecksSpec => []PassIsEarned
<1>1. ChecksInv => PassIsEarned
  <2> SUFFICES ASSUME ChecksInv, at = "report", Overall = "PASS"
               PROVE  /\ began.dead = 0
                      /\ \A f \in began.beating : heartbeat[f] >= began.clock - MaxAge[f]
                      /\ cycle >= began.clock - CycleAge
                      /\ Collections \subseteq filled
    BY DEF PassIsEarned
  <2>1. statuses \subseteq {"PASS"}
    BY DEF ChecksInv, ChecksTypeOK, Verdicts, Overall
  <2> QED
    BY <2>1 DEF ChecksInv, PassedSoFar
<1> QED
  BY <1>1, ChecksInvariance, PTL
-----------------------------------------------------------------------------
(***************************************************************************)
(* An alarm is earned.  A call that began with nothing wrong finds nothing *)
(* wrong as long as its history counts no reason: what it has read, and    *)
(* what it will read, is young until each moment of the history.           *)
(***************************************************************************)

\* A topic that lands for the first time does so after the beginning.
YoungUntil(t) ==
    /\ \E f \in Topics : heartbeat[f] # 0
    /\ \A f \in Topics : /\ heartbeat[f] # 0 => t - heartbeat[f] <= MaxAge[f]
                         /\ heartbeat[f] = 0 => t - began.clock <= MaxAge[f]

SoundUntil(t) ==
    /\ statuses \subseteq {"PASS"}
    /\ Collections \subseteq filled
    /\ cycle # 0 /\ t - cycle <= CycleAge
    /\ records \subseteq positions
    /\ dead = 0
    /\ YoungUntil(t)

\* The same of what the call has in memory.
MemoryUntil(t) ==
    /\ at = "match" => t - asked <= CycleAge /\ wanted \subseteq positions
    /\ at = "ages" => /\ \E f \in Topics : seen[f] # 0
                      /\ \A f \in Topics : seen[f] # 0 => t - seen[f] <= MaxAge[f]

AlarmInv ==
    /\ at = "idle" => well = {}
    /\ heartbeat[Manifests] = 0 /\ seen[Manifests] = 0
    /\ \A t \in well : t >= clock => SoundUntil(t) /\ MemoryUntil(t)

LEMMA AlarmNumbers ==
  ASSUME ChecksTypeOK
  PROVE  /\ clock \in Int /\ dead \in Int /\ cycle \in Int /\ asked \in Int
         /\ began.clock \in Int /\ CycleAge \in Int
         /\ well \subseteq Int
         /\ \A f \in Topics : heartbeat[f] \in Nat /\ seen[f] \in Nat /\ MaxAge[f] \in Nat
  BY DEF ChecksTypeOK, Feeds, Times

LEMMA LaterIsYounger ==
  ASSUME NEW t \in Int, NEW c \in Int, NEW d \in Int, NEW age \in Int,
         t - c <= age, d >= c
  PROVE  t - d <= age
  OBVIOUS

LEMMA AlarmInit == ChecksInit => AlarmInv
  BY DEF ChecksInit, AlarmInv, Never, Feeds

\* Landing keeps what is young so, unless the history drops it.
LEMMA AlarmAround ==
  ASSUME ChecksInv, AlarmInv, Around
  PROVE  AlarmInv'
<1> DEFINE Kept(t) == t >= clock' => SoundUntil(t)' /\ MemoryUntil(t)'
<1>0. ChecksTypeOK /\ HeartbeatsPast /\ began.clock <= clock
  BY DEF ChecksInv, BeganPast
<1>1. /\ clock' >= clock /\ clock' \in Int
      /\ UNCHANGED <<at, statuses, asked, wanted, seen, began>>
  BY <1>0, StoreMovesOn, TypeAround DEF call, ChecksTypeOK
<1>2. \A t \in well : t >= clock => SoundUntil(t) /\ MemoryUntil(t)
  BY DEF AlarmInv
<1>3. ASSUME UNCHANGED <<heartbeat, dead, filled, cycle, records, positions>>,
             well' = well
      PROVE  AlarmInv'
  <2>1. ASSUME NEW t \in well, t >= clock' PROVE t >= clock
    BY <1>0, <1>1, <2>1, AlarmNumbers
  <2> QED
    BY <1>1, <1>2, <1>3, <2>1
    DEF AlarmInv, SoundUntil, MemoryUntil, YoungUntil
<1>4. CASE Tick
  BY <1>3, <1>4 DEF Tick, store
<1>5. ASSUME NEW f \in Topics, Land(f) PROVE AlarmInv'
  <2>1. /\ UNCHANGED <<clock, heartbeat, dead, positions>> /\ filled \subseteq filled'
        /\ cycle' >= cycle /\ cycle' \in Int
    <3>1. UNCHANGED <<clock, heartbeat, dead, positions>> /\ filled \subseteq filled'
      BY <1>5 DEF Land
    <3>2. cycle' >= cycle
      BY <1>0, StoreMovesOn
    <3>3. ChecksTypeOK'
      BY <1>0, TypeAround
    <3>4. cycle' \in Int
      BY <3>3 DEF ChecksTypeOK, Times
    <3> QED
      BY <3>1, <3>2, <3>4
  <2>2. well' = IF records' \subseteq positions THEN well ELSE {}
    BY <1>5 DEF Land
  <2>3. ASSUME NEW t \in well', t >= clock' PROVE SoundUntil(t)' /\ MemoryUntil(t)'
    <3>1. t \in well /\ records' \subseteq positions'
      BY <2>1, <2>2, <2>3
    <3>2. t >= clock /\ SoundUntil(t) /\ MemoryUntil(t)
      BY <1>2, <2>1, <2>3, <3>1
    <3>3. cycle' # 0 /\ t - cycle' <= CycleAge
      <4>1. /\ cycle \in Nat /\ t \in Int /\ CycleAge \in Int
            /\ cycle # 0 /\ t - cycle <= CycleAge
        BY <1>0, <3>1, <3>2, AlarmNumbers DEF SoundUntil, ChecksTypeOK, Times
      <4>2. cycle' \in Int /\ cycle' >= cycle
        BY <2>1
      <4> HIDE ChecksAssumption
      <4>3. cycle' # 0
        BY <4>1, <4>2
      <4>4. \A d \in Int : d >= cycle => t - d <= CycleAge
        BY <4>1, LaterIsYounger
      <4> QED
        BY <4>2, <4>3, <4>4
    <3> QED
      BY <1>1, <2>1, <3>1, <3>2, <3>3 DEF SoundUntil, MemoryUntil, YoungUntil
  <2> QED
    BY <1>1, <2>1, <2>2, <2>3 DEF AlarmInv
<1>6. ASSUME NEW f \in Topics, RecordSinkProgress(f) PROVE AlarmInv'
  <2>1. /\ UNCHANGED <<clock, dead, filled, cycle, records, positions, well>>
        /\ heartbeat' = [heartbeat EXCEPT ![f] = clock]
    BY <1>6 DEF RecordSinkProgress
  <2>2. /\ heartbeat \in [Feeds -> Nat] /\ f \in Feeds /\ f # Manifests /\ clock \in 1..MaxTime
    BY <1>0 DEF ChecksTypeOK, Feeds, Times
  <2>3. ASSUME NEW t \in well, t >= clock PROVE YoungUntil(t)'
    <3>1. YoungUntil(t)
      BY <1>2, <2>3 DEF SoundUntil
    <3>2. \E g \in Topics : heartbeat'[g] # 0
      BY <2>1, <2>2
    <3>3. ASSUME NEW g \in Topics
          PROVE  /\ heartbeat'[g] # 0 => t - heartbeat'[g] <= MaxAge[g]
                 /\ heartbeat'[g] = 0 => t - began'.clock <= MaxAge[g]
      <4>1. CASE g = f
        <5>1. heartbeat'[g] = clock
          BY <2>1, <2>2, <4>1
        <5>2. /\ heartbeat[g] # 0 => t - heartbeat[g] <= MaxAge[g]
              /\ heartbeat[g] = 0 => t - began.clock <= MaxAge[g]
              /\ heartbeat[g] <= clock
          BY <1>0, <3>1 DEF YoungUntil, HeartbeatsPast
        <5>3. /\ heartbeat[g] \in Int /\ t \in Int /\ MaxAge[g] \in Int /\ clock \in Int
              /\ began.clock \in Int
          BY <1>0, AlarmNumbers
        <5> QED
          BY <1>0, <2>2, <5>1, <5>2, <5>3
      <4>2. CASE g # f
        <5>1. heartbeat'[g] = heartbeat[g]
          BY <2>1, <2>2, <4>2 DEF Feeds
        <5> QED
          BY <1>1, <3>1, <5>1 DEF YoungUntil
      <4> QED
        BY <4>1, <4>2
    <3> QED
      BY <3>2, <3>3 DEF YoungUntil
  <2>4. heartbeat'[Manifests] = heartbeat[Manifests]
    BY <2>1, <2>2 DEF Feeds
  <2> QED
    BY <1>1, <1>2, <2>1, <2>3, <2>4 DEF AlarmInv, SoundUntil, MemoryUntil
<1>7. CASE SinkDies
  BY <1>3, <1>7 DEF SinkDies, store
<1>8. CASE RecordDlq
  BY <1>1, <1>8 DEF RecordDlq, AlarmInv
<1>9. CASE Curate
  <2>1. /\ UNCHANGED <<clock, heartbeat, dead, cycle, records, well>>
        /\ filled \subseteq filled' /\ positions \subseteq positions'
    BY <1>9 DEF Curate
  <2> QED
    BY <1>1, <1>2, <2>1 DEF AlarmInv, SoundUntil, MemoryUntil, YoungUntil
<1> QED
  BY <1>4, <1>5, <1>6, <1>7, <1>8, <1>9 DEF Around

\* The steps of the call find what the history says they will.
LEMMA AlarmCall ==
  ASSUME ChecksInv, AlarmInv, RunReleaseChecks \/ QueryFails
  PROVE  AlarmInv'
<1> USE DEF Rest, store, Adds
<1>0. ChecksTypeOK /\ HeartbeatsPast /\ PassedSoFar
  BY DEF ChecksInv
<1>1. UNCHANGED <<clock, heartbeat, dead, filled, cycle, records, positions>>
  BY DEF RunReleaseChecks, Begin, Ping, Count, ReadCycle, Match, ReadSinks, CompareAges,
         ReadDlq, Report, QueryFails
<1>2. /\ at = "idle" => well = {}
      /\ heartbeat[Manifests] = 0 /\ seen[Manifests] = 0
      /\ \A t \in well : t >= clock => SoundUntil(t) /\ MemoryUntil(t)
  BY DEF AlarmInv
<1>3. Never[Manifests] = 0
  BY DEF Never, Feeds
\* A step that passes, and reads nothing that is compared later.
<1>4. ASSUME UNCHANGED <<began, well>>, at' # "idle", at' \notin {"match", "ages"},
             seen'[Manifests] = 0,
             \A t \in well : t >= clock /\ SoundUntil(t) /\ MemoryUntil(t)
                                => statuses' \subseteq {"PASS"}
      PROVE  AlarmInv'
  BY <1>1, <1>2, <1>4 DEF AlarmInv, SoundUntil, MemoryUntil, YoungUntil
<1>5. CASE Begin
  <2>1. /\ at = "idle" /\ at' = "ping" /\ statuses' = statuses /\ statuses = {}
        /\ seen' = seen /\ began'.clock = clock
        /\ well' = {t \in Times : Well(t)}
    BY <1>0, <1>5 DEF Begin, PassedSoFar
  <2> QED
    BY <1>1, <1>2, <2>1 DEF AlarmInv, SoundUntil, MemoryUntil, YoungUntil, Well
<1>6. CASE Ping
  BY <1>2, <1>4, <1>6 DEF Ping, SoundUntil
<1>7. CASE Count
  <2>1. /\ at' \in {"collections", "cycle"} /\ UNCHANGED <<began, well, seen>>
        /\ counted < Len(Registry)
        /\ statuses' = statuses \cup
             {IF Registry[counted + 1] \in filled THEN "PASS" ELSE "FAIL"}
    BY <1>7 DEF Count
  <2>2. Registry[counted + 1] \in Collections
    BY <1>0, <2>1 DEF ChecksTypeOK
  <2> QED
    BY <1>2, <1>4, <2>1, <2>2 DEF SoundUntil
<1>8. CASE ReadCycle
  <2>1. at = "cycle" /\ UNCHANGED <<began, well, seen>>
    BY <1>8 DEF ReadCycle
  <2>2. CASE cycle = 0
    BY <1>2, <1>4, <1>8, <2>1, <2>2 DEF ReadCycle, SoundUntil
  <2>3. CASE cycle # 0
    <3>1. at' = "match" /\ asked' = cycle /\ wanted' = records /\ statuses' = statuses
      BY <1>8, <2>3 DEF ReadCycle
    <3> QED
      BY <1>1, <1>2, <2>1, <3>1 DEF AlarmInv, SoundUntil, MemoryUntil, YoungUntil
  <2> QED
    BY <2>2, <2>3
<1>9. CASE Match
  <2>1. /\ at = "match" /\ at' = "sinks" /\ UNCHANGED <<began, well, seen>>
        /\ statuses' = statuses \cup
             {IF clock - asked <= CycleAge THEN "PASS" ELSE "WARN",
              IF wanted \subseteq positions THEN "PASS" ELSE "WARN"}
    BY <1>9 DEF Match
  <2>2. ASSUME NEW t \in well, t >= clock, MemoryUntil(t) PROVE clock - asked <= CycleAge
    <3>1. t - asked <= CycleAge
      BY <2>1, <2>2 DEF MemoryUntil
    <3> QED
      BY <1>0, <2>2, <3>1, AlarmNumbers
  <2>3. ASSUME NEW t \in well, MemoryUntil(t) PROVE wanted \subseteq positions
    BY <2>1, <2>3 DEF MemoryUntil
  <2> QED
    BY <1>2, <1>4, <2>1, <2>2, <2>3 DEF SoundUntil
<1>10. CASE ReadSinks
  <2>1. /\ at = "sinks" /\ at' = "ages" /\ UNCHANGED <<began, well, statuses>>
        /\ seen' = heartbeat
    BY <1>10 DEF ReadSinks
  <2> QED
    BY <1>1, <1>2, <2>1 DEF AlarmInv, SoundUntil, MemoryUntil, YoungUntil
<1>11. CASE CompareAges
  <2>1. /\ at = "ages" /\ at' = "dlq" /\ UNCHANGED <<began, well>> /\ seen' = Never
        /\ statuses' = statuses \cup {Freshness}
    BY <1>11 DEF CompareAges
  <2>2. ASSUME NEW t \in well, t >= clock, MemoryUntil(t) PROVE Freshness = "PASS"
    <3>1. /\ \E f \in Topics : seen[f] # 0
          /\ \A f \in Topics : seen[f] # 0 => t - seen[f] <= MaxAge[f]
      BY <2>1, <2>2 DEF MemoryUntil
    <3>2. ASSUME NEW f \in Topics, seen[f] # 0 PROVE ~(clock - seen[f] > MaxAge[f])
      <4>1. /\ t - seen[f] <= MaxAge[f] /\ seen[f] \in Int /\ MaxAge[f] \in Int
            /\ t \in Int /\ clock \in Int
        BY <1>0, <3>1, <3>2, AlarmNumbers
      <4> QED
        BY <2>2, <4>1
    <3>3. Stale = {}
      BY <1>2, <3>2 DEF Stale, NeverLanded, Feeds
    <3>4. NeverLanded # Feeds
      BY <3>1 DEF NeverLanded, Feeds
    <3> QED
      BY <3>3, <3>4 DEF Freshness
  <2> QED
    BY <1>3, <1>4, <2>1, <2>2 DEF SoundUntil
<1>12. CASE ReadDlq
  BY <1>2, <1>4, <1>12 DEF ReadDlq, SoundUntil
<1>13. CASE Report
  BY <1>1, <1>2, <1>13 DEF Report, AlarmInv
<1>14. CASE QueryFails
  <2>1. at' # "idle" /\ well' = {} /\ seen' = Never
    BY <1>14, FollowingStages DEF QueryFails
  <2> QED
    BY <1>1, <1>2, <1>3, <2>1 DEF AlarmInv
<1> QED
  BY <1>5, <1>6, <1>7, <1>8, <1>9, <1>10, <1>11, <1>12, <1>13, <1>14 DEF RunReleaseChecks

\* No false alarm: for any feeds, ages and faults, a call that began with
\* nothing wrong reports PASS, unless it was given a reason meanwhile
\* (run_release_checks).
THEOREM AlarmMeansTrouble == ChecksSpec => []AlarmIsEarned
<1>1. ChecksInv /\ AlarmInv /\ [ChecksNext]_checksVars => AlarmInv'
  <2> SUFFICES ASSUME ChecksInv, AlarmInv, [ChecksNext]_checksVars PROVE AlarmInv'
    OBVIOUS
  <2>1. CASE UNCHANGED checksVars
    BY <2>1 DEF checksVars, store, call, AlarmInv, SoundUntil, MemoryUntil, YoungUntil
  <2> QED
    BY <2>1, NextSplit, AlarmAround, AlarmCall
<1>2. ChecksInv /\ AlarmInv => AlarmIsEarned
  <2> SUFFICES ASSUME ChecksInv, AlarmInv, at = "report", clock \in well
               PROVE  Overall = "PASS"
    BY DEF AlarmIsEarned
  <2>1. SoundUntil(clock)
    BY AlarmNumbers DEF AlarmInv, ChecksInv
  <2> QED
    BY <2>1 DEF SoundUntil, Overall
<1> QED
  BY <1>1, <1>2, AlarmInit, ChecksInvariance, PTL DEF ChecksSpec
=============================================================================
