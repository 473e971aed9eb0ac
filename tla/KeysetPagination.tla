--------------------------- MODULE KeysetPagination ---------------------------
(***************************************************************************)
(* Cursor pagination, bank_ods.services.pagination, and the clients that   *)
(* walk the lists it serves.  A list is a collection, a sort and a filter. *)
(* A request for a page sends the filter and a range predicate made from   *)
(* the cursor to the database, sorted by the list's fields and then _id;   *)
(* the cursor of the next page is the sort key of the last row returned.   *)
(* Nothing is kept between two requests, and the pipelines write to the    *)
(* collection meanwhile: rows appear, and rows enter and leave a filter as *)
(* their status changes.  The sort fields of a document never change (they *)
(* are the natural key or a date no pipeline rewrites) and no pipeline     *)
(* deletes a document.                                                     *)
(*                                                                         *)
(* A client may walk several lists at once and hand the cursor of one to   *)
(* another.  A row is the identity of a document.  Values carry their BSON *)
(* type, and a comparison between different types selects nothing.         *)
(***************************************************************************)
EXTENDS Integers, Sequences, Functions, FiniteSets

CONSTANTS
    Null,       \* no cursor
    Rows,       \* the documents that may ever exist, by _id
    Collection, \* the collection each of them is in
    Fields,     \* the fields sorted by, "_id" among them
    Value,      \* the value of each field of each row, as a number
    TypeOf,     \* the BSON type of each field
    Statuses,   \* what the filters tell apart in one row over time
    Lists,      \* the lists
    Query,      \* each list's collection, sort, and the (row, status) pairs its filter selects
    Clients,    \* the sets of lists a client may walk at once
    MaxLimit,   \* MAX_LIMIT
    Limits,     \* the limits a client may ask for
    MaxWrites   \* bound: writes to the collections

Absent == "ABSENT"

Directions == {1, -1}

Sorts == Seq([field : Fields, direction : Directions])

\* Lists that share a collection and a sort take each other's cursors.
ASSUME PaginationAssumption ==
    /\ IsFiniteSet(Rows) /\ IsFiniteSet(Lists)
    /\ DOMAIN Collection = Rows
    /\ "_id" \in Fields
    /\ Value \in [Rows -> [Fields -> Int]]
    /\ \A q, r \in Rows : Value[q]["_id"] = Value[r]["_id"] => q = r
    /\ DOMAIN TypeOf = Fields
    /\ Absent \notin Statuses
    /\ DOMAIN Query = Lists
    /\ \A l \in Lists : Query[l].sort \in Sorts /\ Query[l].selects \subseteq Rows \X Statuses
    /\ \A l, m \in Lists :
          Query[l].collection = Query[m].collection /\ Query[l].sort = Query[m].sort => l = m
    /\ Clients \subseteq SUBSET Lists
    /\ MaxLimit \in Nat \ {0} /\ Limits \subseteq Int /\ MaxWrites \in Nat

VARIABLES
    status,     \* store: the status of each row, Absent before its insert
    walks,      \* client: the lists it walks, chosen once
    cursor,     \* client: the cursor each walk goes on from
    finished,   \* client: the walks whose last page said there is no more
    returned,   \* client: the rows each walk has been given, in order
    steady,     \* history: the rows not written since each walk began
    writes

vars == <<status, walks, cursor, finished, returned, steady, writes>>

-----------------------------------------------------------------------------
(* Sort keys, and the order the database returns documents in. *)

\* The order of a list without the tie-breaker (a mutant).
SortAlone(l) == Query[l].sort

\* Every list is sorted by _id after its own fields.
FullSort(l) == Append(Query[l].sort, [field |-> "_id", direction |-> 1])

\* A value as the database and the cursor hold it, with its type.
Tagged(r, f) == [type |-> TypeOf[f], value |-> Value[r][f]]

Greater(a, b) == a.type = b.type /\ a.value > b.value

\* $gt for an ascending field, $lt for a descending one.
Beyond(direction, a, b) ==
    IF direction = 1 THEN Greater(a, b) ELSE Greater(b, a)

\* The key of a row under a sort.
KeyOf(l, r) == [i \in DOMAIN FullSort(l) |-> Tagged(r, FullSort(l)[i].field)]

\* The range predicate: some field is beyond the cursor's, those before equal.
SeekPredicate(l, r, keys) ==
    \E i \in DOMAIN FullSort(l) :
        /\ \A j \in DOMAIN FullSort(l) : j < i => KeyOf(l, r)[j] = keys[j]
        /\ Beyond(FullSort(l)[i].direction, KeyOf(l, r)[i], keys[i])

\* The sort of a list puts one row before another.
Earlier(l, q, r) ==
    \E i \in DOMAIN FullSort(l) :
        /\ \A j \in DOMAIN FullSort(l) : j < i => KeyOf(l, q)[j] = KeyOf(l, r)[j]
        /\ Beyond(FullSort(l)[i].direction, KeyOf(l, r)[i], KeyOf(l, q)[i])

Order == {o \in Lists \X Rows \X Rows : Earlier(o[1], o[2], o[3])}

Precedes(l, q, r) == <<l, q, r>> \in Order

\* What find().sort().limit() may return from some candidates.
Found(l, candidates, size) ==
    {docs \in UNION {[1..n -> candidates] : n \in 0..size} :
        /\ Len(docs) = size \/ candidates = Range(docs)
        /\ \A i, j \in DOMAIN docs : i < j => docs[i] # docs[j] /\ ~ Precedes(l, docs[j], docs[i])
        /\ \A q \in candidates \ Range(docs), i \in DOMAIN docs : ~ Precedes(l, q, docs[i])}

-----------------------------------------------------------------------------
(* The cursor codec. *)

\* The fingerprint without the sort (a mutant).
FingerprintOfCollection(l) == Query[l].collection

\* The query shape a cursor belongs to: its collection and its full sort.
Fingerprint(l) == <<Query[l].collection, FullSort(l)>>

EncodeCursor(l, r) == [fingerprint |-> Fingerprint(l), keys |-> KeyOf(l, r)]

\* A decoder that is given the sort without the tie-breaker (a mutant).
DecodesSortAlone(l, c) ==
    /\ c.fingerprint = Fingerprint(l)
    /\ Len(c.keys) = Len(Query[l].sort)

\* Decoding refuses a cursor of another shape or with too few keys.
Decodes(l, c) ==
    /\ c.fingerprint = Fingerprint(l)
    /\ Len(c.keys) = Len(FullSort(l))

ClampLimit(limit) ==
    IF limit > MaxLimit THEN MaxLimit ELSE IF limit < 1 THEN 1 ELSE limit

\* One document more than the page tells whether there are more pages.
FetchSize(n) == n + 1

\* What a list's filter matches now, and that is past the cursor.
Matches(l, r) == <<r, status[r]>> \in Query[l].selects

Candidates(l, c) ==
    {r \in Rows : Matches(l, r) /\ (c = Null \/ SeekPredicate(l, r, c.keys))}

\* A cursor is not the absence of one.
ASSUME NullAssumption == \A l \in Lists, r \in Rows : EncodeCursor(l, r) # Null

-----------------------------------------------------------------------------
\* Bound: only the collections that are being walked hold anything.
Watched == {r \in Rows : \E l \in walks : Query[l].collection = Collection[r]}

Init ==
    /\ walks \in Clients
    /\ \E held \in [Watched -> Statuses \cup {Absent}] :
          status = [r \in Rows |-> IF r \in Watched THEN held[r] ELSE Absent]
    /\ cursor = [l \in Lists |-> Null]
    /\ finished = {}
    /\ returned = [l \in Lists |-> <<>>]
    /\ steady = [l \in Lists |-> Rows]
    /\ writes = 0

\* A pipeline inserts a document or changes the status of one.
Write(r, s) ==
    /\ writes < MaxWrites
    /\ s # status[r]
    /\ status' = [status EXCEPT ![r] = s]
    /\ steady' = [l \in Lists |-> steady[l] \ {r}]
    /\ writes' = writes + 1
    /\ UNCHANGED <<walks, cursor, finished, returned>>

\* A page of list l, asked for with the cursor the client holds for list m.
Page(l, m, limit) ==
    LET n == ClampLimit(limit)
    IN  /\ l \notin finished
        /\ l # m => cursor[m] # Null
        /\ cursor[m] # Null => Decodes(l, cursor[m])
        /\ \E docs \in Found(l, Candidates(l, cursor[m]), FetchSize(n)) :
              LET more == Len(docs) > n
                  page == IF more THEN SubSeq(docs, 1, n) ELSE docs
              IN  /\ returned' = [returned EXCEPT ![l] = @ \o page]
                  /\ cursor' = [cursor EXCEPT ![l] =
                         IF more THEN EncodeCursor(l, page[Len(page)]) ELSE Null]
                  /\ finished' = IF more THEN finished ELSE finished \cup {l}
        /\ UNCHANGED <<status, walks, steady, writes>>

\* A cursor that does not decode is answered INVALID_CURSOR.
Refused(l, m) ==
    /\ l \notin finished
    /\ cursor[m] # Null
    /\ ~ Decodes(l, cursor[m])
    /\ UNCHANGED vars

\* The client walks a list again from its first page.
Again(l) ==
    /\ l \in finished
    /\ finished' = finished \ {l}
    /\ returned' = [returned EXCEPT ![l] = <<>>]
    /\ steady' = [steady EXCEPT ![l] = Rows]
    /\ UNCHANGED <<status, walks, cursor, writes>>

Next ==
    \/ \E r \in Watched, s \in Statuses : Write(r, s)
    \/ \E l \in walks, m \in walks, limit \in Limits : Page(l, m, limit)
    \/ \E l \in walks, m \in walks : Refused(l, m)
    \/ \E l \in walks : Again(l)

Spec == Init /\ [][Next]_vars

\* A client that goes on with a walk it has begun.
FairSpec ==
    /\ Spec
    /\ \A l \in Lists : WF_vars(l \in walks /\ \E limit \in Limits : Page(l, l, limit))

-----------------------------------------------------------------------------
Cursors == {EncodeCursor(p[1], p[2]) : p \in Lists \X Rows}

TypeOK ==
    /\ status \in [Rows -> Statuses \cup {Absent}]
    /\ walks \in Clients
    /\ cursor \in [Lists -> Cursors \cup {Null}]
    /\ finished \subseteq Lists
    /\ returned \in [Lists -> Seq(Rows)]
    /\ steady \in [Lists -> SUBSET Rows]
    /\ writes \in 0..MaxWrites

\* Whatever is written during a walk, whatever limits its pages are asked for
\* with and whatever cursors of lists with another collection or sort it is
\* handed, no walk is given a row twice or a row that belongs before one it
\* already has (seek_predicate and the tie-breaker of paginate).  Lists that
\* differ in their filters only accept each other's cursors, and are not walked
\* together (PaginationAssumption).
OneOrder ==
    \A l \in Lists : \A i, j \in DOMAIN returned[l] :
        i < j => Precedes(l, returned[l][i], returned[l][j])

\* A walk that was told there is no more has been given every row that was
\* there for all of it and matched (has_more of paginate).
Complete ==
    \A l \in finished : \A r \in steady[l] :
        Matches(l, r) => r \in Range(returned[l])

\* A walk that goes on comes to its last page (the clamp of the limit, and
\* the strict comparison with the cursor).
WalksEnd == \A l \in Lists : (l \in walks) ~> (l \in finished)
=============================================================================
