---------------------------- MODULE SnapshotAdapter ----------------------------
(***************************************************************************)
(* The start-of-day true-up, ods_ingest.adapters.snapshot: each run takes  *)
(* the vendor's full extracts in the landing directory one after another,  *)
(* merges each with the key index of the one before, produces the          *)
(* differences, and, once they are delivered, replaces the index, records  *)
(* the batch in the ledger and archives the file.                          *)
(*                                                                         *)
(* Keys are numbers and so are versions of a record (its content hash);    *)
(* version 0 is no record.  The topic is compacted here to what it says    *)
(* last of each key: deltas of one key are in one partition, and a run     *)
(* produces at most one of them.                                           *)
(***************************************************************************)
EXTENDS Integers, Sequences, FiniteSets

CONSTANTS
    MaxKey,       \* the keys are 1..MaxKey
    MaxVersion,   \* the versions are 1..MaxVersion
    MaxName,      \* the file names, in order, are 1..MaxName
    Extracts,     \* the extracts the vendor may deliver
    MaxDrops,     \* bound: files delivered
    MaxFaults     \* bound: flushes that fail, and times the process dies

Keys == 1..MaxKey
Versions == 1..MaxVersion
Names == 1..MaxName

\* A row: a key and the version of its record.
Rows == Keys \X Versions

\* A whole population, as the index or the topic describes it.
Populations == [Keys -> 0..MaxVersion]

ASSUME SnapshotAssumption ==
    /\ MaxKey \in Nat /\ MaxVersion \in Nat /\ MaxName \in Nat
    /\ \A x \in Extracts : x.rows \in Seq(Rows) /\ x.declared \in Nat
    /\ MaxDrops \in Nat /\ MaxFaults \in Nat

VARIABLES
    landing,   \* the landing directory: name -> the extract, or none
    ledger,    \* store: the batches recorded, a name and its content
    index,     \* the retained key index
    topic,     \* broker: what the topic says last of each key
    pc,        \* where the run is
    todo,      \* the names the run still has to take
    cur,       \* the file in hand, 0 for none
    left,      \* the keys of the index not merged yet
    right,     \* the rows of the file not merged yet
    last,      \* the key of the row merged last, 0 at first
    newIndex,  \* the entries of the new index
    deltas,    \* what is queued for the bus: <<key, version>>, version 0 to remove
    spoilt,    \* history: keys whose last delta is of a file out of order
    drops, faults

memory == <<pc, todo, cur, left, right, last, newIndex, deltas>>
vars == <<landing, ledger, index, topic, pc, todo, cur, left, right, last,
          newIndex, deltas, spoilt, drops, faults>>

None == [rows |-> <<>>, declared |-> MaxKey + 1]

Waiting == {n \in Names : landing[n] # None}

Empty == [k \in Keys |-> 0]

\* The trailer agrees with the rows: the file is whole.
Whole(x) == x.declared = Len(x.rows)

KeysOf(x) == {x.rows[i][1] : i \in DOMAIN x.rows}

Sorted(x) == \A i \in 2..Len(x.rows) : x.rows[i - 1][1] < x.rows[i][1]

\* The keys of the rows before the first one that goes back in the order.
KeysInOrder(x) ==
    {x.rows[i][1] : i \in {n \in DOMAIN x.rows :
                             \A j \in 2..n : x.rows[j - 1][1] <= x.rows[j][1]}}

Usable(x) == Whole(x) /\ Sorted(x)

\* The population an extract describes.
Population(x) ==
    [k \in Keys |-> IF k \in KeysOf(x)
                    THEN (CHOOSE r \in {x.rows[i] : i \in DOMAIN x.rows} : r[1] = k)[2]
                    ELSE 0]

Least(S) == CHOOSE n \in S : \A m \in S : n <= m

Batch(n) == <<n, landing[n]>>
-----------------------------------------------------------------------------
Init ==
    /\ landing = [n \in Names |-> None]
    /\ ledger = {}
    /\ index = Empty
    /\ topic = Empty
    /\ pc = "idle"
    /\ todo = {}
    /\ cur = 0
    /\ left = {}
    /\ right = <<>>
    /\ last = 0
    /\ newIndex = Empty
    /\ deltas = {}
    /\ spoilt = {}
    /\ drops = 0
    /\ faults = 0

\* The vendor delivers an extract, under a new name or over one the adapter
\* has refused: a name may be used again when its file is archived.
Drop(n, x) ==
    /\ drops < MaxDrops
    /\ landing[n] = None \/ ~Usable(landing[n])
    /\ cur # n
    /\ landing' = [landing EXCEPT ![n] = x]
    /\ drops' = drops + 1
    /\ UNCHANGED <<ledger, index, topic, memory, spoilt, faults>>
-----------------------------------------------------------------------------
(* A run ends: the memory of the process is gone.                          *)
Forget ==
    /\ pc' = "idle"
    /\ todo' = {}
    /\ cur' = 0
    /\ left' = {} /\ right' = <<>> /\ last' = 0
    /\ newIndex' = Empty
    /\ deltas' = {}

\* The next row is not in order.
Unsorted == right # <<>> /\ Head(right)[1] <= last

\* What is sent of a key that is gone: version 0, no record.
Removal(k) == <<k, 0>>

KeysIn(D) == {d[1] : d \in D}

\* What the topic says after the deltas of D.
After(D) == [k \in Keys |-> IF \E d \in D : d[1] = k
                            THEN (CHOOSE d \in D : d[1] = k)[2]
                            ELSE topic[k]]

\* An exception or a kill: some of what is queued is delivered all the same.
Abort ==
    /\ \E D \in SUBSET deltas :
          /\ topic' = After(D)
          /\ spoilt' = IF cur # 0 /\ ~Sorted(landing[cur]) THEN spoilt \cup KeysIn(D)
                       ELSE spoilt \ KeysIn(D)
    /\ Forget
    /\ UNCHANGED <<landing, ledger, index, drops>>

Run ==
    /\ pc = "idle"
    /\ Waiting # {}
    /\ pc' = "next"
    /\ todo' = Waiting
    /\ UNCHANGED <<landing, ledger, index, topic, cur, left, right, last, newIndex,
                   deltas, spoilt, drops, faults>>

RunEnds ==
    /\ pc = "next"
    /\ todo = {}
    /\ Forget
    /\ UNCHANGED <<landing, ledger, index, topic, spoilt, drops, faults>>

\* A count that is not checked (a mutant).
TakeUnchecked ==
    /\ pc = "next"
    /\ todo # {}
    /\ LET n == Least(todo) IN
       /\ cur' = n
       /\ todo' = todo \ {n}
       /\ pc' = "merge"
       /\ left' = {k \in Keys : index[k] # 0}
       /\ right' = landing[n].rows
    /\ UNCHANGED <<landing, ledger, index, topic, last, newIndex, deltas, spoilt, drops, faults>>

\* A file of the ledger that is skipped and left where it is (a mutant).
TakeSkips ==
    /\ pc = "next"
    /\ todo # {}
    /\ LET n == Least(todo) IN
       /\ todo' = todo \ {n}
       /\ \/ /\ Batch(n) \in ledger
             /\ UNCHANGED <<pc, cur, left, right>>
          \/ /\ Batch(n) \notin ledger
             /\ Whole(landing[n])
             /\ cur' = n
             /\ pc' = "merge"
             /\ left' = {k \in Keys : index[k] # 0}
             /\ right' = landing[n].rows
    /\ UNCHANGED <<landing, ledger, index, topic, last, newIndex, deltas, spoilt, drops, faults>>

\* The next file: one that is in the ledger is not read.
Take ==
    /\ pc = "next"
    /\ todo # {}
    /\ LET n == Least(todo) IN
       /\ cur' = n
       /\ todo' = todo \ {n}
       /\ \/ /\ Batch(n) \in ledger
             /\ pc' = "archive"
             /\ UNCHANGED <<left, right>>
          \/ /\ Batch(n) \notin ledger
             /\ Whole(landing[n])
             /\ pc' = "merge"
             /\ left' = {k \in Keys : index[k] # 0}
             /\ right' = landing[n].rows
    /\ UNCHANGED <<landing, ledger, index, topic, last, newIndex, deltas, spoilt, drops, faults>>

\* A file that is not whole is refused before anything is produced, with an
\* exception that ends the run.
Refuse ==
    /\ pc = "next"
    /\ todo # {}
    /\ Batch(Least(todo)) \notin ledger
    /\ ~Whole(landing[Least(todo)])
    /\ Forget
    /\ UNCHANGED <<landing, ledger, index, topic, spoilt, drops, faults>>
-----------------------------------------------------------------------------
(* The merge of the two sorted streams.                                    *)

Merging ==
    /\ pc = "merge"
    /\ UNCHANGED <<landing, ledger, index, topic, pc, todo, cur, spoilt, drops, faults>>

\* The least key of the index is not in the file.
Gone == left # {} /\ (right # <<>> => Least(left) < Head(right)[1])

\* The row at the head of the file is of a key the index does not have.
Fresh == right # <<>> /\ (left # {} => Head(right)[1] < Least(left))

TakeRow ==
    /\ right' = Tail(right)
    /\ last' = Head(right)[1]
    /\ newIndex' = [newIndex EXCEPT ![Head(right)[1]] = Head(right)[2]]

MergeRemoved ==
    /\ Merging /\ ~Unsorted /\ Gone
    /\ deltas' = deltas \cup {Removal(Least(left))}
    /\ left' = left \ {Least(left)}
    /\ UNCHANGED <<right, last, newIndex>>

MergeAdded ==
    /\ Merging /\ ~Unsorted /\ Fresh
    /\ deltas' = deltas \cup {Head(right)}
    /\ TakeRow
    /\ UNCHANGED left

\* Both have the key: a delta only if the content moved.
MergeBoth ==
    /\ Merging /\ ~Unsorted /\ left # {} /\ right # <<>>
    /\ Least(left) = Head(right)[1]
    /\ deltas' = IF index[Least(left)] # Head(right)[2] THEN deltas \cup {Head(right)} ELSE deltas
    /\ left' = left \ {Least(left)}
    /\ TakeRow

\* The order is checked as the rows are read: an exception in mid-merge.
MergeRaises ==
    /\ pc = "merge"
    /\ Unsorted
    /\ Abort
    /\ UNCHANGED faults

\* A merge that ends with the file, whatever is left of the index (a mutant).
MergeEndsEarly ==
    /\ pc = "merge"
    /\ right = <<>>
    /\ pc' = "flush"
    /\ UNCHANGED <<landing, ledger, index, topic, todo, cur, left, right, last,
                   newIndex, deltas, spoilt, drops, faults>>

MergeEnds ==
    /\ pc = "merge"
    /\ left = {} /\ right = <<>>
    /\ pc' = "flush"
    /\ UNCHANGED <<landing, ledger, index, topic, todo, cur, left, right, last,
                   newIndex, deltas, spoilt, drops, faults>>
-----------------------------------------------------------------------------
Flush ==
    /\ pc = "flush"
    /\ topic' = After(deltas)
    /\ spoilt' = spoilt \ KeysIn(deltas)
    /\ pc' = "index"
    /\ UNCHANGED <<landing, ledger, index, todo, cur, left, right, last, newIndex,
                   deltas, drops, faults>>

\* The index written before the flush is over (a mutant).
FlushFailsIndexed ==
    /\ pc = "flush"
    /\ faults < MaxFaults
    /\ faults' = faults + 1
    /\ \E D \in SUBSET deltas : topic' = After(D)
    /\ index' = newIndex
    /\ Forget
    /\ UNCHANGED <<landing, ledger, spoilt, drops>>

\* The flush raises, or the process is killed at any point of a run.
FlushFails ==
    /\ pc = "flush"
    /\ faults < MaxFaults
    /\ faults' = faults + 1
    /\ Abort

Crash ==
    /\ pc # "idle"
    /\ faults < MaxFaults
    /\ faults' = faults + 1
    /\ Abort

\* The new index takes the place of the old one at once.
WriteIndex ==
    /\ pc = "index"
    /\ index' = newIndex
    /\ pc' = "record"
    /\ deltas' = {}
    /\ UNCHANGED <<landing, ledger, topic, todo, cur, left, right, last, newIndex, spoilt, drops, faults>>

RecordBatch ==
    /\ pc = "record"
    /\ ledger' = ledger \cup {Batch(cur)}
    /\ pc' = "archive"
    /\ UNCHANGED <<landing, index, topic, todo, cur, left, right, last, newIndex,
                   deltas, spoilt, drops, faults>>

Archive ==
    /\ pc = "archive"
    /\ landing' = [landing EXCEPT ![cur] = None]
    /\ pc' = "next"
    /\ cur' = 0
    /\ left' = {} /\ right' = <<>> /\ last' = 0
    /\ newIndex' = Empty
    /\ UNCHANGED <<ledger, index, topic, todo, deltas, spoilt, drops, faults>>

Step ==
    \/ Run \/ RunEnds \/ Take \/ Refuse
    \/ MergeRemoved \/ MergeAdded \/ MergeBoth \/ MergeRaises \/ MergeEnds
    \/ Flush \/ WriteIndex \/ RecordBatch \/ Archive

Next ==
    \/ \E n \in Names, x \in Extracts : Drop(n, x)
    \/ Step
    \/ FlushFails
    \/ Crash

Spec == Init /\ [][Next]_vars

\* The adapter is started every day, and goes on while it runs.
FairSpec == Spec /\ WF_vars(Step)
-----------------------------------------------------------------------------
Stages == {"idle", "next", "merge", "flush", "index", "record", "archive"}

\* The variables have the values the code gives them.
TypeOK ==
    /\ landing \in [Names -> Extracts \cup {None}]
    /\ ledger \subseteq Names \X Extracts
    /\ index \in Populations /\ topic \in Populations /\ newIndex \in Populations
    /\ pc \in Stages
    /\ todo \subseteq Names /\ cur \in Names \cup {0}
    /\ left \subseteq Keys /\ right \in Seq(Rows) /\ last \in Keys \cup {0}
    /\ deltas \subseteq Keys \X (0..MaxVersion)
    /\ spoilt \subseteq Keys
    /\ drops \in 0..MaxDrops /\ faults \in 0..MaxFaults

(***************************************************************************)
(* The one-pass merge computes the difference of the two populations: what *)
(* is queued at its end is every key whose version moved, appeared or      *)
(* disappeared, once, and the new index is the file (sort_merge).          *)
(***************************************************************************)
MergeIsDifference ==
    pc = "flush" =>
        LET new == Population(landing[cur])
        IN  /\ newIndex = new
            /\ deltas = {<<k, new[k]>> : k \in {j \in Keys : index[j] # new[j]}}

(***************************************************************************)
(* A security is taken off the market only for a whole file that does not  *)
(* have it among its rows in order: a truncated file removes nothing (the  *)
(* trailer check), a file in order nothing that it has, and a file out of  *)
(* order, which diff.py refuses only when the merge comes to the fault,    *)
(* nothing that it has before the fault, wherever the run ends.            *)
(***************************************************************************)
RemovedOnlyWhenAbsent ==
    [][\A k \in Keys : topic[k] # 0 /\ topic'[k] = 0 =>
            Whole(landing[cur]) /\ k \notin KeysInOrder(landing[cur])]_vars

(***************************************************************************)
(* What _checked says it is for: an unsorted file must not "soft-delete    *)
(* live securities".  Those it has behind the fault it does.               *)
(***************************************************************************)
LiveIsNeverRemoved ==
    [][\A k \in Keys : topic[k] # 0 /\ topic'[k] = 0 => k \notin KeysOf(landing[cur])]_vars

(***************************************************************************)
(* When every file has been taken, the topic and the index describe the    *)
(* same population: no difference is considered applied that was not       *)
(* delivered, though runs fail half-way, files are refused, delivered      *)
(* again or delivered out of their order (the index is replaced only after *)
(* every delta is confirmed delivered).  Only the keys changed last by a  *)
(* file that is out of order may differ.                                   *)
(***************************************************************************)
IndexIsTopic ==
    pc = "idle" /\ Waiting = {} => \A k \in Keys \ spoilt : topic[k] = index[k]

(***************************************************************************)
(* In the end every file is taken, unless one is refused: it stays, and    *)
(* those after it with it.                                                 *)
(***************************************************************************)
EventuallyTaken ==
    <>[](\E n \in Names : landing[n] # None /\ ~Usable(landing[n]))
    \/ <>[](pc = "idle" /\ Waiting = {} /\ \A k \in Keys \ spoilt : topic[k] = index[k])
-----------------------------------------------------------------------------
\* The files on offer: sound, and not in the ledger.
Offerable == {n \in Names : Usable(landing[n]) /\ Batch(n) \notin ledger}

Offered == {<<n, Population(landing[n])>> : n \in Offerable}

(***************************************************************************)
(* The adapter does what TrueUp promises: whatever order the vendor's      *)
(* files come in and wherever a run dies, what it adds to the topic is a   *)
(* difference of a sound file still to be recorded, and the index follows  *)
(* the topic (process_file flushes, then writes the index, then records).  *)
(***************************************************************************)
TU == INSTANCE TrueUp WITH offered <- Offered

ImplementsTrueUp == TU!Spec
=============================================================================
