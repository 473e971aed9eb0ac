------------------------------ MODULE FileAdapter ------------------------------
(***************************************************************************)
(* The file adapter: deliveries that appear in the landing directory are   *)
(* verified, put on the bus, recorded in the batch ledger of ingest_state  *)
(* and moved away.  The custody feed (CustodyFileAdapter) verifies control *)
(* totals, closes a batch with a manifest and quarantines what fails; the  *)
(* cash feed (run_generic_file_adapter) has no manifest and no quarantine. *)
(*                                                                         *)
(* The ledger has two writers: the adapter, and the sink, which copies     *)
(* every manifest it consumes into it.  The process may die between any    *)
(* two of its effects, and each of its calls to the broker and the store   *)
(* may fail, which ends it too; the supervisor starts it again.            *)
(*                                                                         *)
(* A delivery never replaces a file of the same name that still waits, and *)
(* no delivery has a name like those _move gives.                          *)
(***************************************************************************)
EXTENDS Integers, FiniteSets

CONSTANTS
    MaxName,       \* file names are 1..MaxName, in their sorted order
    Contents,      \* what a file may hold
    Sound,         \* the contents that verification accepts
    Size,          \* number of detail records of each content
    Rejected,      \* number of lines of each content that do not parse
    RejectLimit,   \* how many of those are dead-lettered at the most
    None,          \* no file
    Feeds,         \* the feeds to consider
    MaxArrivals,   \* bound: deliveries
    MaxFaults,     \* bound: kills, failed calls and flushes
    MaxSecond      \* bound: the clock

Names == 1..MaxName

Seconds == 1..MaxSecond

(***************************************************************************)
(* A content fails verification if its totals do not reconcile or a line   *)
(* does not parse.  The parser of the cash feed raises on one that is not  *)
(* sound.                                                                  *)
(***************************************************************************)
ASSUME FileAssumption ==
    /\ MaxName \in Nat
    /\ Sound \subseteq Contents
    /\ Size \in [Contents -> Nat]
    /\ Rejected \in [Contents -> Nat]
    /\ \A c \in Sound : Rejected[c] = 0
    /\ RejectLimit \in Nat
    /\ None \notin Contents
    /\ Feeds \subseteq {"custody", "cash"}
    /\ MaxArrivals \in Nat
    /\ MaxFaults \in Nat
    /\ MaxSecond \in Nat \ {0}

(***************************************************************************)
(* batch_id_for: a batch is a file name and (the hash of) its content.     *)
(***************************************************************************)
Batches == Names \X Contents

Good(b) == b[2] \in Sound

\* The records of a batch, each one a batch and its position in it.
Details(b) == {b} \X (1..Size[b[2]])

Records == UNION {Details(b) : b \in Batches}

\* The lines of a batch that do not parse, and those that are dead-lettered:
\* the first of them only (batch.rejects[:100]).
BadLines(b) == {b} \X (1..Rejected[b[2]])

Published(b) == {l \in BadLines(b) : l[2] <= RejectLimit}

\* A file that was moved away: its name, the number that was put after the
\* name (0 for none), its content.
Copies == Names \X (0..MaxSecond) \X Contents

VARIABLES
    feed,         \* the feed the adapter works for (never changes)
    arrived,      \* the batches delivered so far
    arrivals,     \* how many deliveries there have been
    landing,      \* directory: name -> content, or None
    archive,      \* directory: the copies it holds
    quarantine,   \* directory: the copies it holds
    ledger,       \* store: the batches recorded
    bus,          \* broker: the records of the feed's topic
    passes,       \* how often each batch was put on the bus, wholly or partly
    manifests,    \* broker: the batches with a manifest
    dlq,          \* broker: the rejected lines that are dead-lettered
    pc,           \* where the process is
    todo,         \* memory: the names discovered and not yet looked at
    cur,          \* memory: the name of the file being processed, or 0
    faults,       \* how many faults there have been
    second,       \* the clock, in seconds
    moved         \* history: the batches moved away, and when

directories == <<landing, archive, quarantine>>
outputs == <<ledger, bus, passes, manifests, dlq>>
world == <<feed, arrived, arrivals>>
time == <<second, moved>>
vars == <<feed, arrived, arrivals, landing, archive, quarantine, ledger, bus,
          passes, manifests, dlq, pc, todo, cur, faults, second, moved>>

Stages == {"down", "scan", "check", "produce", "manifest", "record", "rejects",
           "archive", "quarantine"}

Waiting == {n \in Names : landing[n] # None}

\* The batch being processed.
Current == <<cur, landing[cur]>>

Init ==
    /\ feed \in Feeds
    /\ arrived = {}
    /\ arrivals = 0
    /\ landing = [n \in Names |-> None]
    /\ archive = {}
    /\ quarantine = {}
    /\ ledger = {}
    /\ bus = {}
    /\ passes = [b \in Batches |-> 0]
    /\ manifests = {}
    /\ dlq = {}
    /\ pc = "down"
    /\ todo = {}
    /\ cur = 0
    /\ faults = 0
    /\ second = 1
    /\ moved = {}
-----------------------------------------------------------------------------
\* The upstream writer renames a finished file to its name.
Arrive ==
    /\ arrivals < MaxArrivals
    /\ arrivals' = arrivals + 1
    /\ \E n \in Names \ Waiting, c \in Contents :
          /\ landing' = [landing EXCEPT ![n] = c]
          /\ arrived' = arrived \cup {<<n, c>>}
    /\ UNCHANGED <<feed, archive, quarantine, outputs, pc, todo, cur, faults, time>>

Start ==
    /\ pc = "down"
    /\ pc' = "scan"
    /\ UNCHANGED <<world, directories, outputs, todo, cur, faults, time>>

\* discover: the files there are now.  An empty directory is looked at again.
Scan ==
    /\ pc = "scan"
    /\ Waiting # {}
    /\ todo' = Waiting
    /\ pc' = "check"
    /\ UNCHANGED <<world, directories, outputs, cur, faults, time>>

\* Every file discovered has been processed.
PassEnds ==
    /\ pc = "check"
    /\ todo = {}
    /\ pc' = "scan"
    /\ UNCHANGED <<world, directories, outputs, todo, cur, faults, time>>

\* Mutation: the lookup compares nothing, or records the batch at once.
CheckWithoutLedger ==
    /\ pc = "check"
    /\ \E n \in todo :
          /\ todo' = todo \ {n}
          /\ cur' = n
          /\ pc' = IF Good(<<n, landing[n]>>) THEN "produce" ELSE "manifest"
    /\ UNCHANGED <<world, directories, outputs, faults, time>>

CheckRecordsFirst ==
    /\ pc = "check"
    /\ \E n \in todo :
          /\ todo' = todo \ {n}
          /\ cur' = n
          /\ ledger' = ledger \cup {<<n, landing[n]>>}
          /\ pc' = IF <<n, landing[n]>> \in ledger THEN "archive" ELSE "produce"
    /\ UNCHANGED <<world, directories, bus, passes, manifests, dlq, faults, time>>

\* The next file, in the order of the names: identify it, look it up in the
\* ledger, and verify it unless it was seen before.
Check ==
    /\ pc = "check"
    /\ \E n \in todo :
          /\ \A other \in todo : n <= other
          /\ todo' = todo \ {n}
          /\ cur' = n
          /\ LET b == <<n, landing[n]>> IN
             \/ b \in ledger /\ pc' = "archive"
             \/ b \notin ledger /\ Good(b) /\ pc' = "produce"
             \/ b \notin ledger /\ ~Good(b) /\ feed = "custody" /\ pc' = "manifest"
    /\ UNCHANGED <<world, directories, outputs, faults, time>>

\* Mutation: the parser raises for either feed.
AnyParseRaises ==
    /\ pc = "check"
    /\ \E n \in todo : <<n, landing[n]>> \notin ledger /\ ~Good(<<n, landing[n]>>)
    /\ pc' = "down"
    /\ todo' = {}
    /\ UNCHANGED <<world, directories, outputs, cur, faults, time>>

\* The parser of the cash feed raises, and the exception ends the process.
ParseRaises ==
    /\ pc = "check"
    /\ feed = "cash"
    /\ \E n \in todo :
          /\ \A other \in todo : n <= other
          /\ <<n, landing[n]>> \notin ledger
          /\ ~Good(<<n, landing[n]>>)
    /\ pc' = "down"
    /\ todo' = {}
    /\ UNCHANGED <<world, directories, outputs, cur, faults, time>>

\* Mutation: the flush does not tell of deliveries that failed.
ProduceUnchecked ==
    /\ pc = "produce"
    /\ \E some \in SUBSET Details(Current) : bus' = bus \cup some
    /\ passes' = [passes EXCEPT ![Current] = @ + 1]
    /\ pc' = IF feed = "custody" THEN "manifest" ELSE "record"
    /\ UNCHANGED <<world, directories, ledger, manifests, dlq, todo, cur, faults, time>>

\* Produce the details and flush: every one of them is delivered.
Produce ==
    /\ pc = "produce"
    /\ bus' = bus \cup Details(Current)
    /\ passes' = [passes EXCEPT ![Current] = @ + 1]
    /\ pc' = IF feed = "custody" THEN "manifest" ELSE "record"
    /\ UNCHANGED <<world, directories, ledger, manifests, dlq, todo, cur, faults, time>>

EmitManifest ==
    /\ pc = "manifest"
    /\ manifests' = manifests \cup {Current}
    /\ pc' = "record"
    /\ UNCHANGED <<world, directories, ledger, bus, passes, dlq, todo, cur, faults, time>>

\* record_batch
RecordBatch ==
    /\ pc = "record"
    /\ ledger' = ledger \cup {Current}
    /\ pc' = IF Good(Current) THEN "archive" ELSE "rejects"
    /\ UNCHANGED <<world, directories, bus, passes, manifests, dlq, todo, cur,
                   faults, time>>

\* Dead-letter the lines that did not parse, and flush.
PublishRejects ==
    /\ pc = "rejects"
    /\ dlq' = dlq \cup Published(Current)
    /\ pc' = "quarantine"
    /\ UNCHANGED <<world, directories, ledger, bus, passes, manifests, todo, cur,
                   faults, time>>

\* The flush is over with lines undelivered; nobody looks, and the file goes
\* its way.  A line that is delivered later is counted as delivered now.
RejectsUndelivered ==
    /\ pc = "rejects"
    /\ faults < MaxFaults
    /\ faults' = faults + 1
    /\ \E some \in SUBSET Published(Current) : dlq' = dlq \cup some
    /\ pc' = "quarantine"
    /\ UNCHANGED <<world, directories, ledger, bus, passes, manifests, todo, cur, time>>

\* What _move puts after the name of the file: the second, if the directory
\* has a file of that name.
Suffix(dir) == IF \E f \in dir : f[1] = cur /\ f[2] = 0 THEN second ELSE 0

\* The directory with the file in hand.  That its name is free is not checked
\* again, and a file that has it is replaced.
Into(dir, suffix) ==
    {f \in dir : f[1] # cur \/ f[2] # suffix} \cup {<<cur, suffix, landing[cur]>>}

Leaves ==
    /\ landing' = [landing EXCEPT ![cur] = None]
    /\ moved' = moved \cup {<<Current, second>>}
    /\ pc' = "check"
    /\ cur' = 0
    /\ UNCHANGED <<world, outputs, todo, faults, second>>

\* Mutation: every move replaces the file of that name.
ArchiveReplaces ==
    /\ pc = "archive"
    /\ archive' = Into(archive, 0)
    /\ Leaves
    /\ UNCHANGED quarantine

\* The move of the generic adapter replaces a file of that name.
Archive ==
    /\ pc = "archive"
    /\ archive' = Into(archive, IF feed = "custody" THEN Suffix(archive) ELSE 0)
    /\ Leaves
    /\ UNCHANGED quarantine

Quarantine ==
    /\ pc = "quarantine"
    /\ quarantine' = Into(quarantine, Suffix(quarantine))
    /\ Leaves
    /\ UNCHANGED archive
-----------------------------------------------------------------------------
(***************************************************************************)
(* A kill, a refused delivery or a failed write ends the process.  What    *)
(* the broker acknowledged of the call under way stays: any of the details *)
(* being produced or of the rejects, the manifest, or none of it.          *)
(***************************************************************************)
Fault ==
    /\ pc # "down"
    /\ faults < MaxFaults
    /\ faults' = faults + 1
    /\ \/ UNCHANGED outputs
       \/ /\ pc = "produce"
          /\ \E some \in SUBSET Details(Current) : bus' = bus \cup some
          /\ passes' = [passes EXCEPT ![Current] = @ + 1]
          /\ UNCHANGED <<ledger, manifests, dlq>>
       \/ /\ pc = "manifest"
          /\ manifests' = manifests \cup {Current}
          /\ UNCHANGED <<ledger, bus, passes, dlq>>
       \/ /\ pc = "rejects"
          /\ \E some \in SUBSET Published(Current) : dlq' = dlq \cup some
          /\ UNCHANGED <<ledger, bus, passes, manifests>>
    /\ pc' = "down"
    /\ todo' = {}
    /\ cur' = 0
    /\ UNCHANGED <<world, directories, time>>

\* The sink's write_manifests, at any time, any number of times.
SinkRecordsManifest ==
    /\ \E b \in manifests \ ledger : ledger' = ledger \cup {b}
    /\ UNCHANGED <<world, directories, bus, passes, manifests, dlq, pc, todo, cur,
                   faults, time>>

Tick ==
    /\ second < MaxSecond
    /\ second' = second + 1
    /\ UNCHANGED <<world, directories, outputs, pc, todo, cur, faults, moved>>

\* The steps of the adapter when nothing fails.
Work ==
    \/ Start \/ Scan \/ PassEnds \/ Check \/ ParseRaises
    \/ Produce \/ EmitManifest \/ RecordBatch \/ PublishRejects
    \/ Archive \/ Quarantine

Next == Arrive \/ Work \/ RejectsUndelivered \/ Fault \/ SinkRecordsManifest \/ Tick

Spec == Init /\ [][Next]_vars

\* The process is one thread that always runs or is started again.
FairSpec == Spec /\ WF_vars(Work)
-----------------------------------------------------------------------------
TypeOK ==
    /\ feed \in Feeds
    /\ arrived \subseteq Batches
    /\ arrivals \in Nat
    /\ landing \in [Names -> Contents \cup {None}]
    /\ archive \subseteq Copies
    /\ quarantine \subseteq Copies
    /\ ledger \subseteq Batches
    /\ bus \subseteq Records
    /\ passes \in [Batches -> Nat]
    /\ manifests \subseteq Batches
    /\ dlq \subseteq UNION {BadLines(b) : b \in Batches}
    /\ pc \in Stages
    /\ todo \subseteq Names
    /\ cur \in Names \cup {0}
    /\ faults \in Nat
    /\ second \in Seconds
    /\ moved \subseteq Batches \X Seconds

(***************************************************************************)
(* "A manifest event, emitted after the last detail record is confirmed    *)
(* delivered, telling consumers the cycle is closed", and "a batch that    *)
(* does not reconcile never reaches the bus": whoever reads a manifest     *)
(* finds every record of a COMPLETE batch on the bus, and none of a FAILED *)
(* one, whatever failed and was started again before.                      *)
(***************************************************************************)
ManifestClosesTheCycle ==
    \A b \in manifests :
        IF Good(b) THEN Details(b) \subseteq bus ELSE Details(b) \cap bus = {}

(***************************************************************************)
(* No good file leaves the landing directory before all of its records are *)
(* on the bus: neither a fault between two effects nor the ledger, with    *)
(* its second writer, makes the adapter skip a file that is not there yet. *)
(***************************************************************************)
FiledIsOnTheBus ==
    \A b \in arrived :
        Good(b) /\ landing[b[1]] # b[2] => Details(b) \subseteq bus

(***************************************************************************)
(* "The same bytes arriving twice must not double-produce": a batch goes   *)
(* to the bus once, and once more at most for each fault, however often it *)
(* is delivered.                                                           *)
(***************************************************************************)
OneProductionPerFault == \A b \in Batches : passes[b] <= 1 + faults

\* The batches whose files are in one of the three directories.
Kept ==
    {<<n, landing[n]>> : n \in Waiting} \cup {<<f[1], f[3]>> : f \in archive \cup quarantine}

\* Files of the name and of other contents were moved away in one second.
SharesItsSecond(b) ==
    \E s \in Seconds, c \in Contents \ {b[2]} : <<b, s>> \in moved /\ <<<<b[1], c>>, s>> \in moved

(***************************************************************************)
(* "Keep both rather than overwrite evidence of an earlier delivery":      *)
(* every custody file ever delivered is in one of the three directories,   *)
(* however often its name is used again, unless another file of its name   *)
(* was moved in the very second it was moved in.                           *)
(***************************************************************************)
EvidenceIsKept == feed = "custody" => \A b \in arrived \ Kept : SharesItsSecond(b)

(***************************************************************************)
(* The same as the comment of _move says it, without a condition.          *)
(***************************************************************************)
NothingIsOverwritten == feed = "custody" => arrived \subseteq Kept

(***************************************************************************)
(* Every custody file that is delivered leaves the landing directory: no   *)
(* content, good or bad, holds up those behind it.                         *)
(***************************************************************************)
EveryDeliverySettles ==
    \A n \in Names :
        (feed = "custody" /\ landing[n] # None) ~> landing[n] = None

(***************************************************************************)
(* "The individual bad lines go to the DLQ so they are recoverable": when  *)
(* a custody file has left the landing directory, all of its bad lines are *)
(* dead-lettered.                                                          *)
(***************************************************************************)
RejectsAreRecoverable ==
    feed = "custody" =>
        \A b \in arrived : landing[b[1]] # b[2] => BadLines(b) \subseteq dlq

(***************************************************************************)
(* What does hold of them, and only of the first RejectLimit lines of each *)
(* file, as the others are never published: a kill, a failed call or an    *)
(* undelivered flush loses lines of one file at the most, whenever it      *)
(* comes, whatever is delivered again after it and whoever writes the      *)
(* ledger.                                                                 *)
(***************************************************************************)
LostRejects ==
    {b \in arrived : landing[b[1]] # b[2] /\ ~(Published(b) \subseteq dlq)}

RejectsLostPerFault ==
    feed = "custody" => IsFiniteSet(LostRejects) /\ Cardinality(LostRejects) <= faults
-----------------------------------------------------------------------------
(***************************************************************************)
(* The inductive invariant.                                                *)
(***************************************************************************)
\* At the stages past the lookup there is a file in hand, and its verdict is
\* the one that leads to the stage.
StageInv ==
    /\ cur # 0 => landing[cur] # None
    /\ pc \in {"produce", "manifest", "record", "rejects", "archive", "quarantine"} => cur # 0
    /\ todo \subseteq Waiting \ {cur}
    /\ pc \in {"down", "scan", "check"} => cur = 0
    /\ pc \in {"down", "scan"} => todo = {}
    /\ pc = "produce" => Good(Current)
    /\ pc \in {"rejects", "quarantine"} => ~Good(Current)
    /\ pc \in {"manifest", "record"} /\ feed = "cash" => Good(Current)

\* Only good batches are produced, and the manifest, the ledger and the
\* archive come after the records.
OrderInv ==
    /\ \A r \in bus : Good(r[1])
    /\ \A b \in manifests \cup ledger : Good(b) => Details(b) \subseteq bus
    /\ pc \in {"manifest", "record", "archive"} /\ Good(Current) => Details(Current) \subseteq bus

\* What is in hand was produced in this life, what is not was cut short by a
\* fault or is in the ledger.
PassInv ==
    \A b \in Batches :
        /\ passes[b] <= 1 + faults
        /\ \/ b \in ledger
           \/ passes[b] <= faults
           \/ pc \in {"manifest", "record"} /\ b = Current
        /\ pc = "produce" /\ b = Current => passes[b] <= faults

\* The number after a name is the second the file was moved in.
CopyInv ==
    \A f \in archive \cup quarantine : f[2] # 0 => <<<<f[1], f[3]>>, f[2]>> \in moved

IInv ==
    /\ TypeOK
    /\ StageInv
    /\ OrderInv
    /\ PassInv
    /\ FiledIsOnTheBus
    /\ CopyInv
    /\ EvidenceIsKept

\* The files with rejected lines that are known to the ledger, or will be from
\* their manifest, with their lines neither dead-lettered nor in hand.
Unsettled ==
    {b \in manifests \cup ledger :
        /\ ~(Published(b) \subseteq dlq)
        /\ ~(pc \in {"manifest", "record", "rejects"} /\ b = Current)}

\* A file that left the landing directory is in the ledger.
LossInv ==
    /\ \A b \in arrived : landing[b[1]] # b[2] => b \in ledger
    /\ pc \in {"rejects", "archive", "quarantine"} => Current \in ledger
    /\ IsFiniteSet(Unsettled) /\ Cardinality(Unsettled) <= faults
=============================================================================
