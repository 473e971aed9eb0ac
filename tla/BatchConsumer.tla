---------------------------- MODULE BatchConsumer ----------------------------
(***************************************************************************)
(* One consumer process of ods_ingest.bus.consumer: poll, decode, hand the *)
(* batch to a handler, retry record by record when the handler raises,     *)
(* dead-letter what still fails, flush the dead-letter producer, commit.   *)
(* Beside it live the three things it talks to: the broker (the log, the   *)
(* group's committed offsets, the dead-letter topic), the store (the       *)
(* documents landed and the dead-letter counter of ingest_state) and the   *)
(* supervisor that starts the process again after it has ended.            *)
(*                                                                         *)
(* The log is written before the consumer starts (auto.offset.reset is     *)
(* "earliest"), so a poll that returns some of it, or none of it yet, is   *)
(* also a poll of a log that is still growing.  Records within one poll    *)
(* are handled in any order: nothing here depends on theirs.               *)
(***************************************************************************)
EXTENDS Integers, FiniteSets

CONSTANTS
    Partitions,       \* the partitions of the subscribed topics
    LogLen,           \* records in each partition
    Contents,         \* the contents the log may have: Records -> Kinds
    BatchSize,        \* CONSUMER_BATCH_SIZE
    MaxLives,         \* bound: kills and interrupts end at most MaxLives - 1 lives
    MaxStoreFaults,   \* bound: failed calls to the store
    MaxBrokerFaults   \* bound: dead-letter deliveries lost, and flushes timed out

Records == Partitions \X (1..LogLen)

(***************************************************************************)
(* good: the handler writes it.  poison: it decodes, and the handler       *)
(* raises on it.  garbage: it does not decode.  tombstone: a null value.   *)
(***************************************************************************)
Kinds == {"good", "poison", "garbage", "tombstone"}

ASSUME ConstantsAssumption ==
    /\ LogLen \in Nat
    /\ Contents \subseteq [Records -> Kinds]
    /\ BatchSize \in Nat \ {0}
    /\ MaxLives \in Nat \ {0}
    /\ MaxStoreFaults \in Nat
    /\ MaxBrokerFaults \in Nat

VARIABLES
    kind,          \* the log: what each record is (never changes)
    committed,     \* broker: offsets committed by the group
    dlqTopic,      \* broker: the dead-letter topic, with what each entry holds
    landed,        \* store: records whose documents are written
    counts,        \* store: how often record_dlq counted each record
    pc,            \* where the process is
    position,      \* memory: the consumer's position in each partition
    fetched,       \* memory: messages of this poll not decoded yet
    batch,         \* memory: decoded records not handled yet
    inflight,      \* memory: dead-letter entries queued in the producer
    lives,         \* how many times the process has been started
    storeFaults, brokerFaults  \* how many faults there have been

memory == <<pc, position, fetched, batch>>
environment == <<lives, storeFaults, brokerFaults>>
vars == <<kind, committed, dlqTopic, landed, counts, pc, position, fetched,
          batch, inflight, lives, storeFaults, brokerFaults>>

Positions == [Partitions -> 0..LogLen]

\* A dead-letter entry: the record it stands for, and the value it carries:
\* the record's original bytes, or none.
Entries == [rec : Records, value : {"original", "null"}]

Stages == {"down", "poll", "decode", "handle", "retry", "flush", "commit", "closing"}

Running == pc \notin {"down", "closing"}

OfKind(k) == {r \in Records : kind[r] = k}

\* The records between the position and the positions c.
Between(c) == {r \in Records : position[r[1]] < r[2] /\ r[2] <= c[r[1]]}

StoreMayFail == storeFaults < MaxStoreFaults
BrokerMayFail == brokerFaults < MaxBrokerFaults
-----------------------------------------------------------------------------
Init ==
    /\ kind \in Contents
    /\ committed = [p \in Partitions |-> 0]
    /\ dlqTopic = {}
    /\ landed = {}
    /\ counts = [r \in Records |-> 0]
    /\ pc = "down"
    /\ position = committed
    /\ fetched = {}
    /\ batch = {}
    /\ inflight = {}
    /\ lives = 0
    /\ storeFaults = 0
    /\ brokerFaults = 0

\* The process starts with a new consumer, which resumes from the offsets
\* the group committed.
Start ==
    /\ pc = "down"
    /\ pc' = "poll"
    /\ position' = committed
    /\ lives' = lives + 1
    /\ UNCHANGED <<kind, committed, dlqTopic, landed, counts, fetched, batch,
                   inflight, storeFaults, brokerFaults>>

\* Mutation: enable.auto.commit acknowledges what a poll returns.
PollAutoCommits ==
    /\ pc = "poll"
    /\ \E c \in Positions :
          /\ \A p \in Partitions : position[p] <= c[p]
          /\ Between(c) # {}
          /\ Cardinality(Between(c)) <= BatchSize
          /\ fetched' = Between(c)
          /\ position' = c
          /\ committed' = c
    /\ pc' = "decode"
    /\ UNCHANGED <<kind, dlqTopic, landed, counts, batch, inflight, environment>>

\* consume(): up to BatchSize messages.  A poll that returns none leaves
\* everything as it is.
Poll ==
    /\ pc = "poll"
    /\ \E c \in Positions :
          /\ \A p \in Partitions : position[p] <= c[p]
          /\ Between(c) # {}
          /\ Cardinality(Between(c)) <= BatchSize
          /\ fetched' = Between(c)
          /\ position' = c
    /\ pc' = "decode"
    /\ UNCHANGED <<kind, committed, dlqTopic, landed, counts, batch, inflight,
                   environment>>

\* A message that decodes joins the batch.
DecodeRecord ==
    /\ pc = "decode"
    /\ \E r \in fetched :
          /\ kind[r] \in {"good", "poison"}
          /\ fetched' = fetched \ {r}
          /\ batch' = batch \cup {r}
    /\ UNCHANGED <<kind, committed, dlqTopic, landed, counts, pc, position,
                   inflight, environment>>

\* A tombstone is dropped.
DropTombstone ==
    /\ pc = "decode"
    /\ \E r \in fetched :
          /\ kind[r] = "tombstone"
          /\ fetched' = fetched \ {r}
    /\ UNCHANGED <<kind, committed, dlqTopic, landed, counts, pc, position,
                   batch, inflight, environment>>

\* DlqPublisher.publish: queue the entry in the producer, then count it in
\* the store.  When the store fails, the exception ends the process.
Publish(r, value) ==
    /\ inflight' = inflight \cup {[rec |-> r, value |-> value]}
    /\ counts' = [counts EXCEPT ![r] = @ + 1]

PublishFails(r, value) ==
    /\ StoreMayFail
    /\ storeFaults' = storeFaults + 1
    /\ inflight' = inflight \cup {[rec |-> r, value |-> value]}
    /\ pc' = "closing"
    /\ fetched' = {}
    /\ batch' = {}
    /\ UNCHANGED <<kind, committed, dlqTopic, counts, position, lives,
                   brokerFaults>>

\* A message that does not decode is dead-lettered with its bytes.
DeadLetterGarbage ==
    /\ pc = "decode"
    /\ \E r \in fetched :
          /\ kind[r] = "garbage"
          /\ Publish(r, "original")
          /\ fetched' = fetched \ {r}
    /\ UNCHANGED <<kind, committed, dlqTopic, landed, pc, position, batch,
                   environment>>

DeadLetterGarbageFails ==
    /\ pc = "decode"
    /\ \E r \in fetched : kind[r] = "garbage" /\ PublishFails(r, "original")
    /\ UNCHANGED landed

\* The poll is decoded.  An empty batch goes back to polling: nothing is
\* flushed and nothing is committed.
Decoded ==
    /\ pc = "decode"
    /\ fetched = {}
    /\ pc' = IF batch = {} THEN "poll" ELSE "handle"
    /\ UNCHANGED <<kind, committed, dlqTopic, landed, counts, position, fetched,
                   batch, inflight, environment>>

\* handler(batch) returns: every record of the batch is written.
HandleBatch ==
    /\ pc = "handle"
    /\ batch \cap OfKind("poison") = {}
    /\ landed' = landed \cup batch
    /\ batch' = {}
    /\ pc' = "flush"
    /\ UNCHANGED <<kind, committed, dlqTopic, counts, position, fetched,
                   inflight, environment>>

\* Mutation: the batch is given up without a retry.
BatchFailureSwallowed ==
    /\ pc = "handle"
    /\ batch \cap OfKind("poison") # {}
    /\ batch' = {}
    /\ pc' = "flush"
    /\ UNCHANGED <<kind, committed, dlqTopic, landed, counts, position, fetched,
                   inflight, environment>>

\* Mutation: a failed batch is dead-lettered as a whole.
BatchDeadLettered ==
    /\ pc = "handle"
    /\ batch \cap OfKind("poison") # {}
    /\ inflight' = inflight \cup {[rec |-> r, value |-> "null"] : r \in batch}
    /\ counts' = [r \in Records |-> IF r \in batch THEN counts[r] + 1 ELSE counts[r]]
    /\ batch' = {}
    /\ pc' = "flush"
    /\ UNCHANGED <<kind, committed, dlqTopic, landed, position, fetched, environment>>

\* handler(batch) raises, on a poison record or because the store fails; it
\* may have written any of the others by then.
HandleBatchFails ==
    /\ pc = "handle"
    /\ \/ /\ batch \cap OfKind("poison") # {}
          /\ UNCHANGED storeFaults
       \/ /\ StoreMayFail
          /\ storeFaults' = storeFaults + 1
    /\ \E written \in SUBSET (batch \ OfKind("poison")) :
          landed' = landed \cup written
    /\ pc' = "retry"
    /\ UNCHANGED <<kind, committed, dlqTopic, counts, position, fetched, batch,
                   inflight, lives, brokerFaults>>

\* handler([record]) returns.
RetryRecord ==
    /\ pc = "retry"
    /\ \E r \in batch \ OfKind("poison") :
          /\ landed' = landed \cup {r}
          /\ batch' = batch \ {r}
    /\ UNCHANGED <<kind, committed, dlqTopic, counts, pc, position, fetched,
                   inflight, environment>>

\* Mutation: a record that fails stays in the batch until it succeeds.
RetryUntilItSucceeds ==
    /\ pc = "retry"
    /\ \E r \in batch :
          /\ kind[r] = "good"
          /\ StoreMayFail
          /\ storeFaults' = storeFaults + 1
          /\ landed' \in {landed, landed \cup {r}}
    /\ UNCHANGED <<kind, committed, dlqTopic, counts, pc, position, fetched,
                   batch, inflight, lives, brokerFaults>>

\* handler([record]) raises: the record is dead-lettered without its bytes.
\* A handler that failed in its last call to the store has written its
\* document already.
RetryRecordFails ==
    /\ pc = "retry"
    /\ \E r \in batch :
          /\ \/ kind[r] = "poison" /\ UNCHANGED <<landed, storeFaults>>
             \/ /\ kind[r] = "good"
                /\ StoreMayFail
                /\ storeFaults' = storeFaults + 1
                /\ landed' \in {landed, landed \cup {r}}
          /\ Publish(r, "null")
          /\ batch' = batch \ {r}
    /\ UNCHANGED <<kind, committed, dlqTopic, pc, position, fetched, lives,
                   brokerFaults>>

\* The handler raises and the counter cannot be written either.
RetryRecordDies ==
    /\ pc = "retry"
    /\ \E r \in batch :
          /\ \/ kind[r] = "poison" /\ UNCHANGED landed
             \/ kind[r] = "good" /\ landed' \in {landed, landed \cup {r}}
          /\ PublishFails(r, "null")

Retried ==
    /\ pc = "retry"
    /\ batch = {}
    /\ pc' = "flush"
    /\ UNCHANGED <<kind, committed, dlqTopic, landed, counts, position, fetched,
                   batch, inflight, environment>>

\* Mutation: no flush before the commit.
FlushSkipped ==
    /\ pc = "flush"
    /\ pc' = "commit"
    /\ UNCHANGED <<kind, committed, dlqTopic, landed, counts, position, fetched,
                   batch, inflight, environment>>

\* flush(10.0) returns when the queue is empty, and when the time is up.
Flush ==
    /\ pc = "flush"
    /\ \/ inflight = {} /\ UNCHANGED brokerFaults
       \/ /\ inflight # {}
          /\ BrokerMayFail
          /\ brokerFaults' = brokerFaults + 1
    /\ pc' = "commit"
    /\ UNCHANGED <<kind, committed, dlqTopic, landed, counts, position, fetched,
                   batch, inflight, lives, storeFaults>>

\* commit() acknowledges the position of every partition.
Commit ==
    /\ pc = "commit"
    /\ committed' = position
    /\ pc' = "poll"
    /\ UNCHANGED <<kind, dlqTopic, landed, counts, position, fetched, batch,
                   inflight, environment>>
-----------------------------------------------------------------------------
\* The producer's own thread delivers a queued entry, or gives it up: no
\* delivery callback is registered, so nobody hears of it.
Deliver ==
    /\ \E e \in inflight :
          /\ inflight' = inflight \ {e}
          /\ dlqTopic' = dlqTopic \cup {e}
    /\ UNCHANGED <<kind, committed, landed, counts, memory, environment>>

LoseDelivery ==
    /\ BrokerMayFail
    /\ brokerFaults' = brokerFaults + 1
    /\ \E e \in inflight : inflight' = inflight \ {e}
    /\ UNCHANGED <<kind, committed, dlqTopic, landed, counts, memory, lives,
                   storeFaults>>

\* Ctrl-C, an error event of the broker, a commit it refuses, or the end of
\* a drain: the loop is left and close() runs.
Interrupt ==
    /\ Running
    /\ lives < MaxLives
    /\ pc' = "closing"
    /\ fetched' = {}
    /\ batch' = {}
    /\ UNCHANGED <<kind, committed, dlqTopic, landed, counts, position,
                   inflight, environment>>

\* close(): flush once more, then leave the group; nothing is committed.
Close ==
    /\ pc = "closing"
    /\ \/ inflight = {} /\ UNCHANGED <<inflight, brokerFaults>>
       \/ /\ inflight # {}
          /\ BrokerMayFail
          /\ brokerFaults' = brokerFaults + 1
          /\ inflight' = {}
    /\ pc' = "down"
    /\ UNCHANGED <<kind, committed, dlqTopic, landed, counts, position, fetched,
                   batch, lives, storeFaults>>

\* The process is killed, possibly inside the handler, where any of the
\* batch may have been written.
Crash ==
    /\ pc # "down"
    /\ lives < MaxLives
    /\ \E written \in SUBSET (batch \ OfKind("poison")) :
          /\ pc \notin {"handle", "retry"} => written = {}
          /\ landed' = landed \cup written
    /\ pc' = "down"
    /\ fetched' = {}
    /\ batch' = {}
    /\ inflight' = {}
    /\ UNCHANGED <<kind, committed, dlqTopic, counts, position, environment>>
-----------------------------------------------------------------------------
\* The steps of the process itself, without the ones a fault makes.
Work ==
    \/ Start \/ Poll
    \/ DecodeRecord \/ DropTombstone \/ DeadLetterGarbage \/ Decoded
    \/ HandleBatch
    \/ RetryRecord \/ RetryRecordFails \/ Retried
    \/ Flush \/ Commit \/ Close

Next ==
    \/ Work
    \/ HandleBatchFails
    \/ DeadLetterGarbageFails \/ RetryRecordDies
    \/ Deliver \/ LoseDelivery
    \/ Interrupt \/ Crash

Spec == Init /\ [][Next]_vars

(***************************************************************************)
(* The process is one thread that never waits on a condition of its own,   *)
(* so it takes its next step unless it is killed; a handler that is called *)
(* returns or raises; the supervisor starts it again; the producer's       *)
(* thread delivers what is queued.                                         *)
(***************************************************************************)
Fairness ==
    /\ WF_vars(Work \/ HandleBatchFails)
    /\ WF_vars(Deliver)

FairSpec == Spec /\ Fairness
-----------------------------------------------------------------------------
\* The records of the log below the positions c.
Covered(c) == {r \in Records : r[2] <= c[r[1]]}

\* Written, or counted as dead-lettered.
Accounted == landed \cup {r \in Records : counts[r] > 0}

\* Recoverable from the store or from the dead-letter topic.
Durable == landed \cup {e.rec : e \in dlqTopic}

TypeOK ==
    /\ kind \in [Records -> Kinds]
    /\ committed \in Positions
    /\ dlqTopic \subseteq Entries
    /\ landed \subseteq Records
    /\ counts \in [Records -> Nat]
    /\ pc \in Stages
    /\ position \in Positions
    /\ fetched \subseteq Records
    /\ batch \subseteq Records
    /\ inflight \subseteq Entries
    /\ lives \in Nat
    /\ storeFaults \in Nat
    /\ brokerFaults \in Nat

(***************************************************************************)
(* "Offsets are committed only AFTER the handler's write returns, so a     *)
(* crash replays the batch rather than losing it": whatever the kills, the *)
(* store failures and the order of the retries, an offset the group has    *)
(* committed covers only records that are written, counted in              *)
(* ingest_state as dead-lettered, or tombstones.                           *)
(***************************************************************************)
CommittedIsAccounted ==
    Covered(committed) \subseteq Accounted \cup OfKind("tombstone")

(***************************************************************************)
(* A dead-lettered record "must not vanish": as long as the broker loses   *)
(* no dead-letter entry, a committed record is in the store or its entry   *)
(* is in the dead-letter topic; flush() stands between the producer's      *)
(* queue and the commit.                                                   *)
(***************************************************************************)
EvidenceSurvives ==
    brokerFaults = 0 => Covered(committed) \subseteq Durable \cup OfKind("tombstone")

(***************************************************************************)
(* "A single bad record costs one record, not the whole batch": while no   *)
(* call to the store has failed, a record that decodes and that the        *)
(* handler accepts is never dead-lettered, in whatever company it came.    *)
(***************************************************************************)
PoisonCostsOneRecord ==
    storeFaults = 0 => \A r \in OfKind("good") : counts[r] = 0

(***************************************************************************)
(* A life of the process dead-letters a record at most once, so replays    *)
(* are the only thing that makes the counter of ingest_state exceed the    *)
(* number of poisoned records, by at most one per restart.                 *)
(***************************************************************************)
OneCountPerLife == \A r \in Records : counts[r] <= lives

(***************************************************************************)
(* "A poisoned record must not stall a feed": every record of the log is   *)
(* settled in the end, whatever is before it.                              *)
(***************************************************************************)
FeedNeverStalls ==
    <>(Records \subseteq Accounted \cup OfKind("tombstone"))

(***************************************************************************)
(* "The DLQ topic holds the original bytes", says record_dlq of every      *)
(* dead-lettered record.                                                   *)
(***************************************************************************)
DlqHoldsOriginalBytes == \A e \in dlqTopic : e.value = "original"

(***************************************************************************)
(* The consumer does what AtLeastOnce promises, a record being settled     *)
(* when it is accounted for and ignored when it is a tombstone.            *)
(***************************************************************************)
ALO == INSTANCE AtLeastOnce WITH
          settled <- Accounted, ignored <- OfKind("tombstone")

ImplementsAtLeastOnce == ALO!Spec
-----------------------------------------------------------------------------
(***************************************************************************)
(* The inductive invariant.                                                *)
(***************************************************************************)
\* Which of the two working sets may be non-empty at each stage.
StageInv ==
    /\ pc \in {"down", "closing", "poll", "flush", "commit"} => batch = {}
    /\ pc # "decode" => fetched = {}
    /\ pc = "down" => inflight = {}

\* What is in hand was passed by the position, and decoded if in the batch.
PendingInv ==
    /\ Running => fetched \cup batch \subseteq Covered(position)
    /\ batch \subseteq OfKind("good") \cup OfKind("poison")

\* Every record the position has passed is settled or in hand.
PassedInv ==
    Running =>
      /\ \A p \in Partitions : committed[p] <= position[p]
      /\ Covered(position) \subseteq
            Accounted \cup OfKind("tombstone") \cup fetched \cup batch

\* A record still to be handled in this life was not counted in it.
CountInv ==
    /\ OneCountPerLife
    /\ Running => \A r \in Records :
          (r \notin Covered(position) \/ r \in fetched \cup batch) => counts[r] < lives

\* Without broker faults, every record passed is durable, queued or in hand,
\* and nothing is queued when the commit is due.
EvidenceInv ==
    brokerFaults = 0 =>
      /\ Covered(committed) \subseteq Durable \cup OfKind("tombstone")
      /\ Running => Covered(position) \subseteq
            Durable \cup OfKind("tombstone") \cup fetched \cup batch
               \cup {e.rec : e \in inflight}
      /\ pc = "commit" => inflight = {}

IInv ==
    /\ TypeOK
    /\ StageInv
    /\ PendingInv
    /\ PassedInv
    /\ CommittedIsAccounted
    /\ CountInv
    /\ EvidenceInv
=============================================================================
