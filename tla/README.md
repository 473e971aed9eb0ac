# Bank ODS: a verification of the ingestion pipeline and its readers

TLA+ models of the Bank ODS: its write side (`src/src/ods_ingest`), and the parts
of its read side that are more than one query (`src/src/bank_ods/services`). What
TLC checks about them on small instances, and what TLAPS proves about them for
every value of their constants. Paths below are relative to the root of the
repository's sources unless they say otherwise (`bus/consumer.py` is
`src/ods_ingest/bus/consumer.py`).

## 1. The system

Sources (a mainframe that drops files, a CRM database read by Debezium, a vendor
API and its daily snapshot) are turned into records on Kafka topics by
*adapters*. One generic *sink* lands every record in a raw-tier Mongo collection.
*Curation* consumers, each in a group of its own, read the same topics and keep
the semantic collections (`accounts`, `positions`, `securities`,
`cash_balances`). `bank_ods` serves both tiers read-only over REST, GraphQL
and MCP.

```
 custody .dat ─┐                        ┌─ sink ──────> raw_* collections, ledger
 cash .csv ────┤ file adapter           │                  │ (read by CRM and
 vendor API ───┤ poller         Kafka ──┤                  v  cash curation)
 snapshot csv ─┤ snapshot adapter       └─ curation ──> semantic collections
 CRM Postgres ─┘ Debezium                                  │
        all write ingest_state                bank_ods services, transports
```

| Component | State it keeps | Operations | What makes it correct | Hard because of |
|---|---|---|---|---|
| `bus/consumer.py`, `bus/dlq.py` (batch loop, DLQ) | committed offsets, position, batch, queued dead letters, DLQ counter | poll, decode, handle, retry record by record, dead-letter, flush, commit, close | nothing committed is lost; one bad record costs one record; the feed never stalls | crashes between any two steps, a handler that failed half-way, a store or a broker that fails |
| `sink/` | raw documents, ledger copies of manifests | `write_batch` (guarded upserts), `write_manifests` | the raw tier depends on source order, not on arrival | two channels per topic, unordered bulk writes, replays |
| `curation/vendor_securities.py` | `securities.vendorUpdatedAt`, issuer, status | resolve, guard, merge | agrees with the raw tier | undated and removal records |
| `curation/crm_accounts.py` | `accounts` with an embedded client | upsert, close, fan-out, close all; reads the raw tier | converges to the source | two topics without order, a second group that lands what it reads, replays |
| `curation/custody_positions.py` | `positions`; a reference index cached per run | upsert of a cycle | a corrected cycle replaces the first | stale index, corrections |
| `curation/cash_movements.py` | `cash_balances` | recompute a day from the raw tier | the balance is the sum of what was delivered | the raw tier is landed by another group |
| `adapters/file/` | landing, archive and quarantine directories, batch ledger | discover, verify, produce, manifest, record, move | a manifest is true; no file is skipped or overwritten | crashes between effects, second writer of the ledger |
| `adapters/rest_poll/`, `stub_saas/` | watermark | page walk with overlap and retries, flush, advance | no row is skipped | rows that change during the walk, crashes |
| `adapters/snapshot/` | retained index, ledger | sort-merge difference, produce, rewrite the index | the deltas turn the old state into the new | crashes between index, ledger and move; removals |
| `state.py` (`ingest_state`) | watermarks, ledger, heartbeats, DLQ counters | get/set/reset, record | shared by all of the above | concurrent writers |
| `bank_ods/services/pagination.py` | an opaque cursor | seek after the last row | no row skipped or repeated | inserts between pages, equal keys |
| `bank_ods/services/` (lists) | none | a filter, a window of days, a sort | whole days, one order | dates with and without a time of day |
| `bank_ods/services/ops.py` | none | reconciliation, release checks | reports what is there | reads one query after another while ingestion runs |
| `scripts/generate_custody_file.py`, `adapters/file/fixed_width.py`, `batches.py`, `curation/decode.py` | a file in transit | write, damage, parse, verify against the trailer | no damaged file is produced | a format that is written in one place and read in another; totals as wide as their fields |
| REST, GraphQL, MCP | none | delegation to the services | parity of the transports | nothing a model adds to |
| `bus/admin.py`, `schemas/`, `envelope.py`, other `scripts/`, `infra/` | topics, schemas | one-time set-up | configuration | nothing a model adds to |

Interaction is through three shared things only: the broker (logs and committed
offsets), the store (documents and `ingest_state`) and directories. No process
calls another.

## 2. The modules

| Module | Models |
|---|---|
| `AtLeastOnce` | abstract: what a consumer group promises about its log |
| `BatchConsumer` | `BatchConsumer`, `DlqPublisher`, `record_dlq`; refines `AtLeastOnce` |
| `VendorSecurities` | `_write_op`, `write_batch`, `curate_record`: the two tiers of the latest-state feed |
| `FileAdapter` | `CustodyFileAdapter`, `run_generic_file_adapter`, the ledger, `write_manifests` |
| `CustodyFile` | the custody extract: generator, layout, zoned decimals, `parse_custody_file` |
| `CrmCuration` | the CRM change log, its landing, both legs of the CRM curation |
| `RestPoller` | the vendor's listing, the polling loop, the backfill, the watermark |
| `TrueUp` | abstract: what the start-of-day true-up promises of the topic and the index |
| `SnapshotAdapter` | `process_file`, `sort_merge`, the retained index, the ledger, the archive; refines `TrueUp` |
| `CashCuration` | cash movements, their landing, `_recompute` |
| `CustodyCuration` | custody records, their landing, `ReferenceIndex`, the positions |
| `CustodyReconcile` | `reconcile_custody_feed` while `CustodyCuration` runs (it extends it) |
| `KeysetPagination` | cursors, the seek predicate, `paginate`, clients that walk lists |
| `ListServices` | the filters, windows and sorts of the list services |
| `DayLists` | the pagination of the six lists over days, and what they describe |
| `ReleaseChecks` | `run_release_checks` polled while the sink and the curation run |
| `*_proofs` | theorems of the module they extend; `FileAdapter_proofs` of `FileAdapter` and `CustodyFile`, `VendorFeed_proofs` of `RestPoller` and `VendorSecurities`, `ReadServices_proofs` of `KeysetPagination`, `DayLists` and `ReleaseChecks` |
| `MC*` | small instances; a `.cfg` of the same name (without `MC`) is the run |

A model composes several components where they meet in the store or on a topic:
a module has the curation *and* the sink that lands what it reads
(`CrmCuration`, `CashCuration`, `CustodyCuration`), the file adapter and the
sink's second write to its ledger, the reconciliation on top of the custody feed,
the release checks on top of everything whose traces they read, and
`DayLists` joins the pagination with the queries of `ListServices`.

Operators named as mutants in comments are deliberately wrong variants of the
definition they precede; no specification uses them. They show that each
property can fail: with the variant in place TLC reports it violated.

### 2.1 BatchConsumer

One process and what it talks to. `kind` is the log (what each record turns out
to be), `committed` and `dlqTopic` the broker, `landed` and `counts` the store,
`position`, `fetched`, `batch`, `inflight` the memory of the process, and `pc`
where in `_poll_batch`/`_handle_batch` it is. One action per step of the loop:
`Poll`, the four outcomes of `_decode`, `Decoded` (an empty batch is neither
flushed nor committed), `HandleBatch`/`HandleBatchFails` (with any part of the
batch written), the retry, `Flush` (which may time out), `Commit`, `Close`. The
producer's thread (`Deliver`, `LoseDelivery`), `Interrupt` (every exception or
end of loop that leads to `close()`) and `Crash` interleave with all of them.

Properties: `CommittedIsAccounted`, `EvidenceSurvives` (without broker faults),
`PoisonCostsOneRecord` (without store faults),
`FeedNeverStalls`, and `ImplementsAtLeastOnce`, the abstract specification with
`settled <- Accounted` (written or counted) and `ignored <-` the tombstones.

This is the only module with the branch of `_handle_batch` that dead-letters
(`bus/consumer.py:142-152`): the tier and the curation modules below leave it
out, as what it costs a record is shown here.

The conditions are the code's own limits. `flush(10.0)` returns whatever it has
done and nobody looks, so a lost delivery does lose evidence; a store failure
during the retry does dead-letter a good record.

Fairness: the process is one thread that never waits on a condition, and its
supervisor starts it again, so `WF(Work \/ HandleBatchFails)`; the producer has
a thread of its own, `WF(Deliver)`. Kills and interrupts are bounded by
`MaxLives`: without a last life no feed could be expected to make progress.

### 2.2 VendorSecurities

The topic is fed by the poll and by the snapshot, so `log` is any sequence of
dated and undated updates and removals. Each tier has `committed`, `position`
and `pending` (the operations of the unordered bulk write not yet applied);
`Write` applies any of them, atomically per document, as Mongo does;
`WriteFails` repeats the batch, `Restart` resumes from the committed offset. A
tier's document holds the offset it came from, standing for its contents, and
its stamp. In the raw tier a missing stamp is stored as null, which is neither
absent nor less than anything; in the master the field is absent.

Properties: `RawKeepsUp`, `CuratedKeepsUp`, `UndatedNeverDisplaces`,
`TiersAgree`. Three expectations stated by the repository
fail; see section 4.

### 2.3 FileAdapter

Deliveries appear under a name in `landing`; the steps of `process_file` follow:
`Check` (hash, ledger, verification), `Produce` with its flush, `EmitManifest`,
`RecordBatch`, `PublishRejects`, `Archive` or `Quarantine`. The cash feed goes
through the same stages without manifest and quarantine, and `ParseRaises` is
its parser's exception. `Fault` ends the process at any stage and leaves what
the broker had acknowledged by then. The flush of the rejects does not tell of
deliveries that failed (`dlq.py:87-88`): `RejectsUndelivered`, after which the
file goes its way. No more than `RejectLimit` lines of a file are published.
`SinkRecordsManifest` is the ledger's second writer. A batch is a name and a
content (`batch_id_for`); a record is a batch and a position.
`RejectsLostPerFault` says how much of the recovery of bad lines survives
finding 4: of the lines that are published at all, a fault loses those of one
file at the most, an undelivered flush being one.

A directory of files moved away holds `Copies`: a name, what `_move` put after
it, and a content. What it puts there is the current second, which `Tick`
advances at any time, if the name is taken; whether the new name is taken too is
not looked at (`watcher.py:157-160`), so `Into` replaces that file. `EvidenceIsKept`
therefore excepts a file that was moved away in one second with another of its
name, and only such a file; `NothingIsOverwritten` is the comment of `_move`
without the exception, and does not hold (finding 5). `moved` is a history
variable.

Properties: `ManifestClosesTheCycle`, `FiledIsOnTheBus`,
`OneProductionPerFault`, `EvidenceIsKept`, `EveryDeliverySettles`. The last two
are about the custody feed. The generic move replaces a file of the same name in
the archive (`watcher.py:206,228`), and a cash file that does not parse ends the
process at every pass.

Assumed: a delivery does not replace a file that still waits under its name, and
has no name of the form `_move` gives. The interval of `run_forever` between
passes that find nothing is not a bound on anything: the model lets a file be
processed as soon as it is there. A reject the broker acknowledges after the
flush has given up counts as delivered by it.
Fairness: `WF(Work)`, one thread that is started again; deliveries and faults
are bounded by `MaxArrivals` and `MaxFaults`.

### 2.4 CrmCuration

`log` is a whole change log, legal by the keys of the source tables
(`infra/crm/init.sql`): an account's client exists, a client with accounts is
not deleted, and, an assumption of the model, a deleted key is not used again.
`Land` is the sink; `Poll` reads the next events of any rows, because rows are
spread over partitions; `Build` is the read of the raw tier for an account's
write (`latest_client_state`), `Write` the two ordered bulk writes one operation
at a time, `Commit` and `Crash` the consumer. An account document shows its
client, the LSN of the image it embeds (0 for the placeholder) and its status.

`pace` is either "sink first" (a client event is landed before it is curated) or
"any". The promise of convergence holds for the first and not for the second.
The per-record retry of a batch that raised is, for the documents, a crash and
batches of one.

`Unmatched` is what `reconcile_crm_accounts` has to report of such a state. The
service derives what it expects from the last event of the account and the last
name of the client with rules of its own (`Issue`), so `EventuallyMirror` says
both that the collection is the source's mirror in the end and that the report is
then empty.

Properties: `Converges`, `OwnFieldsConverge` (any pace),
`NeverBackToPlaceholder`, `EventuallyMirror`. Fairness: `WF(Land)`,
`WF(CurationNext)`, two processes that always run or are started again; crashes
are bounded.

### 2.5 RestPoller

The vendor is `clock` and `stamp`, the time each record changed last; the
listing, its pages and `has_more` are operators of them (`Rows`, `Page`,
`HasMore`), so that a page is always a slice of what the vendor has *now*. Two
processes sweep: the loop (`run_forever`) and the backfill, which resets the
watermark first (`Reset`). A sweep is `Begin` (read the watermark), `Fetch` per
page, `Flush`, `Advance`; `Retry` and `Refused` are the 429/5xx and the other
answers, `FlushFails` the producer's exception, `Crash` a kill. What was queued
may be delivered in part when a sweep ends early. `Touch` moves a record to
another place of the listing and may stamp it late by up to `Lag`; that `Lag` is
no more than `POLL_OVERLAP_S` is the assumption the overlap stands for.

`disturbed` is a history variable: some sweep had already read a part of the
listing that moved. Page numbers into a list that is re-sorted can then skip a
row, and the guarantee is stated without that case; `RestPoller_shift.cfg` shows
the case (section 4).

Properties: `WatermarkCovers`, `EventuallyDelivered`. Fairness: `WF(Step(p))`
for each process, as `run_forever` loops and a started backfill goes on.

### 2.6 SnapshotAdapter

`landing` holds the extracts, `index` the retained key index, `ledger` the
batches, `topic` the last delta of each key. A run takes the names in order
(`Take`, `Refuse` for a trailer that does not agree) and merges `left` (keys of
the index) with `right` (rows of the file) one key at a time, with the check of
the order in the middle of it (`MergeRaises`); `Flush`, `WriteIndex`,
`RecordBatch`, `Archive` follow in that order, and `Crash` falls between any two
of them. Extracts are whole, truncated, with a key twice, or out of order. Of
the last kind `KeysInOrder` are the keys before the first row that goes back.

What the check of the order protects is those: a row behind the fault is behind
it for the merge too, which has removed its security from the topic before it
comes to the row (finding 10). `RemovedOnlyWhenAbsent` says what does hold, for
every extract: only a whole file removes, and nothing that it has in order.

`spoilt` is a history variable: the keys whose last delta came from a file that
was found out of order only after the delta was queued.

Properties: `MergeIsDifference` (the pure algorithm against the set difference),
`IndexIsTopic`, `RemovedOnlyWhenAbsent`, `EventuallyTaken`. Fairness: `WF(Step)`.

`TrueUp` is the contract without the merge, the queue and the runs. Files are on
offer until they are retired; the topic is told differences between a file on
offer and the index (`Tell`), the index becomes a file when the topic says all
that it changes (`Adopt`), and a file is retired when it is the index (`Retire`).
`SnapshotAdapter` implements it (`ImplementsTrueUp`) with `offered <- Offered`,
the sound files that wait and are not in the ledger: a flush, and any part of it
that survives a fault, is a `Tell` (a `Spoil` if the file is out of order), and
the writes of the index and of the ledger are `Adopt` and `Retire`.

### 2.7 CashCuration

One account and currency; `day[m]` is the date of movement `m`, 0 where a key
field is malformed. `Land` is the sink; `Poll`, `Recompute` (one touched day
after another), `Write` (one upsert of the unordered bulk after another) and
`Commit` the curation; `Crash` and `Replay` (a new group, or offsets reset) fall
in between. End-of-day balances share the key with the intraday ones, so that an
upsert replaces one (`seeded` chooses which days begin with one). `pace` is
"behind" when the curation reads only what is landed.

Properties: `NoDoubleCount`, `Converges`, `ReplayRepairs`, `EventuallyCurated`.
Fairness: `WF(Land)`, `WF(Step)`.

### 2.8 CustodyCuration and CustodyReconcile

Records carry `REC_ID` (the position in a cycle, so that a corrected file
re-uses it), account, identifiers, and whether their values decode. `Land` puts
a record under its `REC_ID`; a run of the curation loads the accounts, then the
securities (`LoadAccounts`, `LoadSecurities`), and works with that index to its
end (`Poll`, `Write`, `Commit`, `Finish`), while `Create` adds reference data.
Records of one account are in order, those of different accounts are not.

Two securities of the master may have one CUSIP, and a record's CUSIP and ISIN
may name two. Which of them a record resolves to can then change when one of
them is created while the curation runs, and the position of an acknowledged
record is then under another security than the one it resolves to: without the
assumption `NoLateRival` TLC finds `AcknowledgedIsCurated` violated. The master
makes ISINs unique (`models/security.py:39`) and not CUSIPs; the assumption says
that a security created *during* the run has no such rival, and leaves those of
the reference data the run began with alone.

`CustodyReconcile` adds the tool: `ReadRaw`, `ReadAccounts`, `ReadSecurities`,
`ReadPositions`, `Report`, each a query of its own, with all of the above in
between. The service has its own copy of the resolution rules
(`ReconciledSecurity`), and so does the model.

Properties: `AcknowledgedIsCurated`, `CorrectionWins`, `NoFalseAlarm`,
`SameReason`.

### 2.9 KeysetPagination and ListServices

A list is a collection, a sort and a set of selected (row, status) pairs; a
cursor is a fingerprint and the sort key of the last row. `Page` is a request
with any limit and with the cursor the client holds for any of its lists, which
all differ in their collection or sort (`PaginationAssumption`), `Refused` the
`INVALID_CURSOR` answer, `Again` a new walk, `Write` an insert or a change of
status between pages. `ListServices` gives the nine lists of `services/` as
filters, windows and sorts. `DayLists` joins the two for the six lists over
days: the query of a list is the one its service makes of the request
(`Answer`), over the documents of the rows (`DocumentAssumption`);
`MCKeysetPagination` gives a few documents and requests. Assumed, as the code is
today: no sort field of a document changes and no pipeline deletes a document.

Properties: `OneOrder`, `Complete`, `WholeDays` (what a list over days returns
is what its description says of whole days), `WalksEnd`. Fairness: a client goes
on with the walks it began.

### 2.10 ReleaseChecks

The store is reduced to what the checks read: `heartbeat` per feed, `dead`,
`filled`, the latest `cycle` with its `records`, `positions`. The sink writes
(`Land`) and then leaves its heartbeat (`RecordSinkProgress`), or dies between
the two (`SinkDies`). The call is a chain of queries (`Ping`, one `Count` per
collection, `ReadCycle`, `Match`, `ReadSinks`, `CompareAges`, `ReadDlq`,
`Report`), each of which may fail (`QueryFails`: the check fails and the next one
is made). Two history variables: `began` remembers what there was when the call
began, and `well` until when an alarm of the call would be a false one: the times
up to which nothing that was there then grows too old (`Well`). A failed query, a
dead letter and a custody record without its position empty it.

Properties: `PassIsEarned` and `AlarmIsEarned`, both of one report. Nothing is
said of a sequence of reports: while the clock runs, a system that is well in
between may answer WARN to every call (a heartbeat that grows too old in each
call and is renewed before the next), and one that is never well may answer PASS
to every call (its troubles taking turns between the queries), so neither "in the
end it says PASS" nor "in the end it does not" is true of the code. No fairness
is needed.

### 2.11 CustodyFile

The generator writes header, details and trailer under a temporary name
(`WriteHeader`, `WriteDetail`, `Publish`, `Die`); `Damage` is one fault of the
transfer: a line lost, doubled or emptied, the file cut off, or one line altered
in its type, length, date or one symbol of a controlled field; `Verify` is
`parse_custody_file` with `_control_error`, and `build_manifest`. Zoned decimals
are symbols and are encoded and decoded as the code does it: `DecimalToZoned`
and `NumberOf` are recursive functions of the position of a digit, and so is the
total of a sequence (`SumOf`). `Lines` says which lines of a type are parsed;
the details are `DetailLines`, what they decode to is `Received`, and of several
headers or trailers the code keeps the last (`LastOf`). The controlled fields are
the trailer's count, quantity and value and the details' quantity and value.

Properties: `FaultsAreSeen` (the accepted details correspond to the positions
sent, one to one and in order), `SoundFileIsTaken`.

## 3. The runs

| Run | Instance | Distinct states | Shows |
|---|---|---|---|
| `batch_consumer` | 2 partitions of 2 records, batch of 2, 2 lives, 1 store and 1 broker fault | 940,599 | all properties of 2.1 |
| `vendor_securities` | 2 securities, stamps 0..2, every log of 3 records, batch of 2 | 978,776 | all properties of 2.2 |
| `vendor_undated` | as above | up to the violation | section 4, first item |
| `file_adapter` | 2 names, 4 contents (two good ones, mismatch, 3 rejects of which 2 are published), 3 deliveries, 2 faults, 2 seconds, both feeds | 840,024 | all properties of 2.3 |
| `crm_curation` | 2 clients, 1 account, 162 histories of 5 changes, batch of 2, 1 crash | 1,052,274 | all properties of 2.4 |
| `rest_poller` | 2 records, a page for each, 3 times, overlap and lag of 1, 1 fault, 1 crash, 1 backfill | 898,917 | all properties of 2.5 |
| `snapshot_adapter` | every population of 2 keys and 2 versions, 2 truncated files, a doubled key, a file out of order, 2 names, 3 deliveries, 1 fault | 592,890 | all properties of 2.6 |
| `cash_curation` | 5 movements (one malformed) of 3 days in 2 orders, end-of-day balances for any of 2 days, batch of 3, 2 crashes, 2 replays | 285,642 | all properties of 2.7 |
| `custody_reconcile` | 4 records, 2 securities of which one is created late, batch of 2, 1 crash, 1 call | 788,488 | all properties of 2.8 |
| `keyset_pagination` | 9 lists in 7 collections, 2 or 3 documents each, pages of 1 and 2, 2 writes | 23,545 | all properties of 2.9 |
| `release_checks` | 2 feeds, 3 collections, times 1..3, ages of 1, 1 dead letter, 1 fault | 595,082 | all properties of 2.10 |
| `custody_file` | up to 3 positions, fields of 2 digits, up to 2 faults | 595,800 | all properties of 2.11 |

Why the bounds are enough for the cases that matter:

- `batch_consumer`: a first partition with every pair of different kinds of
  record, a second with a good and a poisoned one, so batches mix kinds, a poll
  can hold nothing decodable, a crash can fall at every stage of the first life
  and the second replays it. The proofs remove the bounds.
- `vendor_securities`: three records give every order of an undated, an older
  and a newer record, a removal among them, and a batch of two leaves a record
  of the same key for the next poll. The proofs remove the bounds.
- `file_adapter`: three deliveries over two names give a re-delivery, a
  correction under the same name, and a file behind another, three files of one
  name the first overwriting of one; two faults give a fault in the recovery from
  a fault; two seconds are enough for files to share one or not, as only
  the equality of seconds matters. The proofs remove the bounds.
- `crm_curation`: five changes are the shortest log in which an account moves
  from a client to another and the first is deleted (c1, a1, c2, a1 under c2,
  c1 deleted). Only logs in which the account is under each client some time are
  considered; the others are shorter ones with idle changes.
- `rest_poller`: two rows on two pages are enough for a row to move across a
  page boundary behind a sweep; three times give a change that is stamped late
  and one the watermark has passed. The proof of `WatermarkCovers` removes the
  bounds.
- `snapshot_adapter`: two keys give every case of the merge (gone, fresh, both)
  before, between and after each other; three deliveries give a file, a second
  one, and the first again.
- `cash_curation`: a day that is curated before an earlier one, a day split over
  two batches, a day whose balance replaces an end-of-day one, and a replay of a
  replay. Amounts are powers of two, so that a sum tells its terms.
- `custody_reconcile`: a correction under one REC_ID in another batch or in the
  same, a security that comes late, an account that is not a number; one
  call, as calls keep nothing between them.
- `keyset_pagination`: equal dates, so that the tie-breaker decides; instants
  within the first and the last day of a window; pages of one row, so that
  every row is a boundary; two writes between two pages.
- `release_checks`: three times with ages of one give a heartbeat that becomes
  stale during a call, and one that is renewed after it was read. The properties
  are invariants of what happened up to a report: that the clock stops at
  `MaxTime` cuts the behaviours short and decides nothing. The proofs remove the
  bound.
- `custody_file`: three details are the fewest in which a line may be lost
  between others; totals of two digits overflow. Two faults can compensate each
  other, and `FaultsAreSeen` says of two only that the totals of an intact
  trailer hold.

`CHECK_DEADLOCK FALSE` where the model really may stop: the logs, deliveries and
calls are finite, and the processes stop when they are done. `keyset_pagination`,
`release_checks` and `custody_file` never stop, and deadlock is checked there.

The type invariants are theorems (section 5) where a module has proofs; they
were checked as invariants of the runs when the models were written and can be
added to any `.cfg` as `INVARIANT TypeOK` (`PollerTypeOK` in `RestPoller`,
`ChecksTypeOK` in `ReleaseChecks`). Also proved and not part of a run:
`OneCountPerLife` (`BatchConsumer`), `StampsNeverGoBack` (`VendorSecurities`) and
`RejectsLostPerFault` (`FileAdapter`), which hold on the instances of those runs,
and `ImplementsTrueUp`, which `SnapshotAdapter_true_up.cfg` checks on the
instance of `snapshot_adapter` (592,890 states).

Configurations to run by hand. Each checks one expectation that the code does
not meet, on the instance of the module's run or a smaller one, and ends with
TLC's trace of the violation: `tlc -config BatchConsumer_dlq_bytes.cfg
MCBatchConsumer` and so on.

| Configuration | Module | Property |
|---|---|---|
| `BatchConsumer_dlq_bytes.cfg` | `MCBatchConsumer` | `DlqHoldsOriginalBytes` |
| `VendorSecurities.cfg` (the run's), with `INVARIANT RemovalsReachTheMaster` added | `MCVendorSecurities` | `RemovalsReachTheMaster` |
| `VendorSecurities_issuer.cfg` | `MCVendorSecurities` | `IssuerIsNewest` |
| `FileAdapter_rejects.cfg` | `MCFileAdapter` | `RejectsAreRecoverable`, with all lines published |
| `FileAdapter_same_second.cfg` | `MCFileAdapter` | `NothingIsOverwritten`, without faults |
| `CrmCuration_any_order.cfg` | `MCCrmCuration` | `ConvergesInAnyOrder` |
| `CrmCuration_lsn_order.cfg` | `MCCrmCuration` | `NewestClientIsEmbedded` |
| `RestPoller_shift.cfg` | `MCRestPoller` | `NothingSkipped` |
| `SnapshotAdapter_unsorted.cfg` | `MCSnapshotAdapter` | `LiveIsNeverRemoved` |
| `CashCuration_replay.cfg` | `MCCashCuration` | `ReplayIsIdempotent` |
| `CustodyReconcile_skipped.cfg` | `MCCustodyReconcile` | `SkippedIsReported` |

## 4. Where the code and its documents disagree

The first is a regular run; 2 to 12 are shown by the configurations above.

1. **An undated raw document blocks its security** (`vendor_undated`,
   `RawIsNewest`). The sink stores `SRC_UPDATED_AT: null`; the guarded filter
   matches a smaller value or an absent field, never a null, so every dated
   record that follows ends in the ignored duplicate-key error
   (`sink/writer.py:82-92`). With dated records only it cannot happen
   (`RawShowsTheNewest`).
2. **Removals never reach the security master** (`RemovalsReachTheMaster`). The
   removal record has blank identifiers, which curation cannot resolve
   (`adapters/snapshot/securities.py:128-142`, `curation/vendor_securities.py:119-125`;
   against `docs/ARCHITECTURE-ingestion.md:245`).
3. **The issuer depends on arrival order** (`IssuerIsNewest`): a newer record
   without one closes the guard to an older record that has one. Where a blank is
   always made good by a later record it does not (`IssuerFollowsTheNewest`).
4. **Rejected lines can be lost** (`RejectsAreRecoverable`): the ledger is written
   before they are dead-lettered; a fault in between makes the next pass archive
   the file as a re-delivery (`adapters/file/watcher.py:128-142`, `:80-85`). A
   flush that leaves some of them undelivered loses these without a trace
   (`bus/dlq.py:87-88`). It is one file per fault (`RejectsLostPerFault`). Of a
   file with more than a hundred bad lines the others are lost in any case
   (`watcher.py:132`).
5. **Moved files overwrite each other** (`NothingIsOverwritten`): of three
   deliveries under one name the third replaces the second, if both are moved in
   the same second. The suffix is `int(time.time())`, and the name with it is not
   checked again (`watcher.py:157-160`, against the comment at `:158`, "Keep both
   rather than overwrite evidence of an earlier delivery"). After a pass that
   moved something the next one follows without a pause (`:177-178`). Files that do
   not share their second are kept (`EvidenceIsKept`).
6. **Dead-lettered records do not always hold their bytes**
   (`DlqHoldsOriginalBytes`): a record the handler raises on is published with a
   null value (`bus/consumer.py:143-151` against `state.py:149-150`).
7. **CRM convergence depends on the sink** (`ConvergesInAnyOrder`): an account
   event curated while the sink is behind embeds the placeholder or an old image
   for good (`curation/crm_accounts.py:140-152` against `:10-11`).
8. **LSNs are compared as strings** (`NewestClientIsEmbedded`): where the LSN
   gains a digit the "newest" client state is an old one (`crm_accounts.py:150`).
9. **A row can be skipped by a sweep** (`NothingSkipped`): a row that is touched
   while a sweep reads moves the rows behind it forward by one, across a page
   boundary the sweep has passed; the row that crosses it is not read, and the
   watermark goes over it (`adapters/rest_poll/poller.py:144-170`, against the
   first rule of its docstring). The overlap finds the row again only if it
   changed less than the overlap before the watermark.
10. **A file out of order removes live securities**
   (`SnapshotAdapter_unsorted.cfg`): the order is checked while the rows are
   merged, and the deltas queued before the fault is met are delivered when the
   producer's context ends (`adapters/snapshot/diff.py`, `securities.py`).
11. **A replay of the cash movements changes balances** (`ReplayIsIdempotent`):
    the intraday balance of a day takes the place of its end-of-day balance, so
    that a second pass opens the following day from an earlier balance
    (`curation/cash_movements.py:52-54`; `docs/PLAN-ingestion.md:270` expects a
    replay to change nothing). `ReplayRepairs` says what does hold.
12. **A skipped record may be reported as matched** (`SkippedIsReported`): the
    reconciliation does not decode values, and matches a cycle's records against
    positions of any date (`services/ops.py:188-189`, `:224-229`; against
    `curation/resolve.py:7-9`).

Seen while modelling, without a configuration of their own:

- The generic adapter overwrites archived files of the same name although its
  docstring promises "identical batch identity, idempotency, and archiving
  behaviour" (`watcher.py:194-195`, `:206`, `:228`).
- `batches.py:10-11` says a single unparseable record is dead-lettered "while
  the rest of the batch proceeds", while `:137-140` fails the whole batch; only
  a hundred rejects are published (`watcher.py:132`).
- The sink leaves no heartbeat for the topic of manifests (`write_manifests`,
  `writer.py:148-157`), which the freshness check counts as a feed: it is listed
  as never landed for ever. That feed, and any other that never landed while some
  feed did, does not keep the check from passing, although `ops.py:603-604`
  names a feed that stopped among the failures "a release-monitoring agent must
  not miss". `PassIsEarned` speaks of the feeds that had a heartbeat.
- A heartbeat says that a bulk write ran, also when the guards let nothing
  through; and a sink that dies after its first bulk write leaves its feed
  "never landed" until the batch is repeated.
- `positionType` is `SHORT` for negative quantities (`custody_positions.py:88-89`),
  and the extract's unsigned zoned fields are never negative: the writer drops
  the sign.
- The business date of a detail is not compared with the header's cycle, and
  prices, identifiers and dates are under no control total. Several details of
  one account, security and date become one position, so control totals do not
  carry over to the positions.
- Lists that differ only in their filter accept each other's cursors: the
  fingerprint is of the collection and the sort (`docs/ARCHITECTURE.md:657-658`
  says so). A client that mixes those up skips rows of the second list;
  `PaginationAssumption` leaves this case out.
- `find_raw_records` promises the envelope whose `page_info.next_cursor` is there
  "to walk every match" (`services/ops.py:160-161`), and takes no cursor.

## 5. What is proved

All theorems are for every value of the constants, under the named assumptions of
the modules. Most of these only give the constants their sets. The others say:

- the vendor's stamps are late by no more than the overlap (`PollerAssumption`);
- every list has a collection and sort of its own (`PaginationAssumption`), and a
  cursor is not the absence of one (`NullAssumption`);
- a document keeps its dates and owners whatever its status, and the dates are
  instants of a clock that starts at zero (`DocumentAssumption`);
- a security created while the custody curation runs has no rival (`NoLateRival`,
  see 2.8);
- a change log is one the source tables allow, and no two LSNs compare equal
  (`CrmAssumption`, see 2.4).

TLC evaluates all of them in the runs. Three theorems have a hypothesis of their
own, without which they are false; a configuration of section 3, or the run
`vendor_undated`, shows the counterexample of each:

- `MirrorsTheSource` (`CrmCuration`): LSNs compare as strings as they do in the
  source (`RankInOrder`). `CrmCuration_lsn_order.cfg` is the case without.
- `RawShowsTheNewest` (`VendorSecurities`): every record is dated. `vendor_undated`
  is the case without.
- `IssuerFollowsTheNewest` (`VendorSecurities`): an update with a blank issuer is
  older than some update of the security that gives one.
  `VendorSecurities_issuer.cfg` is the case without.

The results, and the argument of each module:

- `BatchConsumer_proofs`. `IInv` says that everything the position has passed is
  settled or in hand (`PassedInv`); without it `CommittedIsAccounted` is not
  inductive, because `Commit` makes the position the commitment. `CountInv`
  strengthens the counter's bound: a record still to be handled in this life has
  not been counted in it. `EvidenceInv` follows an entry from the producer's
  queue to the topic, the queue being empty at the commit. From `IInv`:
  `TypeCorrect`, `NothingCommittedIsLost`, `EvidenceIsKept`, `CountsAreBounded`,
  `PoisonIsIsolated`, and `Refinement`: a step of the consumer is a `Settle`, an
  `Acknowledge` or a stutter of `AtLeastOnce`.
- `VendorFeed_proofs`, of `VendorSecurities`. `IInv` is the type invariant, the
  extent of the bulk write, and the three state invariants together:
  `UndatedNeverDisplaces` is what makes the guard of a stored document speak
  about a record of the log. From it `RawIsUpToDate`, `MasterIsUpToDate`,
  `DatedContentsStay`, `Convergence` (both tiers hold the greatest stamp) and, as
  an action property, `StampsAreMonotone`. `IssuerInv` adds that the master's
  document is of an update and shows the issuer that update gave; with it
  `RawShowsTheNewest` and `IssuerFollowsTheNewest` say when the two refuted
  statements of section 4 hold.
- `VendorFeed_proofs`, of `RestPoller`. `ClockInv`: nobody holds a time ahead of
  the vendor's clock, so a change stamped now is no earlier than any watermark
  less the overlap. `SweepInv` says what a sweep covers at each stage: while it
  reads, the pages behind it; at the end, everything before the highest time it
  has seen. The step of interest is `Touch`, where `~disturbed` keeps the pages
  read what they were, and the last `Fetch`, where the listing has no row beyond
  the pages read. From them `PollerTypeCorrect` and `WatermarkIsSafe`, for two
  sweeps at once.
- `FileAdapter_proofs`. `StageInv` ties the stage to the verdict of the file in
  hand, `OrderInv` says that manifest and ledger come after the records (true of
  both writers of the ledger), `PassInv` that a batch not in the ledger was
  produced no more often than there were faults. From them `ManifestsAreTrue`,
  `NothingIsSkipped`, `ProducedOnce`. `CopyInv` says that what follows a
  name is the second the file was moved in, so that whatever a move replaces
  shares its second: hence `FilesAreKept`. For `RejectsAreRarelyLost`
  (`RejectsLostPerFault`) the files that *are* lost are not inductive: a fault
  between the manifest and the ledger loses nothing yet, and the sink's entry in
  the ledger does later, without a fault. `LossInv` therefore counts `Unsettled`,
  which has a file from its manifest on, unless it is in hand: only a fault adds
  to it, the file in hand.
- `FileAdapter_proofs`, of `CustodyFile`, for extracts of any length and fields of
  any width. `ExtractInv` is simple: a file is what the generator has written so
  far (`Begun`, `Written`), or one fault away from it. The work is in the lemmas.
  Induction over the positions of a sequence is derived from the well-foundedness
  of `<` (`Inductive`), and from it that a function defined by recursion over
  them exists (`Recursion`). Hence `RoundTrip`: a number is read from the field
  it was written in, because the digits read so far are what is left of the
  number without those to come; and what an extra, a framed or a changed entry
  does to a total (`SumOfFramed`, `SumOfChanged`). `OneFault` then goes through
  the faults: a line lost or a detail doubled is seen by the count (`Removed`,
  `Doubled`), a file cut off by the missing trailer, an altered detail by a total
  unless it reads as the same position (`DetailReplaced`), and an extra line that
  is no detail, or an altered header or trailer, leaves the positions as they
  were whatever the verdict (`Inserted`, `FrameReplaced`). From them
  `ExtractTypeCorrect`, `DamageIsSeen`, `SoundExtract`. The part of
  `FaultsAreSeen` that is about any number of faults needs no invariant of the
  file: an accepted file next to an intact trailer has its totals.
- `SnapshotAdapter_proofs`. `RowsInv` and `DeltasInv` are the loop invariant of
  `sort_merge`: the rows merged are in order and make up the new index, and what
  is queued is the difference of the keys already decided. A key is decided
  either behind `last` or, for a key that left, before the row at the head:
  hence the two cases in `DeltasInv`. `OverInv` is what they come to when both
  streams have ended; `HandInv` keeps the file in hand whole and its batch out of
  the ledger until the index is written. `TopicInv` is why a fault loses nothing:
  where the topic and the index differ of a key, a sound file that is not in the
  ledger still says what the topic says. From them `TypeCorrect`,
  `MergeComputesDifference`, `NothingIsMissed` and, as an action property,
  `LiveKeysStay`, for extracts in any order: a removal that is queued is of a key
  that no row in order has (`RemovedIsAbsent`, from `RowsInv` and `DeltasInv`).
  `Refinement` goes from the same invariant to `TrueUp`: what is
  queued of a file in order is what that file says (`QueuedIsFile`) and differs
  from the index, so that any delivered part of it is a `Tell`; `OverInv` makes
  the write of the index an `Adopt`, and the ledger is then a `Retire`
  (`DeliverStep`, `WriteAdopts`, `RecordRetires`). `ContractSuffices` shows that
  `TrueUp` alone entails that topic and index agree when nothing is on offer.
- `CrmCuration_proofs`. `QueueInv` says that the events of a row are polled,
  built and acknowledged in the order of the log, so that nothing that is
  applied late is older than what was applied, except by a replay, which ends
  with the newest again. `OwnInv` and `VersionInv` are the convergence of one row
  *before* everything is handled: the account's own fields are right as soon as
  its last event is settled (polled and no longer pending),
  whatever clients' events come after it; its embedded client is right as soon as
  both last events are. `VersionInv` needs the same of operations built and not
  applied, as the image is read before it is written. `PlaceholderInv` says that
  an operation with the placeholder finds no copy to replace: it was built before
  any image of the client was landed, and an earlier operation of the same batch
  has none either. From them `EveryRowIsShown` at any pace of the sink,
  `MirrorsTheSource` and, as an action property, `CopiesStay` at the pace of the
  sink.
- `CashCuration_proofs`. `PaceInv` says that what is polled is in a balance, in an
  upsert or in a day still to be computed, and that a sum once it holds the first
  movements of a day keeps them (`Covers`), whichever batch wrote it last. From
  it `NeverCountedTwice` and `SumsConverge`. A second invariant, `RepairInv`, is
  about a pass during which nothing is landed: its sums are exact, not only
  covering (`SettledInv`), and opening figures are right at *all* times wherever
  no earlier end-of-day balance was replaced (`OpeningInv`); `ReplayIsRepair`
  follows. No sum is evaluated: the proof only says which set it is the sum of.
- `CustodyReconcile_proofs`, of the curation and of a call that is made while it
  runs. `ReferenceInv`: reference data is only added, and a run that polls has all
  that was there from the start. The lemma the rest hangs on is `CuratedStays`: a
  record that resolves for one set of reference data resolves to the same
  security for every larger one, which is where `NoLateRival` is used. So
  `PositionsInv` can name a position by what is known *now*. `AppliedInv` says
  that a record whose upsert is applied has its position, and is replaced only by
  a later record or by one of its batch; `CallInv` carries what was curated when
  a call began through its four queries. From them `NothingAcknowledgedIsLost`,
  `CorrectionsAreApplied`, `CuratedIsMatched`, and `SameAnswer`, with a lemma
  (`SameRules`) that the service's own copy of the rules resolves as
  `ReferenceIndex` does.
- `ReadServices_proofs`, of `KeysetPagination`. The order of a list is shown
  strict and total (`Irreflexive`, `Transitive`, `Total`) for a sort of any
  number of fields, and the seek predicate is shown to be that order
  (`SeekIsAfter`). `IInv` says of a walk that its rows are in order, that its
  cursor is the key of the last one, and that nothing that was there throughout
  and matches lies before the cursor unreturned. From it `NoRowTwice` and
  `NothingMissed`.
- `ReadServices_proofs`, of `DayLists`. Two halves: a row that nobody wrote during
  a walk, once returned, still matches the query (`StillMatches`), which with the
  completeness above makes the rows of a finished walk those the query selects;
  and what a service selects is what it describes (`AnswerSelects`), which comes
  down to the half-open windows of `_common.py` being whole days (`WholeDay`, for
  any length of a day). From them `DaysAreWhole`.
- `ReadServices_proofs`, of `ReleaseChecks`. `HeartbeatsPast`, `BeganPast` and
  `MemoryPast` order what the call remembers before what there is now;
  `PassedSoFar` says what the statuses collected so far, all of them PASS, have
  established. From them `PassMeansHealthy`: `PassIsEarned`, though every query
  reads another moment. `AlarmInv` is its counterpart: as long as `well` is not
  empty every status collected is PASS, and what the call remembers and what there
  is now both stay young until the times in it (`YoungUntil`, `SoundUntil`,
  `MemoryUntil`). From it `AlarmMeansTrouble`.

Only model-checked:

- liveness (`FeedNeverStalls`, `EveryDeliverySettles`, `EventuallyMirror`,
  `EventuallyDelivered`, `EventuallyTaken`, `EventuallyCurated`, `WalksEnd`):
  the prover has no rule for fairness and ENABLED. Every other
  property of the runs is stated by a theorem.

## 6. Not modelled

- Consumer groups of several members: a rebalance, or a member that was
  presumed dead and writes an old batch late. Each group is one process.
- The contents of records beyond what the properties tell apart: the delimited
  cash file is a verdict; validation by the raw models is the handler raising;
  the sign overpunch of zoned decimals, which no consumer decodes; the calendar.
- Missing unique indexes. `ensure_indexes` is called by the servers of
  `bank_ods` and by nothing in `ods_ingest`; the models assume the keys exist.
- The order in which a query returns two securities with one CUSIP, which decides
  between them: the model's choice between them is fixed. A rival that is created
  during the run is excluded by `NoLateRival` (2.8).
- Lookups of one document, the inspection of indexes and samples, transports,
  administration, deployment: no state across calls. The limits on GraphQL
  queries are functions of a library's parse tree.
- The generators of seed data and the benchmarks: values, and measurements
  around the code that is modelled.

## 7. Plan

1. Refinement: an abstract specification for the two-tier feeds (what a tier
   promises of the topic it reads), which `VendorSecurities` implements once for
   each tier.
2. Bounds that the proofs do not state yet: how many records in all a consumer of
   the custody topic may see twice per fault; how many dead-letter entries a lost
   delivery may cost.
3. `BatchConsumer` with two members and a rebalance.
4. The delimited cash file, as `CustodyFile` does for the custody extract.
5. Composition of `FileAdapter`, the topic, `CustodyCuration` and
   `ReleaseChecks` for one feed.
