-------------------------- MODULE VendorSecurities --------------------------
(***************************************************************************)
(* The latest-state feed ods.raw.vendorsec.securities and the two          *)
(* documents kept from it: the sink's raw_vendor_securities (the raw tier) *)
(* and the security master that vendor_securities curation enriches (the   *)
(* semantic tier).  Two channels feed the topic, the intraday poll and the *)
(* start-of-day snapshot, with no order between them, so the log may hold  *)
(* the records of a security in any order of their source timestamps.      *)
(*                                                                         *)
(* Each tier has its own consumer group.  A group polls, writes the batch  *)
(* with one unordered bulk write, whose operations are atomic one by one   *)
(* and run in any order, and commits; a failed bulk write is repeated      *)
(* record by record, and a process that dies resumes from the committed    *)
(* offset (module BatchConsumer).  What a tier holds must not depend on    *)
(* any of that.                                                            *)
(***************************************************************************)
EXTENDS Integers

CONSTANTS
    Keys,        \* Vendor_Ref values, each of one security of the master
    MaxStamp,    \* SRC_UPDATED_AT is a stamp in 1..MaxStamp, or missing
    LogLen,      \* records on the topic
    Logs,        \* the logs to consider: 1..LogLen -> Messages
    BatchSize    \* CONSUMER_BATCH_SIZE

Tiers == {"raw", "curated"}

\* source_timestamp_iso: an update time in one of the vendor's formats becomes
\* a stamp that compares with others; one that is absent, or in none of them,
\* becomes no stamp.
NoStamp == 0

Offsets == 1..LogLen

(***************************************************************************)
(* An "update" carries the identifiers of a security the master holds; a   *)
(* "removal" is _removal_record, whose identifiers are all blank.  Its     *)
(* issuer name is given, or is one of the vendor's spellings of nothing.   *)
(***************************************************************************)
Messages == [key : Keys, stamp : 0..MaxStamp, kind : {"update", "removal"},
             issuer : {"given", "blank"}]

ASSUME VendorAssumption ==
    /\ MaxStamp \in Nat
    /\ LogLen \in Nat
    /\ Logs \subseteq [Offsets -> Messages]
    /\ BatchSize \in Nat \ {0}

VARIABLES
    log,         \* the topic (never changes)
    committed,   \* tier -> offset its group committed
    position,    \* tier -> last offset its consumer has polled
    pending,     \* tier -> offsets of the bulk write under way not yet applied
    raw,         \* key -> the raw document: the offset it came from (0: none)
                 \*        and its SRC_UPDATED_AT (NoStamp: stored as null)
    curated      \* key -> the master's document: the offsets its last write
                 \*        and its issuer came from (0: as seeded), and
                 \*        vendorUpdatedAt (NoStamp: the field is absent)

vars == <<log, committed, position, pending, raw, curated>>

RawDoc == [from : 0..LogLen, stamp : 0..MaxStamp]
CuratedDoc == [from : 0..LogLen, issuer : 0..LogLen, stamp : 0..MaxStamp]

Init ==
    /\ log \in Logs
    /\ committed = [t \in Tiers |-> 0]
    /\ position = [t \in Tiers |-> 0]
    /\ pending = [t \in Tiers |-> {}]
    /\ raw = [k \in Keys |-> [from |-> 0, stamp |-> NoStamp]]
    /\ curated = [k \in Keys |-> [from |-> 0, issuer |-> 0, stamp |-> NoStamp]]
-----------------------------------------------------------------------------
\* Mutations: a plain upsert, as for the other topics; $setOnInsert always.
WriteUnguarded(doc, m) == TRUE

WriteInsertOnly(doc, m) == doc.from = 0

(***************************************************************************)
(* The sink's _write_op.  Without a stamp: $setOnInsert, so the document   *)
(* is written only when there is none.  With one: the filter asks for a    *)
(* document whose stamp is smaller, or that lacks the field.  Every stored *)
(* document has the field, and $lt never matches a null, so on a document  *)
(* without a stamp the filter fails, the upsert turns into an insert, and  *)
(* the unique key refuses it: a duplicate-key error the sink ignores.      *)
(***************************************************************************)
WriteApplies(doc, m) ==
    \/ doc.from = 0
    \/ m.stamp # NoStamp /\ doc.stamp # NoStamp /\ doc.stamp < m.stamp

RawWrite(i) ==
    LET m == log[i] IN
    /\ raw' = IF WriteApplies(raw[m.key], m)
              THEN [raw EXCEPT ![m.key] = [from |-> i, stamp |-> m.stamp]]
              ELSE raw
    /\ UNCHANGED curated

(***************************************************************************)
(* curate_record.  A record whose identifiers resolve to no security is    *)
(* skipped.  A record without a stamp applies while the security has never *)
(* been stamped; one with a stamp applies then, and when the stamp of the  *)
(* security is smaller.  A blank issuer leaves the master's alone.         *)
(***************************************************************************)
Resolves(m) == m.kind = "update"

\* Mutation: the guard is made for stamped records only.
CurationUndatedApplies(doc, m) == m.stamp = NoStamp \/ doc.stamp < m.stamp

CurationApplies(doc, m) ==
    \/ doc.stamp = NoStamp
    \/ m.stamp # NoStamp /\ doc.stamp < m.stamp

Curated(doc, m, i) ==
    [from |-> i,
     issuer |-> IF m.issuer = "given" THEN i ELSE doc.issuer,
     stamp |-> IF m.stamp # NoStamp THEN m.stamp ELSE doc.stamp]

CuratedWrite(i) ==
    LET m == log[i] IN
    /\ curated' = IF Resolves(m) /\ CurationApplies(curated[m.key], m)
                  THEN [curated EXCEPT ![m.key] = Curated(@, m, i)]
                  ELSE curated
    /\ UNCHANGED raw
-----------------------------------------------------------------------------
\* A group polls the next records of the log and starts their bulk write.
Poll(t) ==
    /\ pending[t] = {}
    /\ position[t] = committed[t]
    /\ \E n \in position[t] + 1 .. LogLen :
          /\ n - position[t] <= BatchSize
          /\ position' = [position EXCEPT ![t] = n]
          /\ pending' = [pending EXCEPT ![t] = position[t] + 1 .. n]
    /\ UNCHANGED <<log, committed, raw, curated>>

\* One operation of the bulk write.
Write(t) ==
    /\ \E i \in pending[t] :
          /\ pending' = [pending EXCEPT ![t] = @ \ {i}]
          /\ IF t = "raw" THEN RawWrite(i) ELSE CuratedWrite(i)
    /\ UNCHANGED <<log, committed, position>>

\* The bulk write raises, and every record of the batch is written again.
WriteFails(t) ==
    /\ pending[t] # {}
    /\ pending' = [pending EXCEPT ![t] = committed[t] + 1 .. position[t]]
    /\ UNCHANGED <<log, committed, position, raw, curated>>

Commit(t) ==
    /\ pending[t] = {}
    /\ committed[t] < position[t]
    /\ committed' = [committed EXCEPT ![t] = position[t]]
    /\ UNCHANGED <<log, position, pending, raw, curated>>

\* Mutation: the new process takes the batch under way for written.
RestartAtPosition(t) ==
    /\ position[t] # committed[t]
    /\ pending' = [pending EXCEPT ![t] = {}]
    /\ UNCHANGED <<log, committed, position, raw, curated>>

\* The process dies and a new one resumes from the committed offset.
Restart(t) ==
    /\ position[t] # committed[t]
    /\ position' = [position EXCEPT ![t] = committed[t]]
    /\ pending' = [pending EXCEPT ![t] = {}]
    /\ UNCHANGED <<log, committed, raw, curated>>

Next ==
    \E t \in Tiers :
        Poll(t) \/ Write(t) \/ WriteFails(t) \/ Commit(t) \/ Restart(t)

Spec == Init /\ [][Next]_vars
-----------------------------------------------------------------------------
TypeOK ==
    /\ log \in [Offsets -> Messages]
    /\ committed \in [Tiers -> 0..LogLen]
    /\ position \in [Tiers -> 0..LogLen]
    /\ pending \in [Tiers -> SUBSET Offsets]
    /\ raw \in [Keys -> RawDoc]
    /\ curated \in [Keys -> CuratedDoc]

\* The records a tier has dealt with.
Handled(t) == (1..position[t]) \ pending[t]

CaughtUp(t) == Handled(t) = Offsets

OfKey(k) == {i \in Offsets : log[i].key = k}

\* Every record of the key has a source timestamp.
Dated(k) == \A i \in OfKey(k) : log[i].stamp # NoStamp

(***************************************************************************)
(* The raw document of a security whose records are all dated is never     *)
(* older than a record the sink has dealt with, whatever the order of the  *)
(* log, of the bulk write and of the replays: "a stale record arriving     *)
(* after a newer one is a no-op rather than a silent overwrite", and no    *)
(* newer one is lost on the way.                                           *)
(***************************************************************************)
RawKeepsUp ==
    \A k \in Keys : Dated(k) =>
        \A i \in OfKey(k) \cap Handled("raw") :
            raw[k].from # 0 /\ log[i].stamp <= raw[k].stamp

(***************************************************************************)
(* The same for the master and the dated records that resolve to it; the   *)
(* undated ones in between do not matter there.                            *)
(***************************************************************************)
CuratedKeepsUp ==
    \A i \in Handled("curated") :
        Resolves(log[i]) => log[i].stamp <= curated[log[i].key].stamp

(***************************************************************************)
(* "An unstamped record can never displace a stamped one": the document    *)
(* that holds a stamp holds the contents of the record with that stamp, in *)
(* either tier.                                                            *)
(***************************************************************************)
UndatedNeverDisplaces ==
    \A k \in Keys :
        /\ raw[k].from # 0 =>
              log[raw[k].from].key = k /\ log[raw[k].from].stamp = raw[k].stamp
        /\ raw[k].from = 0 => raw[k].stamp = NoStamp
        /\ curated[k].from # 0 =>
              log[curated[k].from].key = k /\ log[curated[k].from].stamp = curated[k].stamp
        /\ curated[k].from = 0 => curated[k].stamp = NoStamp

(***************************************************************************)
(* When both groups have caught up, the two tiers show the same version of *)
(* every security whose records are dated and not removals.                *)
(***************************************************************************)
TiersAgree ==
    CaughtUp("raw") /\ CaughtUp("curated") =>
        \A k \in Keys :
            Dated(k) /\ (\A i \in OfKey(k) : Resolves(log[i]))
                => raw[k].stamp = curated[k].stamp

(***************************************************************************)
(* The stamp of a stored document never goes back, and a document never    *)
(* loses its stamp.                                                        *)
(***************************************************************************)
StampsNeverGoBack ==
    [][\A k \in Keys :
          /\ raw[k].stamp <= raw'[k].stamp
          /\ curated[k].stamp <= curated'[k].stamp]_<<raw, curated>>

(***************************************************************************)
(* ORDERING_FIELD "removes the hazard regardless of arrival order": once   *)
(* the sink has caught up, the raw document is the newest dated record of  *)
(* the security.                                                           *)
(***************************************************************************)
RawIsNewest ==
    CaughtUp("raw") =>
        \A i \in Offsets : log[i].stamp <= raw[log[i].key].stamp

(***************************************************************************)
(* "Source deletes become status transitions in the semantic tier": once   *)
(* curation has caught up, a removal newer than every other record of the  *)
(* security has been applied to the master.                                *)
(***************************************************************************)
RemovalsReachTheMaster ==
    CaughtUp("curated") =>
        \A i \in Offsets :
            /\ log[i].kind = "removal"
            /\ \A j \in OfKey(log[i].key) \ {i} : log[j].stamp < log[i].stamp
            => curated[log[i].key].stamp = log[i].stamp

(***************************************************************************)
(* "The guard makes the outcome depend on the source's own timestamp       *)
(* rather than on arrival order": with distinct stamps, the issuer of a    *)
(* security is the one the newest record that gave any had.                *)
(***************************************************************************)
IssuerIsNewest ==
    CaughtUp("curated") =>
        \A k \in Keys :
            LET given == {i \in OfKey(k) : Resolves(log[i]) /\ log[i].issuer = "given"} IN
            /\ Dated(k)
            /\ \A i, j \in OfKey(k) : log[i].stamp = log[j].stamp => i = j
            => \A i \in given :
                  (\A j \in given : log[j].stamp <= log[i].stamp) => curated[k].issuer = i
-----------------------------------------------------------------------------
(***************************************************************************)
(* The inductive invariant: besides the above, a bulk write under way is   *)
(* of records between the committed offset and the position.               *)
(***************************************************************************)
PendingInv ==
    \A t \in Tiers :
        /\ committed[t] <= position[t]
        /\ pending[t] \subseteq committed[t] + 1 .. position[t]

IInv ==
    /\ TypeOK
    /\ PendingInv
    /\ UndatedNeverDisplaces
    /\ RawKeepsUp
    /\ CuratedKeepsUp
=============================================================================
