----------------------------- MODULE ReleaseChecks -----------------------------
(***************************************************************************)
(* run_release_checks of bank_ods.services.ops, which a monitoring agent   *)
(* polls, and the parts of ODS Ingest whose traces it reads: the heartbeat *)
(* the sink leaves for each topic after a bulk write, the counters of the  *)
(* dead-letter queues, the raw custody cycle and its curated positions.    *)
(* The call is a chain of queries; everything else goes on between two of  *)
(* them, and any of them may fail.                                         *)
(*                                                                         *)
(* Time is counted in units in which the ages are compared.  Collections   *)
(* only fill: the seed script, which empties them, is not run.             *)
(***************************************************************************)
EXTENDS Integers, Sequences, FiniteSets

CONSTANTS
    Topics,        \* the topics the sink lands into collections
    Manifests,     \* the topic of batch manifests, which has no collection
    Custody,       \* the topic of custody positions, one of Topics
    CollectionOf,  \* the raw collection of each topic
    Curated,       \* the collection of positions
    Registry,      \* the collections, in the order of the registry
    Pairs,         \* (account, security) of the custody records
    Resolvable,    \* those that curation can resolve
    MaxAge,        \* _FEED_FRESHNESS_HOURS of each feed
    CycleAge,      \* the age at which a custody cycle is old
    MaxTime,       \* bound: the clock
    MaxDead,       \* bound: records dead-lettered
    MaxFaults      \* bound: queries that fail, and deaths of the sink

Feeds == Topics \cup {Manifests}

Collections == {CollectionOf[f] : f \in Topics} \cup {Curated}

Times == 0..MaxTime

ASSUME ChecksAssumption ==
    /\ IsFiniteSet(Topics)
    /\ Manifests \notin Topics /\ Custody \in Topics
    /\ DOMAIN CollectionOf = Topics
    /\ Registry \in Seq(Collections)
    /\ \A c \in Collections : \E i \in DOMAIN Registry : Registry[i] = c
    /\ Resolvable \subseteq Pairs
    /\ MaxAge \in [Feeds -> Nat] /\ CycleAge \in Nat
    /\ MaxTime \in Nat \ {0} /\ MaxDead \in Nat /\ MaxFaults \in Nat

VARIABLES
    clock,
    heartbeat,  \* store: lastLandedAt of each feed's sink document, 0 for none
    dead,       \* store: the records counted in the dead-letter documents
    filled,     \* store: the collections that hold documents
    cycle,      \* store: the latest cycle of raw custody records, 0 for none
    records,    \* store: the pairs of that cycle's records
    positions,  \* store: the pairs that have a position
    written,    \* sink: the topics of bulk writes without their heartbeat yet
    at,         \* call: the query that is next
    statuses,   \* call: the statuses of the checks so far
    counted,    \* call: how many collections it has counted
    asked,      \* call: the cycle it reconciles
    wanted,     \* call: the pairs of that cycle it read
    seen,       \* call: the heartbeats it read
    began,      \* history: what there was when the call began
    well,       \* history: until when an alarm of this call would be a false one
    faults

store == <<heartbeat, dead, filled, cycle, records, positions>>
call == <<at, statuses, counted, asked, wanted, seen, began>>
checksVars == <<clock, store, written, call, well, faults>>

Never == [f \in Feeds |-> 0]

NotBegun == [clock |-> 1, dead |-> 0, beating |-> {}]

ChecksInit ==
    /\ clock = 1
    /\ heartbeat = Never
    /\ dead = 0
    /\ filled = {}
    /\ cycle = 0
    /\ records = {}
    /\ positions = {}
    /\ written = {}
    /\ at = "idle"
    /\ statuses = {}
    /\ counted = 0
    /\ asked = 0
    /\ wanted = {}
    /\ seen = Never
    /\ began = NotBegun
    /\ well = {}
    /\ faults = 0

Tick ==
    /\ clock < MaxTime
    /\ clock' = clock + 1
    /\ UNCHANGED <<store, written, call, well, faults>>
-----------------------------------------------------------------------------
(* ODS Ingest.                                                             *)

\* write_batch applies a bulk write of one topic ...
Land(f) ==
    /\ f \notin written
    /\ written' = written \cup {f}
    /\ filled' = filled \cup {CollectionOf[f]}
    /\ IF f = Custody
       THEN \E c \in 1..clock, p \in Pairs :
               /\ cycle' = IF c > cycle THEN c ELSE cycle
               /\ records' = IF c > cycle THEN {p}
                             ELSE IF c = cycle THEN records \cup {p} ELSE records
       ELSE UNCHANGED <<cycle, records>>
    /\ well' = IF records' \subseteq positions THEN well ELSE {}
    /\ UNCHANGED <<clock, heartbeat, dead, positions, call, faults>>

\* ... and then leaves its heartbeat, whatever the guards let through.
RecordSinkProgress(f) ==
    /\ f \in written
    /\ written' = written \ {f}
    /\ heartbeat' = [heartbeat EXCEPT ![f] = clock]
    /\ UNCHANGED <<clock, dead, filled, cycle, records, positions, call, well, faults>>

\* The sink dies between the two; the batch is not committed.
SinkDies ==
    /\ written # {}
    /\ faults < MaxFaults
    /\ faults' = faults + 1
    /\ written' = {}
    /\ UNCHANGED <<clock, store, call, well>>

\* A poisoned record is counted.
RecordDlq ==
    /\ dead < MaxDead
    /\ dead' = dead + 1
    /\ well' = {}
    /\ UNCHANGED <<clock, heartbeat, filled, cycle, records, positions, written, call, faults>>

\* The curation upserts the position of a record it can resolve.
Curate ==
    /\ \E p \in records \cap Resolvable : positions' = positions \cup {p}
    /\ filled' = filled \cup {Curated}
    /\ UNCHANGED <<clock, heartbeat, dead, cycle, records, written, call, well, faults>>
-----------------------------------------------------------------------------
(* The call.  Every step adds the status of a check and leads to the next; *)
(* what no later step looks at is forgotten.                               *)

Adds(new) == statuses' = statuses \cup new

Rest == <<clock, store, written, well, faults>>

\* Nothing is wrong now that the checks are about, and no age runs out by the
\* time t: of what is there, or of what lands from now on.
Well(t) ==
    /\ Collections \subseteq filled
    /\ cycle # 0 /\ t - cycle <= CycleAge
    /\ records \subseteq positions
    /\ dead = 0
    /\ \E f \in Topics : heartbeat[f] # 0
    /\ \A f \in Topics :
          t - (IF heartbeat[f] = 0 THEN clock ELSE heartbeat[f]) <= MaxAge[f]

Begin ==
    /\ at = "idle"
    /\ at' = "ping"
    /\ began' = [clock |-> clock, dead |-> dead,
                 beating |-> {f \in Topics : heartbeat[f] # 0}]
    /\ well' = {t \in Times : Well(t)}
    /\ UNCHANGED <<clock, store, written, faults, statuses, counted, asked, wanted, seen>>

Ping ==
    /\ at = "ping"
    /\ Adds({"PASS"})
    /\ at' = "collections"
    /\ UNCHANGED <<counted, asked, wanted, seen, began, Rest>>

\* list_collections counts one collection after another.
Count ==
    /\ at = "collections"
    /\ counted < Len(Registry)
    /\ Adds({IF Registry[counted + 1] \in filled THEN "PASS" ELSE "FAIL"})
    /\ IF counted + 1 = Len(Registry)
       THEN at' = "cycle" /\ counted' = 0
       ELSE counted' = counted + 1 /\ UNCHANGED at
    /\ UNCHANGED <<asked, wanted, seen, began, Rest>>

\* reconcile_custody_feed reads the latest cycle; without one it is an error.
ReadCycle ==
    /\ at = "cycle"
    /\ IF cycle = 0
       THEN at' = "sinks" /\ Adds({"FAIL"}) /\ UNCHANGED <<asked, wanted>>
       ELSE at' = "match" /\ asked' = cycle /\ wanted' = records /\ UNCHANGED statuses
    /\ UNCHANGED <<counted, seen, began, Rest>>

\* It compares with the positions, and the cycle's date with the clock.
Match ==
    /\ at = "match"
    /\ Adds({IF clock - asked <= CycleAge THEN "PASS" ELSE "WARN",
             IF wanted \subseteq positions THEN "PASS" ELSE "WARN"})
    /\ at' = "sinks"
    /\ asked' = 0
    /\ wanted' = {}
    /\ UNCHANGED <<counted, seen, began, Rest>>

\* get_ingestion_status reads the heartbeats; the watermarks come after, and
\* only then are the ages computed.
ReadSinks ==
    /\ at = "sinks"
    /\ seen' = heartbeat
    /\ at' = "ages"
    /\ UNCHANGED <<statuses, counted, asked, wanted, began, Rest>>

NeverLanded == {f \in Feeds : seen[f] = 0}

Stale == {f \in Feeds \ NeverLanded : clock - seen[f] > MaxAge[f]}

\* The silent feeds looked at before the stale ones (a mutant).
FreshnessNeverFirst ==
    IF NeverLanded = Feeds THEN "FAIL"
    ELSE IF NeverLanded # {} THEN "PASS"
    ELSE IF Stale # {} THEN "WARN" ELSE "PASS"

\* An age that has just reached its limit (a mutant).
FreshnessAtLimit ==
    IF \E f \in Feeds \ NeverLanded : clock - seen[f] >= MaxAge[f] THEN "WARN"
    ELSE IF NeverLanded = Feeds THEN "FAIL" ELSE "PASS"

\* One stale feed is a warning; that nothing ever landed is a failure.
Freshness ==
    IF Stale # {} THEN "WARN"
    ELSE IF NeverLanded = Feeds THEN "FAIL"
    ELSE "PASS"

CompareAges ==
    /\ at = "ages"
    /\ Adds({Freshness})
    /\ at' = "dlq"
    /\ seen' = Never
    /\ UNCHANGED <<counted, asked, wanted, began, Rest>>

ReadDlq ==
    /\ at = "dlq"
    /\ Adds({IF dead = 0 THEN "PASS" ELSE "WARN"})
    /\ at' = "report"
    /\ UNCHANGED <<counted, asked, wanted, seen, began, Rest>>

\* The roll-up.
Overall ==
    IF "FAIL" \in statuses THEN "FAIL"
    ELSE IF "WARN" \in statuses THEN "WARN"
    ELSE "PASS"

Report ==
    /\ at = "report"
    /\ at' = "idle"
    /\ statuses' = {}
    /\ began' = NotBegun
    /\ well' = {}
    /\ UNCHANGED <<clock, store, written, faults, counted, asked, wanted, seen>>

Following == [ping |-> "collections", collections |-> "cycle", cycle |-> "sinks",
              match |-> "sinks", sinks |-> "dlq", ages |-> "dlq", dlq |-> "report"]

\* A query fails: the check it belongs to fails, and the next one is made.
QueryFails ==
    /\ at \in DOMAIN Following
    /\ faults < MaxFaults
    /\ faults' = faults + 1
    /\ Adds({"FAIL"})
    /\ at' = Following[at]
    /\ counted' = 0
    /\ asked' = 0
    /\ wanted' = {}
    /\ seen' = Never
    /\ well' = {}
    /\ UNCHANGED <<began, clock, store, written>>

RunReleaseChecks ==
    \/ Begin \/ Ping \/ Count \/ ReadCycle \/ Match
    \/ ReadSinks \/ CompareAges \/ ReadDlq \/ Report

ChecksNext ==
    \/ Tick
    \/ \E f \in Topics : Land(f) \/ RecordSinkProgress(f)
    \/ SinkDies \/ RecordDlq \/ Curate
    \/ RunReleaseChecks \/ QueryFails

ChecksSpec == ChecksInit /\ [][ChecksNext]_checksVars
-----------------------------------------------------------------------------
Stages == {"idle", "ping", "collections", "cycle", "match", "sinks", "ages", "dlq", "report"}

Verdicts == {"PASS", "WARN", "FAIL"}

\* The variables have the values the code gives them.
ChecksTypeOK ==
    /\ clock \in 1..MaxTime
    /\ heartbeat \in [Feeds -> Times] /\ seen \in [Feeds -> Times]
    /\ dead \in 0..MaxDead
    /\ filled \subseteq Collections /\ counted \in 0..Len(Registry)
    /\ cycle \in Times /\ asked \in Times
    /\ records \subseteq Pairs /\ wanted \subseteq Pairs /\ positions \subseteq Pairs
    /\ written \subseteq Topics
    /\ at \in Stages
    /\ statuses \subseteq Verdicts
    /\ began \in [clock : 1..MaxTime, dead : 0..MaxDead, beating : SUBSET Topics]
    /\ well \subseteq Times
    /\ faults \in 0..MaxFaults

(***************************************************************************)
(* A PASS is earned, though the queries see different moments: when the    *)
(* call began nothing was dead-lettered, each feed that had a heartbeat    *)
(* then has one by the report that was not stale then, the latest cycle,   *)
(* which may have landed during the call, is not older than the limit      *)
(* allowed then, and no collection is empty.  ("A feed that stopped        *)
(* arriving and a DLQ that is filling are the two ingestion failures a     *)
(* release-monitoring agent must not miss.")                               *)
(***************************************************************************)
PassIsEarned ==
    at = "report" /\ Overall = "PASS" =>
        /\ began.dead = 0
        /\ \A f \in began.beating : heartbeat[f] >= began.clock - MaxAge[f]
        /\ cycle >= began.clock - CycleAge
        /\ Collections \subseteq filled

(***************************************************************************)
(* An alarm is earned too, for an agent that is to "alert on FAIL or a     *)
(* WARN that persists": the queries of a call that began with nothing      *)
(* wrong read some things from before and some from after what lands       *)
(* meanwhile, and still the report is PASS, unless during the call a query *)
(* failed, a record was dead-lettered, a custody record landed that has no *)
(* position yet, or what was there at the beginning grew too old.          *)
(***************************************************************************)
AlarmIsEarned == at = "report" /\ Overall # "PASS" => clock \notin well
=============================================================================
