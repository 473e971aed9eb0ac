----------------------------- MODULE CashCuration -----------------------------
(***************************************************************************)
(* The intraday cash feed: movements on the bus, the sink that lands them  *)
(* in raw_cash_movements, and the curation of                              *)
(* ods_ingest.curation.cash_movements, which rebuilds the balance of every *)
(* (account, currency, day) that a batch touches from all the movements    *)
(* landed for it, on top of the latest end-of-day balance before it.       *)
(*                                                                         *)
(* One account and one currency: balances of different ones do not meet,   *)
(* and the movements of an account are in one partition, which both groups *)
(* read in order.  The sink and the curation are separate groups, with no  *)
(* order between them.  The end-of-day balances come from another feed (the seed *)
(* loader) under the same key (account, currency, asOfDate), so that the   *)
(* intraday balance of a day replaces its end-of-day balance.              *)
(***************************************************************************)
EXTENDS Integers, FiniteSets, FiniteSetsExt

CONSTANTS
    N,            \* the number of movements on the topic
    Dates,        \* the MOV_FILE_DATEs of the movements, in the order of the topic,
                  \* to consider: functions on 1..N, 0 when a key field is malformed
    AmountOf,     \* MOV_AMT of each, 0 when it is not a number
    MaxDay,       \* the business days are 1..MaxDay
    Closing,      \* the end-of-day closing balance of each day that has one
    BatchSize,    \* CONSUMER_BATCH_SIZE
    Paces,        \* the paces of the sink to consider, see Poll
    MaxCrashes,   \* bound: times the curation process dies
    MaxReplays    \* bound: times the group is replayed from the beginning

Days == 1..MaxDay

Movements == 1..N

ASSUME CashAssumption ==
    /\ N \in Nat /\ MaxDay \in Nat
    /\ Dates \subseteq [Movements -> 0..MaxDay]
    /\ AmountOf \in [Movements -> Int]
    /\ DOMAIN Closing \subseteq Days
    /\ Closing \in [DOMAIN Closing -> Int]
    /\ BatchSize \in Nat \ {0}
    /\ Paces \subseteq {"behind", "any"}
    /\ MaxCrashes \in Nat /\ MaxReplays \in Nat

VARIABLES
    pace,       \* which batches the curation may see (never changes)
    seeded,     \* the days that began with an end-of-day balance (never changes)
    day,        \* the MOV_FILE_DATE of each movement (never changes)
    landed,     \* store: how many movements the sink has landed
    balance,    \* store: the balances, at most one for a day
    committed,  \* broker: how many movements the curation group has acknowledged
    polled,     \* curation: how many its consumer has read
    pc,         \* curation: where it is
    touched,    \* curation: the days of the batch that are not computed yet
    ops,        \* curation: the upserts built and not applied
    crashes, replays,
    settled,    \* history: nothing was landed since the pass over the topic began
    before      \* history: the balances when a replay began, if the pass before it
                \* was settled and ran to its end

source == <<pace, seeded, day, landed>>
history == <<settled, before>>
counters == <<crashes, replays>>
vars == <<source, balance, committed, polled, pc, touched, ops, counters, history>>

LandedOn(d) == {m \in 1..landed : day[m] = d}

Total(S) == MapThenSumSet(LAMBDA m : AmountOf[m], S)

\* A balance: of a day, its opening figure and the sum of its movements.
\* The closing balance is the two together.
Balance(d, type, o, t) == [day |-> d, snapshotType |-> type, opening |-> o, total |-> t]

EndOfDay(d) == Balance(d, "EOD", Closing[d], 0)

Intraday == {b \in balance : b.snapshotType = "INTRADAY"}

EodDays == {b.day : b \in balance \ Intraday}
-----------------------------------------------------------------------------
Init ==
    /\ pace \in Paces
    /\ day \in Dates
    /\ landed = 0
    /\ seeded \in SUBSET DOMAIN Closing
    /\ balance = {EndOfDay(d) : d \in seeded}
    /\ committed = 0
    /\ polled = 0
    /\ pc = "poll"
    /\ touched = {}
    /\ ops = {}
    /\ crashes = 0
    /\ replays = 0
    /\ settled = FALSE
    /\ before = {}

\* The sink lands a movement, keyed by MOVEMENT_ID.
Land ==
    /\ landed < N
    /\ landed' = landed + 1
    /\ settled' = FALSE
    /\ before' = {}
    /\ UNCHANGED <<pace, seeded, day, balance, committed, polled, pc, touched, ops, counters>>
-----------------------------------------------------------------------------
(***************************************************************************)
(* The curation's batch: the next records of the partition.  At the pace   *)
(* "behind" it reads only what the sink has landed.  A record whose        *)
(* account, currency or date is malformed touches no balance.              *)
(***************************************************************************)
Poll ==
    /\ pc = "poll"
    /\ \E last \in (polled + 1)..N :
          /\ last - polled <= BatchSize
          /\ pace = "behind" => last <= landed
          /\ polled' = last
          /\ touched' = {day[m] : m \in (polled + 1)..last} \ {0}
    /\ pc' = "compute"
    /\ settled' = (settled \/ polled = 0)
    /\ UNCHANGED <<source, balance, committed, ops, counters, before>>

\* An opening figure read from any earlier balance (a mutant).
OpeningBalanceOfAny(d) ==
    LET prior == {b \in balance : b.day < d}
        last == Max({b.day : b \in prior})
    IN  IF prior = {} THEN 0 ELSE MapThenSumSet(LAMBDA b : b.opening + b.total,
                                                {b \in prior : b.day = last})

\* The closing figure of the latest end-of-day balance before a day.
OpeningBalance(d) ==
    LET prior == {e \in EodDays : e < d}
    IN  IF prior = {} THEN 0 ELSE Closing[Max(prior)]

\* A sum that is added to the balance there is (a mutant).
UpsertIncrements(d) ==
    LET old == {b \in Intraday : b.day = d}
    IN  Balance(d, "INTRADAY", OpeningBalance(d),
                Total({m \in LandedOn(d) : m \in (committed + 1)..polled})
                + MapThenSumSet(LAMBDA b : b.total, old))

(***************************************************************************)
(* _recompute, one day at a time: the upsert is built from everything that *)
(* is landed for the day; there is none when nothing is.                   *)
(***************************************************************************)
Upsert(d) == Balance(d, "INTRADAY", OpeningBalance(d), Total(LandedOn(d)))

Recompute ==
    /\ pc = "compute"
    /\ \E d \in touched :
          /\ touched' = touched \ {d}
          /\ ops' = IF LandedOn(d) = {} THEN ops ELSE ops \cup {Upsert(d)}
    /\ UNCHANGED <<source, balance, committed, polled, pc, counters, history>>

Computed ==
    /\ pc = "compute"
    /\ touched = {}
    /\ pc' = "write"
    /\ UNCHANGED <<source, balance, committed, polled, touched, ops, counters, history>>

\* One of the upserts of the unordered bulk write: the document with the key
\* is replaced, of whichever type it is.
Write ==
    /\ pc = "write"
    /\ \E op \in ops :
          /\ balance' = {b \in balance : b.day # op.day} \cup {op}
          /\ ops' = ops \ {op}
    /\ UNCHANGED <<source, committed, polled, pc, touched, counters, history>>

\* A commit before the upserts are applied (a mutant).
CommitFirst ==
    /\ pc = "write"
    /\ committed # polled \/ ops = {}
    /\ committed' = polled
    /\ pc' = IF ops = {} THEN "poll" ELSE "write"
    /\ UNCHANGED <<source, balance, polled, touched, ops, counters, history>>

\* The handler returned: the batch is acknowledged.
Commit ==
    /\ pc = "write"
    /\ ops = {}
    /\ committed' = polled
    /\ pc' = "poll"
    /\ UNCHANGED <<source, balance, polled, touched, ops, counters, history>>

\* The process dies, at any point; the next one begins where the group is.
Crash ==
    /\ crashes < MaxCrashes
    /\ crashes' = crashes + 1
    /\ pc' = "poll"
    /\ polled' = committed
    /\ touched' = {}
    /\ ops' = {}
    /\ UNCHANGED <<source, balance, committed, replays, history>>

\* The group has acknowledged the whole topic.
Complete == pc = "poll" /\ committed = N

\* The curation is run again from the beginning of the topic, by another
\* group or by a reset of its offsets, while it is not running.
Replay ==
    /\ pc = "poll"
    /\ replays < MaxReplays
    /\ replays' = replays + 1
    /\ committed' = 0
    /\ polled' = 0
    /\ before' = IF settled /\ Complete THEN balance ELSE {}
    /\ UNCHANGED <<source, balance, pc, touched, ops, crashes, settled>>

Step == Poll \/ Recompute \/ Computed \/ Write \/ Commit

Next == Land \/ Step \/ Crash \/ Replay

Spec == Init /\ [][Next]_vars

\* The sink and the curation run until their topics are drained.
FairSpec == Spec /\ WF_vars(Land) /\ WF_vars(Step)
-----------------------------------------------------------------------------
Stages == {"poll", "compute", "write"}

Balances == [day : Days, snapshotType : {"EOD", "INTRADAY"}, opening : Int, total : Int]

\* The variables have the values the code gives them.
TypeOK ==
    /\ pace \in Paces
    /\ seeded \subseteq DOMAIN Closing
    /\ day \in Dates /\ landed \in 0..N
    /\ balance \subseteq Balances /\ ops \subseteq Balances /\ before \subseteq Balances
    /\ polled \in 0..N /\ committed \in 0..polled
    /\ pc \in Stages
    /\ touched \subseteq Days
    /\ crashes \in 0..MaxCrashes /\ replays \in 0..MaxReplays
    /\ settled \in BOOLEAN

Curated(d) == {b \in Intraday : b.day = d}

(***************************************************************************)
(* No movement is counted twice, nor one that is not there: the sum of a   *)
(* balance is that of a set of landed movements of its day, however often  *)
(* a batch is replayed (the module's rule: recomputed, never incremented). *)
(***************************************************************************)
NoDoubleCount ==
    \A b \in Intraday : \E S \in SUBSET LandedOn(b.day) : b.total = Total(S)

\* The sum of each day's balance is that of the movements landed for it, and a
\* day without movements has no intraday balance.
SumsExact ==
    \A d \in Days : {b.total : b \in Curated(d)} =
                     (IF LandedOn(d) = {} THEN {} ELSE {Total(LandedOn(d))})

(***************************************************************************)
(* At the pace of the sink the curation converges: when it has             *)
(* acknowledged everything, each day's sum is exact, whatever crash and    *)
(* replay came before.                                                     *)
(***************************************************************************)
Converges == pace = "behind" /\ Complete => SumsExact

(***************************************************************************)
(* A replay repairs: a pass over the topic that runs to its end with       *)
(* nothing landed during it leaves every sum exact at any pace; and it     *)
(* leaves the opening figure of a day exact, in whatever order it takes    *)
(* the days, when no movement is of an earlier day that had an end-of-day  *)
(* balance.  (Otherwise that balance is replaced: see ReplayIsIdempotent.) *)
(***************************************************************************)
ReplayRepairs ==
    settled /\ Complete =>
        /\ SumsExact
        /\ \A b \in Intraday :
              (\A d \in seeded : d < b.day => LandedOn(d) = {})
                  => b.opening = OpeningBalance(b.day)

(***************************************************************************)
(* Replaying the movements changes no balance (the module's docstring, and *)
(* the test of it): two passes that ran to their ends with nothing landed  *)
(* since the first began agree on every balance.                           *)
(***************************************************************************)
ReplayIsIdempotent == settled /\ Complete /\ landed = N /\ before # {} => balance = before

(***************************************************************************)
(* Everything on the topic is landed, and curated to its last movement.    *)
(***************************************************************************)
EventuallyCurated == <>[](pace = "behind" => landed = N /\ SumsExact)
=============================================================================
