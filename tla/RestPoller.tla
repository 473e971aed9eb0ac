------------------------------ MODULE RestPoller ------------------------------
(***************************************************************************)
(* The REST poll adapter, ods_ingest.adapters.rest_poll, and the vendor    *)
(* it polls: a listing ordered by the time of change, served in numbered   *)
(* pages, that the vendor re-orders whenever a record changes.  A sweep    *)
(* reads the stored watermark, walks the pages from a little before it,    *)
(* queues every row for the bus, flushes, and only then advances the       *)
(* watermark.  Two processes may sweep at once: the polling loop, and the  *)
(* backfill an operator starts, which forgets the watermark first.         *)
(*                                                                         *)
(* Times are numbers.  A version is a row with the time it was stamped.    *)
(* What is queued reaches the bus at some point up to the end of the flush *)
(* or the end of the process; as nothing here reads the bus, all of that   *)
(* is decided at that end.                                                 *)
(***************************************************************************)
EXTENDS Integers, FiniteSets

CONSTANTS
    Refs,          \* the vendor's records
    Place,         \* the place of each record in the vendor's own order
    PageSize,      \* SAAS_PAGE_SIZE
    Overlap,       \* POLL_OVERLAP_S
    Lag,           \* how far behind the clock the vendor may stamp a change
    MaxAttempts,   \* MAX_ATTEMPTS, for one page
    MaxTime,       \* bound: the vendor's clock
    MaxFaults,     \* bound: refused requests and failed flushes
    MaxCrashes,    \* bound: times a process is killed in a sweep
    MaxBackfills   \* bound: full resyncs

Processes == {"loop", "backfill"}

Times == 1..MaxTime

Versions == Refs \X Times

\* The vendor may stamp a change late, by no more than the overlap covers.
ASSUME PollerAssumption ==
    /\ IsFiniteSet(Refs)
    /\ Place \in [Refs -> Nat]
    /\ \A q, r \in Refs : Place[q] = Place[r] => q = r
    /\ PageSize \in Nat \ {0}
    /\ MaxAttempts \in Nat \ {0}
    /\ MaxTime \in Nat \ {0}
    /\ Lag \in Nat /\ Overlap \in Nat /\ Lag <= Overlap
    /\ MaxFaults \in Nat /\ MaxCrashes \in Nat /\ MaxBackfills \in Nat

VARIABLES
    clock,      \* vendor: the time
    stamp,      \* vendor: when each record changed last
    watermark,  \* store: the watermark document, 0 for none
    bus,        \* broker: the versions delivered
    pc,         \* each process: where it is
    start,      \* each process: the watermark its sweep has read
    page,       \* each process: the page it asks for next
    attempt,    \* each process: the attempt at that page
    queued,     \* each process: the versions it has given to its producer
    disturbed,  \* history: has a listing moved under a sweep that had read it
    faults, crashes, backfills

store == <<watermark, bus>>
memory == <<pc, start, page, attempt, queued>>
counters == <<faults, crashes, backfills>>
pollerVars == <<clock, stamp, watermark, bus, pc, start, page, attempt, queued,
          disturbed, faults, crashes, backfills>>

-----------------------------------------------------------------------------
(* The vendor's listing, for given stamps. *)

\* The overlap forgotten (a mutant).
SinceWatermark(p) == start[p]

\* From where process p asks: from the beginning when there is no watermark.
Since(p) == IF start[p] = 0 THEN 0 ELSE start[p] - Overlap

\* The rows changed at or after a time.
Rows(s, since) == {r \in Refs : s[r] >= since}

Before(s, q, r) == s[q] < s[r] \/ (s[q] = s[r] /\ Place[q] <= Place[r])

\* The position of a row in the listing, from 1.
RowNumber(s, since, r) == Cardinality({q \in Rows(s, since) : Before(s, q, r)})

\* The versions on the first n pages.
Upto(s, since, n) ==
    {<<r, s[r]>> : r \in {q \in Rows(s, since) : RowNumber(s, since, q) <= n * PageSize}}

\* The page number n: a slice of the listing.
Page(s, since, n) == 
    {<<r, s[r]>> : r \in {q \in Rows(s, since) :
        /\ (n - 1) * PageSize < RowNumber(s, since, q)
        /\ RowNumber(s, since, q) <= n * PageSize}}

HasMore(s, since, n) == n * PageSize < Cardinality(Rows(s, since))

\* The times process p has seen: the watermark it began with, and its rows'.
Seen(p) == {start[p]} \cup {v[2] : v \in queued[p]}
-----------------------------------------------------------------------------
PollerInit ==
    /\ clock = 1
    /\ stamp = [r \in Refs |-> 1]
    /\ watermark = 0
    /\ bus = {}
    /\ pc = [p \in Processes |-> "idle"]
    /\ start = [p \in Processes |-> 0]
    /\ page = [p \in Processes |-> 1]
    /\ attempt = [p \in Processes |-> 1]
    /\ queued = [p \in Processes |-> {}]
    /\ disturbed = FALSE
    /\ faults = 0 /\ crashes = 0 /\ backfills = 0

Tick ==
    /\ clock < MaxTime
    /\ clock' = clock + 1
    /\ UNCHANGED <<stamp, store, memory, disturbed, counters>>

(***************************************************************************)
(* A record changes and moves to another place of the listing.  A sweep    *)
(* in the middle of its pages is disturbed when the pages it has read are  *)
(* no longer what it read.                                                 *)
(***************************************************************************)
Touch(r) ==
    \E t \in (clock - Lag)..clock :
        LET new == [stamp EXCEPT ![r] = t]
        IN  /\ t > stamp[r]
            /\ stamp' = new
            /\ disturbed' = 
                  \/ disturbed
                  \/ \E p \in Processes :
                        /\ pc[p] = "fetch"
                        /\ Upto(new, Since(p), page[p] - 1) # Upto(stamp, Since(p), page[p] - 1)
            /\ UNCHANGED <<clock, store, memory, counters>>
-----------------------------------------------------------------------------
(* The process that ends a sweep early: of what it has queued, some of it  *)
(* is delivered.                                                           *)
GoIdle(p) ==
    /\ pc' = [pc EXCEPT ![p] = "idle"]
    /\ queued' = [queued EXCEPT ![p] = {}]
    /\ start' = [start EXCEPT ![p] = 0]
    /\ page' = [page EXCEPT ![p] = 1]
    /\ attempt' = [attempt EXCEPT ![p] = 1]

GiveUp(p) ==
    /\ \E delivered \in SUBSET queued[p] : bus' = bus \cup delivered
    /\ GoIdle(p)
    /\ UNCHANGED <<clock, stamp, watermark, disturbed>>

\* The operator starts a backfill: the watermark is forgotten.
Reset ==
    /\ backfills < MaxBackfills
    /\ pc["backfill"] = "idle"
    /\ watermark' = 0
    /\ pc' = [pc EXCEPT !["backfill"] = "begin"]
    /\ backfills' = backfills + 1
    /\ UNCHANGED <<clock, stamp, bus, start, page, attempt, queued, disturbed, faults, crashes>>

\* The sweep begins with the watermark; the loop begins one again and again.
Begin(p) ==
    /\ pc[p] = IF p = "loop" THEN "idle" ELSE "begin"
    /\ pc' = [pc EXCEPT ![p] = "fetch"]
    /\ start' = [start EXCEPT ![p] = watermark]
    /\ UNCHANGED <<clock, stamp, store, page, attempt, queued, disturbed, counters>>

\* A page arrives; its rows are queued.  The last one ends the walk.
Fetch(p) ==
    /\ pc[p] = "fetch"
    /\ queued' = [queued EXCEPT ![p] = @ \cup Page(stamp, Since(p), page[p])]
    /\ IF HasMore(stamp, Since(p), page[p])
       THEN page' = [page EXCEPT ![p] = @ + 1] /\ UNCHANGED pc
       ELSE pc' = [pc EXCEPT ![p] = "flush"] /\ UNCHANGED page
    /\ attempt' = [attempt EXCEPT ![p] = 1]
    /\ UNCHANGED <<clock, stamp, store, start, disturbed, counters>>

\* The vendor is busy (429 or 5xx), and the page is asked for again.
Retry(p) ==
    /\ pc[p] = "fetch"
    /\ faults < MaxFaults
    /\ attempt[p] < MaxAttempts
    /\ attempt' = [attempt EXCEPT ![p] = @ + 1]
    /\ faults' = faults + 1
    /\ UNCHANGED <<clock, stamp, store, pc, start, page, queued, disturbed, crashes, backfills>>

\* The last attempt fails, or the vendor refuses the request (another 4xx, a
\* broken connection): the sweep ends with an exception.
Refused(p) ==
    /\ pc[p] = "fetch"
    /\ faults < MaxFaults
    /\ faults' = faults + 1
    /\ GiveUp(p)
    /\ UNCHANGED <<crashes, backfills>>

\* Leaving the producer's context: everything queued is delivered ...
Flush(p) ==
    /\ pc[p] = "flush"
    /\ bus' = bus \cup queued[p]
    /\ pc' = [pc EXCEPT ![p] = "advance"]
    /\ UNCHANGED <<clock, stamp, watermark, start, page, attempt, queued, disturbed, counters>>

\* Failed deliveries that nobody looks at (a mutant).
FlushFailsUnseen(p) ==
    /\ pc[p] = "flush"
    /\ faults < MaxFaults
    /\ faults' = faults + 1
    /\ \E delivered \in SUBSET queued[p] : bus' = bus \cup delivered
    /\ pc' = [pc EXCEPT ![p] = "advance"]
    /\ UNCHANGED <<clock, stamp, watermark, start, page, attempt, queued, disturbed,
                   crashes, backfills>>

\* ... or the flush raises.
FlushFails(p) ==
    /\ pc[p] = "flush"
    /\ faults < MaxFaults
    /\ faults' = faults + 1
    /\ GiveUp(p)
    /\ UNCHANGED <<crashes, backfills>>

\* The highest of the times seen becomes the watermark, if it is a new one.
Advance(p) ==
    /\ pc[p] = "advance"
    /\ \E highest \in Seen(p) :
          /\ \A t \in Seen(p) : t <= highest
          /\ watermark' = IF highest # start[p] THEN highest ELSE watermark
    /\ GoIdle(p)
    /\ UNCHANGED <<clock, stamp, bus, disturbed, counters>>

\* The process is killed; the loop is started again, a backfill is not.
Crash(p) ==
    /\ pc[p] # "idle"
    /\ crashes < MaxCrashes
    /\ crashes' = crashes + 1
    /\ GiveUp(p)
    /\ UNCHANGED <<faults, backfills>>

Step(p) == Begin(p) \/ Fetch(p) \/ Flush(p) \/ Advance(p)

Fault(p) == Retry(p) \/ Refused(p) \/ FlushFails(p) \/ Crash(p)

PollerNext ==
    \/ Tick
    \/ \E r \in Refs : Touch(r)
    \/ Reset
    \/ \E p \in Processes : Step(p) \/ Fault(p)

PollerSpec == PollerInit /\ [][PollerNext]_pollerVars

\* run_forever sweeps for ever; a backfill that was started goes on.
FairPollerSpec == PollerSpec /\ \A p \in Processes : WF_pollerVars(Step(p))
-----------------------------------------------------------------------------
Stages == {"idle", "begin", "fetch", "flush", "advance"}

\* The variables have the values the code gives them.
PollerTypeOK ==
    /\ clock \in Times
    /\ stamp \in [Refs -> Times]
    /\ watermark \in 0..MaxTime
    /\ bus \subseteq Versions
    /\ pc \in [Processes -> Stages]
    /\ start \in [Processes -> 0..MaxTime]
    /\ page \in [Processes -> Nat \ {0}]
    /\ attempt \in [Processes -> 1..MaxAttempts]
    /\ queued \in [Processes -> SUBSET Versions]
    /\ disturbed \in BOOLEAN
    /\ faults \in 0..MaxFaults /\ crashes \in 0..MaxCrashes /\ backfills \in 0..MaxBackfills

OnBus(r) == <<r, stamp[r]>> \in bus

(***************************************************************************)
(* The next sweep asks from the watermark less the overlap: what changed   *)
(* before that is never asked for again, and so it must be on the bus      *)
(* (poller.py, rule 1: the watermark advances only after every record in   *)
(* the window has been confirmed delivered).                               *)
(***************************************************************************)
NothingSkipped ==
    watermark # 0 => \A r \in Refs : stamp[r] < watermark - Overlap => OnBus(r)

(***************************************************************************)
(* The same, as long as no change has moved a listing under a sweep that   *)
(* had read the part that moved: whatever fails, crashes or is delivered   *)
(* late, with a backfill running beside the loop.                          *)
(***************************************************************************)
WatermarkCovers == ~disturbed => NothingSkipped

(***************************************************************************)
(* Once the vendor is quiet, every record comes to be on the bus as it is, *)
(* whatever failed before: a failed sweep is resumed (rule 3), and a       *)
(* change stamped late is found again in the overlap (rule 2).             *)
(***************************************************************************)
EventuallyDelivered == <>[](disturbed \/ \A r \in Refs : OnBus(r))
=============================================================================
