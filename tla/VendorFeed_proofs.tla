-------------------------- MODULE VendorFeed_proofs --------------------------
(***************************************************************************)
(* Proofs about the vendor's securities: RestPoller, that brings the rows  *)
(* in, for every set of records, every page size, every overlap that       *)
(* covers the vendor's lag and any number of faults; and VendorSecurities, *)
(* that makes the two tiers of them, for every set of securities, every    *)
(* range of stamps, every log and every batch size.                        *)
(***************************************************************************)
EXTENDS RestPoller, VendorSecurities, FiniteSetTheorems, TLAPS

USE PollerAssumption

LEMMA PollerTypeInit == PollerInit => PollerTypeOK
<1> SUFFICES ASSUME PollerInit PROVE PollerTypeOK
  OBVIOUS
<1>1. pc \in [Processes -> Stages] /\ queued \in [Processes -> SUBSET Versions]
  BY DEF PollerInit, Stages
<1>2. faults \in 0..MaxFaults /\ crashes \in 0..MaxCrashes /\ backfills \in 0..MaxBackfills
  BY DEF PollerInit, PollerAssumption
<1>3. /\ clock \in Times /\ stamp \in [Refs -> Times]
      /\ start \in [Processes -> 0..MaxTime] /\ page \in [Processes -> Nat \ {0}]
      /\ attempt \in [Processes -> 1..MaxAttempts] /\ watermark \in 0..MaxTime
  BY DEF PollerInit, Times, PollerAssumption
<1> QED
  BY <1>1, <1>2, <1>3 DEF PollerInit, PollerTypeOK

LEMMA PageType ==
  ASSUME NEW s \in [Refs -> Times], NEW since, NEW n
  PROVE  Page(s, since, n) \subseteq Versions
  BY DEF Page, Rows, Versions

LEMMA SeenType ==
  ASSUME PollerTypeOK, NEW p \in Processes
  PROVE  Seen(p) \subseteq 0..MaxTime
  BY DEF PollerTypeOK, Seen, Versions, Times

\* Ending a sweep early, whatever of it is delivered, keeps the types.
LEMMA GiveUpType ==
  ASSUME PollerTypeOK, NEW p \in Processes, GiveUp(p),
         faults' \in 0..MaxFaults, crashes' \in 0..MaxCrashes, UNCHANGED backfills
  PROVE  PollerTypeOK'
  BY DEF PollerTypeOK, GiveUp, GoIdle, Stages, Versions, Times

LEMMA PollerTypeStep ==
  ASSUME PollerTypeOK, [PollerNext]_pollerVars
  PROVE  PollerTypeOK'
<1> USE DEF PollerTypeOK, store, memory, counters, Stages
<1>1. ASSUME Tick PROVE PollerTypeOK'
  BY <1>1 DEF Tick, Times
<1>2. ASSUME NEW r \in Refs, Touch(r) PROVE PollerTypeOK'
  <2>1. PICK t \in (clock - Lag)..clock :
           t > stamp[r] /\ stamp' = [stamp EXCEPT ![r] = t]
    BY <1>2 DEF Touch
  <2>2. t \in Times
    BY <2>1 DEF Times
  <2>3. disturbed' \in BOOLEAN
    BY <1>2 DEF Touch
  <2> QED
    BY <1>2, <2>1, <2>2, <2>3 DEF Touch
<1>3. ASSUME Reset PROVE PollerTypeOK'
  BY <1>3 DEF Reset, Processes
<1>4. ASSUME NEW p \in Processes, Begin(p) PROVE PollerTypeOK'
  BY <1>4 DEF Begin
<1>5. ASSUME NEW p \in Processes, Fetch(p) PROVE PollerTypeOK'
  BY <1>5, PageType DEF Fetch
<1>6. ASSUME NEW p \in Processes, Retry(p) PROVE PollerTypeOK'
  BY <1>6 DEF Retry
<1>7. ASSUME NEW p \in Processes, Refused(p) PROVE PollerTypeOK'
  BY <1>7, GiveUpType DEF Refused
<1>8. ASSUME NEW p \in Processes, Flush(p) PROVE PollerTypeOK'
  BY <1>8 DEF Flush
<1>9. ASSUME NEW p \in Processes, FlushFails(p) PROVE PollerTypeOK'
  BY <1>9, GiveUpType DEF FlushFails
<1>10. ASSUME NEW p \in Processes, Advance(p) PROVE PollerTypeOK'
  BY <1>10, SeenType DEF Advance, GoIdle
<1>11. ASSUME NEW p \in Processes, Crash(p) PROVE PollerTypeOK'
  BY <1>11, GiveUpType DEF Crash
<1>12. CASE UNCHANGED pollerVars
  BY <1>12 DEF pollerVars
<1> QED
  BY <1>1, <1>2, <1>3, <1>4, <1>5, <1>6, <1>7, <1>8, <1>9, <1>10, <1>11, <1>12
     DEF PollerNext, Step, Fault

(***************************************************************************)
(* Type correctness: the watermark, the sweeps and the bus hold what the   *)
(* code gives them in every reachable state.                               *)
(***************************************************************************)
THEOREM PollerTypeCorrect == PollerSpec => []PollerTypeOK
<1>1. PollerInit => PollerTypeOK
  BY PollerTypeInit
<1>2. PollerTypeOK /\ [PollerNext]_pollerVars => PollerTypeOK'
  BY PollerTypeStep
<1> QED
  BY <1>1, <1>2, PTL DEF PollerSpec
-----------------------------------------------------------------------------
(* The listing. *)

LEMMA RowNumberBounds ==
  ASSUME NEW s \in [Refs -> Times], NEW since \in Int, NEW r \in Rows(s, since)
  PROVE  /\ RowNumber(s, since, r) \in Nat
         /\ 1 <= RowNumber(s, since, r)
         /\ RowNumber(s, since, r) <= Cardinality(Rows(s, since))
         /\ Cardinality(Rows(s, since)) \in Nat
<1> DEFINE R == Rows(s, since)
           B == {q \in R : Before(s, q, r)}
<1>1. IsFiniteSet(R) /\ Cardinality(R) \in Nat
  BY FS_Subset, FS_CardinalityType DEF Rows
<1>2. IsFiniteSet(B) /\ Cardinality(B) \in Nat /\ Cardinality(B) <= Cardinality(R)
  BY <1>1, FS_Subset, FS_CardinalityType
<1>3. r \in B
  BY DEF Before, Rows, Times
<1>4. Cardinality(B) # 0
  BY <1>2, <1>3, FS_EmptySet
<1> QED
  BY <1>1, <1>2, <1>4 DEF RowNumber

\* No page has been read before the first one.
LEMMA NoPage ==
  ASSUME NEW s \in [Refs -> Times], NEW since \in Int
  PROVE  Upto(s, since, 0) = {}
  BY RowNumberBounds DEF Upto

\* A page continues those before it.
LEMMA NextPage ==
  ASSUME NEW s \in [Refs -> Times], NEW since \in Int, NEW n \in Nat \ {0}
  PROVE  Upto(s, since, n) \subseteq Upto(s, since, n - 1) \cup Page(s, since, n)
<1> SUFFICES ASSUME NEW q \in Rows(s, since), RowNumber(s, since, q) <= n * PageSize
             PROVE  \/ RowNumber(s, since, q) <= (n - 1) * PageSize
                    \/ (n - 1) * PageSize < RowNumber(s, since, q)
  BY DEF Upto, Page
<1>1. (n - 1) * PageSize \in Int
  OBVIOUS
<1> QED
  BY <1>1, RowNumberBounds

\* When there are no more, every row has been read.
LEMMA LastPage ==
  ASSUME NEW s \in [Refs -> Times], NEW since \in Int, NEW n \in Nat \ {0},
         ~HasMore(s, since, n), NEW r \in Rows(s, since)
  PROVE  <<r, s[r]>> \in Upto(s, since, n)
<1>1. n * PageSize \in Int
  OBVIOUS
<1> QED
  BY <1>1, RowNumberBounds DEF HasMore, Upto
-----------------------------------------------------------------------------
(* What the watermark covers. *)

\* Every record that changed before time t, less the overlap, is on the bus.
Covered(t) == \A r \in Refs : stamp[r] < t - Overlap => OnBus(r)

\* No time that anyone holds is ahead of the vendor's clock.
ClockInv ==
    /\ watermark <= clock
    /\ \A r \in Refs : stamp[r] <= clock
    /\ \A p \in Processes :
          /\ start[p] <= clock
          /\ \A v \in queued[p] : v[2] <= clock

\* Between sweeps a process holds nothing.
IdleInv ==
    \A p \in Processes : pc[p] \in {"idle", "begin"} => queued[p] = {} /\ page[p] = 1

\* A sweep covers what its watermark covered and the pages it has read; at
\* its end, all that it has seen.
SweepInv ==
    \A p \in Processes :
        /\ pc[p] = "fetch" =>
              /\ Covered(start[p])
              /\ Upto(stamp, Since(p), page[p] - 1) \subseteq queued[p]
        /\ pc[p] = "flush" =>
              \A t \in Seen(p), r \in Refs :
                  stamp[r] < t - Overlap => OnBus(r) \/ <<r, stamp[r]>> \in queued[p]
        /\ pc[p] = "advance" => \A t \in Seen(p) : Covered(t)

PollerInv ==
    /\ PollerTypeOK
    /\ ClockInv
    /\ IdleInv
    /\ ~disturbed => Covered(watermark) /\ SweepInv

LEMMA SinceType ==
  ASSUME PollerTypeOK, NEW p \in Processes
  PROVE  Since(p) \in Int
  BY DEF PollerTypeOK, Since

\* A process that ends its sweep leaves the others and the watermark alone.
LEMMA EndKeeps ==
  ASSUME PollerInv, NEW p \in Processes, GoIdle(p), bus \subseteq bus',
         UNCHANGED <<clock, stamp, disturbed>>, PollerTypeOK',
         watermark' <= clock, ~disturbed => Covered(watermark')
  PROVE  PollerInv'
<1> USE DEF PollerInv, GoIdle
<1>1. ClockInv' /\ IdleInv'
  BY DEF ClockInv, IdleInv, PollerTypeOK, Times
<1>2. ASSUME ~disturbed PROVE Covered(watermark)' /\ SweepInv'
  <2>1. Covered(watermark)'
    BY <1>2 DEF Covered, OnBus
  <2>2. ASSUME NEW q \in Processes, q # p
        PROVE  /\ pc'[q] = pc[q] /\ start'[q] = start[q] /\ page'[q] = page[q]
               /\ queued'[q] = queued[q] /\ Since(q)' = Since(q) /\ Seen(q)' = Seen(q)
    BY <2>2 DEF PollerTypeOK, Since, Seen
  <2>3. pc'[p] = "idle"
    BY DEF PollerTypeOK
  <2>4. SweepInv'
    BY <1>2, <2>2, <2>3 DEF SweepInv, Covered, OnBus
  <2> QED
    BY <2>1, <2>4
<1> QED
  BY <1>1, <1>2

LEMMA PollerInvInit == PollerInit => PollerInv
<1> SUFFICES ASSUME PollerInit PROVE PollerInv
  OBVIOUS
<1>1. \A r \in Refs : ~(stamp[r] < watermark - Overlap)
  BY DEF PollerInit, PollerAssumption
<1> QED
  BY <1>1, PollerTypeInit DEF PollerInit, PollerInv, ClockInv, IdleInv, SweepInv, Covered

\* A change of the vendor is stamped within the overlap of every watermark.
LEMMA TouchStep ==
  ASSUME PollerInv, NEW r \in Refs, Touch(r), PollerTypeOK'
  PROVE  PollerInv'
<1> USE DEF PollerInv
<1>1. PICK t \in (clock - Lag)..clock :
         /\ t > stamp[r] /\ stamp' = [stamp EXCEPT ![r] = t]
         /\ disturbed' = 
               \/ disturbed
               \/ \E p \in Processes :
                     /\ pc[p] = "fetch"
                     /\ Upto(stamp', Since(p), page[p] - 1) # Upto(stamp, Since(p), page[p] - 1)
         /\ UNCHANGED <<clock, store, memory, counters>>
  BY DEF Touch
<1> USE DEF store, memory, counters
<1>2. ClockInv' /\ IdleInv'
  BY <1>1 DEF ClockInv, IdleInv, PollerTypeOK, Times
<1>3. ASSUME NEW u \in 0..MaxTime, u <= clock, NEW q \in Refs, stamp'[q] < u - Overlap
      PROVE  q # r /\ stamp'[q] = stamp[q]
  BY <1>1, <1>3 DEF PollerTypeOK, Times, PollerAssumption
<1>4. ASSUME NEW u \in 0..MaxTime, u <= clock, Covered(u)
      PROVE  Covered(u)'
  BY <1>1, <1>3, <1>4 DEF Covered, OnBus
<1>5. ASSUME ~disturbed' PROVE Covered(watermark)' /\ SweepInv'
  <2>1. ~disturbed /\ Covered(watermark) /\ SweepInv
    BY <1>1, <1>5
  <2>2. Covered(watermark)'
    BY <1>1, <1>4, <2>1 DEF ClockInv, PollerTypeOK, Covered, OnBus
  <2>3. ASSUME NEW p \in Processes
        PROVE  /\ start[p] \in 0..MaxTime /\ start[p] <= clock
               /\ Seen(p)' = Seen(p) /\ Since(p)' = Since(p)
               /\ \A u \in Seen(p) : u \in 0..MaxTime /\ u <= clock
    <3>1. start[p] \in 0..MaxTime /\ start[p] <= clock
      BY DEF ClockInv, PollerTypeOK
    <3>2. Seen(p)' = Seen(p) /\ Since(p)' = Since(p)
      BY <1>1 DEF Seen, Since
    <3>3. Seen(p) \subseteq 0..MaxTime
      BY SeenType
    <3>4. \A u \in Seen(p) : u <= clock
      BY <3>1 DEF ClockInv, Seen
    <3> QED
      BY <3>1, <3>2, <3>3, <3>4
  <2>4. ASSUME NEW p \in Processes, pc[p] = "fetch"
        PROVE  Covered(start[p])' /\ Upto(stamp', Since(p), page[p] - 1) \subseteq queued[p]
    BY <1>1, <1>4, <1>5, <2>1, <2>3, <2>4 DEF SweepInv, Covered, OnBus
  <2>5. ASSUME NEW p \in Processes, pc[p] = "flush", NEW u \in Seen(p), NEW q \in Refs,
               stamp'[q] < u - Overlap
        PROVE  <<q, stamp'[q]>> \in bus \cup queued[p]
    BY <1>3, <2>1, <2>3, <2>5 DEF SweepInv, OnBus
  <2>6. ASSUME NEW p \in Processes, pc[p] = "advance", NEW u \in Seen(p)
        PROVE  Covered(u)'
    BY <1>4, <2>1, <2>3, <2>6 DEF SweepInv
  <2>7. SweepInv'
    <3>1. UNCHANGED <<pc, start, page, queued, bus>>
      BY <1>1
    <3>2. ASSUME NEW p \in Processes
          PROVE  /\ pc'[p] = "fetch" =>
                       /\ Covered(start[p])'
                       /\ Upto(stamp', Since(p)', page'[p] - 1) \subseteq queued'[p]
                 /\ pc'[p] = "flush" =>
                       \A u \in Seen(p)', q \in Refs : stamp'[q] < u - Overlap =>
                           <<q, stamp'[q]>> \in bus' \/ <<q, stamp'[q]>> \in queued'[p]
                 /\ pc'[p] = "advance" => \A u \in Seen(p)' : Covered(u)'
      BY <2>3, <2>4, <2>5, <2>6, <3>1 DEF Covered, OnBus
    <3> QED
      BY <3>2 DEF SweepInv, Covered, OnBus
  <2> QED
    BY <2>2, <2>7
<1> QED
  BY <1>2, <1>5

LEMMA BeginStep ==
  ASSUME PollerInv, NEW p \in Processes, Begin(p), PollerTypeOK'
  PROVE  PollerInv'
<1> USE DEF PollerInv, Begin, store, counters
<1>1. pc[p] \in {"idle", "begin"} /\ queued[p] = {} /\ page[p] = 1
  BY DEF IdleInv
<1>2. ClockInv' /\ IdleInv'
  BY DEF ClockInv, IdleInv, PollerTypeOK
<1>3. ASSUME ~disturbed PROVE Covered(watermark)' /\ SweepInv'
  <2>1. Covered(watermark)'
    BY <1>3 DEF Covered, OnBus
  <2>2. ASSUME NEW q \in Processes, q # p
        PROVE  /\ pc'[q] = pc[q] /\ start'[q] = start[q]
               /\ Since(q)' = Since(q) /\ Seen(q)' = Seen(q)
    BY <2>2 DEF PollerTypeOK, Since, Seen
  <2>3. pc'[p] = "fetch" /\ start'[p] = watermark
    BY DEF PollerTypeOK
  <2>4. Upto(stamp', Since(p)', page'[p] - 1) = {}
    <3>1. Since(p)' \in Int /\ page'[p] - 1 = 0 /\ stamp' \in [Refs -> Times]
      BY <1>1 DEF PollerTypeOK, Since
    <3> QED
      BY <3>1, NoPage
  <2>5. SweepInv'
    BY <1>3, <2>1, <2>2, <2>3, <2>4 DEF SweepInv, Covered, OnBus
  <2> QED
    BY <2>1, <2>5
<1> QED
  BY <1>2, <1>3

LEMMA FetchStep ==
  ASSUME PollerInv, NEW p \in Processes, Fetch(p), PollerTypeOK'
  PROVE  PollerInv'
<1> USE DEF PollerInv, store, counters
<1> DEFINE n == page[p]
           since == Since(p)
<1>1. /\ n \in Nat \ {0} /\ since \in Int /\ stamp \in [Refs -> Times]
      /\ start[p] \in 0..MaxTime
  BY SinceType DEF PollerTypeOK
<1>2. /\ UNCHANGED <<clock, stamp, watermark, bus, start, disturbed>>
      /\ pc[p] = "fetch" /\ pc'[p] \in {"fetch", "flush"}
      /\ pc'[p] = "fetch" => page'[p] = n + 1
      /\ pc'[p] = "flush" => ~HasMore(stamp, since, n)
      /\ queued'[p] = queued[p] \cup Page(stamp, since, n)
  BY DEF Fetch, PollerTypeOK
<1>3. ASSUME NEW q \in Processes, q # p
      PROVE  pc'[q] = pc[q] /\ page'[q] = page[q] /\ queued'[q] = queued[q]
  BY <1>3 DEF Fetch, PollerTypeOK
<1>4. \A v \in Page(stamp, since, n) : v[2] <= clock
  BY DEF ClockInv, Page, Rows
<1>5. ClockInv'
  BY <1>2, <1>3, <1>4 DEF ClockInv
<1>6. IdleInv'
  BY <1>2, <1>3 DEF IdleInv
<1>7. ASSUME ~disturbed PROVE Covered(watermark)' /\ SweepInv'
  <2>1. Covered(watermark)'
    BY <1>2, <1>7 DEF Covered, OnBus
  <2>2. Covered(start[p]) /\ Upto(stamp, since, n - 1) \subseteq queued[p]
    BY <1>2, <1>7 DEF SweepInv
  <2>3. Upto(stamp, since, n) \subseteq queued'[p]
    BY <1>1, <1>2, <2>2, NextPage
  <2>4. ASSUME pc'[p] = "flush", NEW r \in Refs, NEW t \in 0..MaxTime, stamp[r] < t - Overlap
        PROVE  OnBus(r) \/ <<r, stamp[r]>> \in queued'[p]
    <3>1. CASE r \in Rows(stamp, since)
      BY <1>1, <1>2, <2>3, <2>4, <3>1, LastPage
    <3>2. CASE r \notin Rows(stamp, since)
      <4>1. stamp[r] \in Times /\ stamp[r] < since
        BY <1>1, <3>2 DEF Rows, Times, PollerAssumption
      <4>2. stamp[r] < start[p] - Overlap
        BY <1>1, <4>1 DEF Since, Times
      <4> QED
        BY <2>2, <4>2 DEF Covered
    <3> QED
      BY <3>1, <3>2
  <2>5. ASSUME NEW q \in Processes
        PROVE  Since(q)' = Since(q) /\ (q # p => Seen(q)' = Seen(q))
    BY <1>2, <1>3 DEF Since, Seen
  <2>6. Seen(p)' \subseteq 0..MaxTime
    BY DEF PollerTypeOK, Seen, Versions, Times
  <2>7. pc'[p] = "fetch" => Upto(stamp', Since(p)', page'[p] - 1) \subseteq queued'[p]
    BY <1>1, <1>2, <2>3, <2>5
  <2>8. SweepInv'
    <3>1. \A r \in Refs : OnBus(r)' <=> OnBus(r)
      BY <1>2 DEF OnBus
    <3>2. \A t : Covered(t)' <=> Covered(t)
      BY <1>2, <3>1 DEF Covered
    <3>3. ASSUME NEW q \in Processes, q # p
          PROVE  /\ pc'[q] = "fetch" =>
                       /\ Covered(start[q])'
                       /\ Upto(stamp', Since(q)', page'[q] - 1) \subseteq queued'[q]
                 /\ pc'[q] = "flush" =>
                       \A t \in Seen(q)', r \in Refs : stamp'[r] < t - Overlap =>
                           OnBus(r)' \/ <<r, stamp'[r]>> \in queued'[q]
                 /\ pc'[q] = "advance" => \A t \in Seen(q)' : Covered(t)'
      BY <1>2, <1>3, <1>7, <2>5, <3>1, <3>2, <3>3 DEF SweepInv
    <3>4. /\ pc'[p] = "fetch" => Covered(start[p])'
          /\ pc'[p] = "flush" =>
                \A t \in Seen(p)', r \in Refs : stamp'[r] < t - Overlap =>
                    OnBus(r)' \/ <<r, stamp'[r]>> \in queued'[p]
          /\ pc'[p] # "advance"
      BY <1>2, <2>2, <2>4, <2>6, <3>1, <3>2
    <3> QED
      BY <2>7, <3>3, <3>4 DEF SweepInv
  <2> QED
    BY <2>1, <2>8
<1> QED
  BY <1>2, <1>5, <1>6, <1>7

LEMMA FlushStep ==
  ASSUME PollerInv, NEW p \in Processes, Flush(p), PollerTypeOK'
  PROVE  PollerInv'
<1> USE DEF PollerInv, Flush, counters
<1>1. ClockInv' /\ IdleInv'
  BY DEF ClockInv, IdleInv, PollerTypeOK
<1>2. ASSUME ~disturbed PROVE Covered(watermark)' /\ SweepInv'
  <2>1. /\ bus' = bus \cup queued[p] /\ UNCHANGED <<stamp, start, page, queued>>
        /\ pc[p] = "flush" /\ pc'[p] = "advance" /\ \A q \in Processes : q # p => pc'[q] = pc[q]
    BY DEF PollerTypeOK
  <2>2. \A q \in Processes : Since(q)' = Since(q) /\ Seen(q)' = Seen(q)
    BY <2>1 DEF Since, Seen
  <2>3. \A t \in Seen(p) : Covered(t)'
    BY <1>2, <2>1 DEF SweepInv, Covered, OnBus
  <2>4. SweepInv'
    BY <1>2, <2>1, <2>2, <2>3 DEF SweepInv, Covered, OnBus
  <2> QED
    BY <1>2, <2>1, <2>4 DEF Covered, OnBus
<1> QED
  BY <1>1, <1>2

LEMMA AdvanceStep ==
  ASSUME PollerInv, NEW p \in Processes, Advance(p), PollerTypeOK'
  PROVE  PollerInv'
<1> USE DEF PollerInv
<1>1. PICK highest \in Seen(p) :
         watermark' = IF highest # start[p] THEN highest ELSE watermark
  BY DEF Advance
<1>2. highest <= clock
  BY DEF ClockInv, Seen
<1>3. pc[p] = "advance" /\ GoIdle(p) /\ UNCHANGED <<clock, stamp, bus, disturbed>>
  BY DEF Advance
<1>4. ~disturbed => Covered(watermark')
  BY <1>1, <1>3 DEF SweepInv
<1>5. watermark' <= clock
  BY <1>1, <1>2 DEF ClockInv
<1> QED
  BY <1>3, <1>4, <1>5, EndKeeps

LEMMA GiveUpStep ==
  ASSUME PollerInv, NEW p \in Processes, GiveUp(p), PollerTypeOK'
  PROVE  PollerInv'
<1>1. /\ bus \subseteq bus' /\ GoIdle(p)
      /\ UNCHANGED <<clock, stamp, watermark, disturbed>>
  BY DEF GiveUp
<1> QED
  BY <1>1, EndKeeps DEF PollerInv, ClockInv

LEMMA PollerInvStep ==
  ASSUME PollerInv, [PollerNext]_pollerVars
  PROVE  PollerInv'
<1> USE DEF PollerInv, store, memory, counters
<1>0. PollerTypeOK'
  BY PollerTypeStep
<1>1. ASSUME Tick PROVE PollerInv'
  <2>1. ClockInv' /\ IdleInv'
    <3>1. \A p \in Processes : \A v \in queued[p] : v[2] \in Int
      BY DEF PollerTypeOK, Versions, Times
    <3>2. \A n \in Int : n <= clock => n <= clock + 1
      BY DEF PollerTypeOK, Times
    <3>3. ClockInv'
      BY <1>1, <3>1, <3>2 DEF Tick, ClockInv, PollerTypeOK, Times
    <3>4. IdleInv'
      BY <1>1 DEF Tick, IdleInv
    <3> QED
      BY <3>3, <3>4
  <2>2. \A q \in Processes : Since(q)' = Since(q) /\ Seen(q)' = Seen(q)
    BY <1>1 DEF Tick, Since, Seen
  <2> QED
    BY <1>0, <1>1, <2>1, <2>2 DEF Tick, SweepInv, Covered, OnBus
<1>2. ASSUME NEW r \in Refs, Touch(r) PROVE PollerInv'
  BY <1>0, <1>2, TouchStep
<1>3. ASSUME Reset PROVE PollerInv'
  <2>1. ClockInv' /\ IdleInv'
    BY <1>3 DEF Reset, ClockInv, IdleInv, PollerTypeOK, Times, Processes
  <2>2. \A q \in Processes : Since(q)' = Since(q) /\ Seen(q)' = Seen(q)
    BY <1>3 DEF Reset, Since, Seen
  <2>3. watermark' = 0 /\ UNCHANGED <<stamp, bus, disturbed, queued, page, start>>
    BY <1>3 DEF Reset
  <2>4. Covered(watermark)'
    BY <2>3 DEF Covered, PollerTypeOK, Times, PollerAssumption
  <2>5. pc'["backfill"] = "begin" /\ \A q \in Processes : q # "backfill" => pc'[q] = pc[q]
    BY <1>3 DEF Reset, PollerTypeOK, Processes
  <2>6. ASSUME ~disturbed PROVE SweepInv'
    BY <2>2, <2>3, <2>5, <2>6 DEF SweepInv, Covered, OnBus
  <2> QED
    BY <1>0, <2>1, <2>3, <2>4, <2>6
<1>4. ASSUME NEW p \in Processes, Begin(p) PROVE PollerInv'
  BY <1>0, <1>4, BeginStep
<1>5. ASSUME NEW p \in Processes, Fetch(p) PROVE PollerInv'
  BY <1>0, <1>5, FetchStep
<1>6. ASSUME NEW p \in Processes, Retry(p) PROVE PollerInv'
  <2>1. \A q \in Processes : Since(q)' = Since(q) /\ Seen(q)' = Seen(q)
    BY <1>6 DEF Retry, Since, Seen
  <2> QED
    BY <1>0, <1>6, <2>1 DEF Retry, ClockInv, IdleInv, SweepInv, Covered, OnBus
<1>7. ASSUME NEW p \in Processes, Refused(p) \/ FlushFails(p) \/ Crash(p) PROVE PollerInv'
  BY <1>0, <1>7, GiveUpStep DEF Refused, FlushFails, Crash
<1>8. ASSUME NEW p \in Processes, Flush(p) PROVE PollerInv'
  BY <1>0, <1>8, FlushStep
<1>9. ASSUME NEW p \in Processes, Advance(p) PROVE PollerInv'
  BY <1>0, <1>9, AdvanceStep
<1>10. CASE UNCHANGED pollerVars
  <2>1. \A q \in Processes : Since(q)' = Since(q) /\ Seen(q)' = Seen(q)
    BY <1>10 DEF pollerVars, Since, Seen
  <2> QED
    BY <1>0, <1>10, <2>1 DEF pollerVars, ClockInv, IdleInv, SweepInv, Covered, OnBus
<1> QED
  BY <1>1, <1>2, <1>3, <1>4, <1>5, <1>6, <1>7, <1>8, <1>9, <1>10 DEF PollerNext, Step, Fault

(***************************************************************************)
(* What changed before the watermark, less the overlap, is on the bus,     *)
(* unless a listing has moved under a sweep (rule 1 of poller.py): with    *)
(* two processes sweeping, and requests, flushes and processes failing.    *)
(***************************************************************************)
THEOREM WatermarkIsSafe == PollerSpec => []WatermarkCovers
<1>1. PollerInit => PollerInv
  BY PollerInvInit
<1>2. PollerInv /\ [PollerNext]_pollerVars => PollerInv'
  BY PollerInvStep
<1>3. PollerInv => WatermarkCovers
  BY DEF PollerInv, WatermarkCovers, NothingSkipped, Covered
<1> QED
  BY <1>1, <1>2, <1>3, PTL DEF PollerSpec
-----------------------------------------------------------------------------
-----------------------------------------------------------------------------
(* The two tiers. *)

HIDE PollerAssumption

USE VendorAssumption DEF Tiers, NoStamp, Offsets

LEMMA TypeInit == Init => TypeOK
  BY DEF Init, TypeOK, RawDoc, CuratedDoc

\* What the two kinds of write leave of a document.
LEMMA RawWriteType ==
  ASSUME TypeOK, NEW i \in Offsets, RawWrite(i)
  PROVE  raw' \in [Keys -> RawDoc] /\ UNCHANGED curated
  BY DEF TypeOK, RawWrite, RawDoc, Messages

LEMMA CuratedWriteType ==
  ASSUME TypeOK, NEW i \in Offsets, CuratedWrite(i)
  PROVE  curated' \in [Keys -> CuratedDoc] /\ UNCHANGED raw
<1>1. log[i].key \in Keys /\ log[i].stamp \in 0..MaxStamp
  BY DEF TypeOK, Messages
<1>2. ASSUME NEW doc \in CuratedDoc
      PROVE  Curated(doc, log[i], i) \in CuratedDoc
  BY <1>1 DEF Curated, CuratedDoc
<1> QED
  BY <1>1, <1>2 DEF TypeOK, CuratedWrite

LEMMA TypeStep == TypeOK /\ [Next]_vars => TypeOK'
<1> SUFFICES ASSUME TypeOK, [Next]_vars PROVE TypeOK'
  OBVIOUS
<1>1. ASSUME NEW t \in Tiers, Poll(t) PROVE TypeOK'
  BY <1>1 DEF TypeOK, Poll
<1>2. ASSUME NEW t \in Tiers, Write(t) PROVE TypeOK'
  <2> PICK i \in pending[t] :
        /\ pending' = [pending EXCEPT ![t] = @ \ {i}]
        /\ IF t = "raw" THEN RawWrite(i) ELSE CuratedWrite(i)
    BY <1>2 DEF Write
  <2>1. i \in Offsets
    BY DEF TypeOK
  <2>2. raw' \in [Keys -> RawDoc] /\ curated' \in [Keys -> CuratedDoc]
    BY <2>1, RawWriteType, CuratedWriteType DEF TypeOK
  <2> QED
    BY <1>2, <2>2 DEF TypeOK, Write
<1>3. ASSUME NEW t \in Tiers, WriteFails(t) PROVE TypeOK'
  BY <1>3 DEF TypeOK, WriteFails
<1>4. ASSUME NEW t \in Tiers, Commit(t) PROVE TypeOK'
  BY <1>4 DEF TypeOK, Commit
<1>5. ASSUME NEW t \in Tiers, Restart(t) PROVE TypeOK'
  BY <1>5 DEF TypeOK, Restart
<1>6. CASE UNCHANGED vars
  BY <1>6 DEF TypeOK, vars
<1> QED
  BY <1>1, <1>2, <1>3, <1>4, <1>5, <1>6 DEF Next

(***************************************************************************)
(* Every state of every behaviour is well typed.                           *)
(***************************************************************************)
THEOREM TypeCorrect == Spec => []TypeOK
  BY TypeInit, TypeStep, PTL DEF Spec
-----------------------------------------------------------------------------
LEMMA PendingStep ==
  ASSUME TypeOK, PendingInv, [Next]_vars
  PROVE  PendingInv'
<1> USE DEF TypeOK, PendingInv
<1>1. ASSUME NEW t \in Tiers, Poll(t) PROVE PendingInv'
  BY <1>1 DEF Poll
<1>2. ASSUME NEW t \in Tiers, Write(t) PROVE PendingInv'
  BY <1>2 DEF Write
<1>3. ASSUME NEW t \in Tiers, WriteFails(t) PROVE PendingInv'
  BY <1>3 DEF WriteFails
<1>4. ASSUME NEW t \in Tiers, Commit(t) PROVE PendingInv'
  BY <1>4 DEF Commit
<1>5. ASSUME NEW t \in Tiers, Restart(t) PROVE PendingInv'
  BY <1>5 DEF Restart
<1>6. CASE UNCHANGED vars
  BY <1>6 DEF vars
<1> QED
  BY <1>1, <1>2, <1>3, <1>4, <1>5, <1>6 DEF Next

(***************************************************************************)
(* A step either touches no document and deals with no record it had not   *)
(* dealt with before, or it writes one record to one tier.                 *)
(***************************************************************************)
WritesNothing ==
    /\ UNCHANGED <<log, raw, curated>>
    /\ \A t \in Tiers : Handled(t)' \subseteq Handled(t)

WritesOne(t, i) ==
    /\ UNCHANGED log
    /\ i \in Offsets
    /\ IF t = "raw" THEN RawWrite(i) ELSE CuratedWrite(i)
    /\ Handled(t)' \subseteq Handled(t) \cup {i}
    /\ \A u \in Tiers \ {t} : Handled(u)' = Handled(u)

LEMMA StepShape ==
  ASSUME TypeOK, PendingInv, [Next]_vars
  PROVE  WritesNothing \/ \E t \in Tiers, i \in Offsets : WritesOne(t, i)
<1> USE DEF TypeOK, PendingInv, Handled
<1>1. ASSUME NEW t \in Tiers, Poll(t) PROVE WritesNothing
  BY <1>1 DEF Poll, WritesNothing
<1>2. ASSUME NEW t \in Tiers, Write(t) PROVE \E i \in Offsets : WritesOne(t, i)
  BY <1>2 DEF Write, WritesOne
<1>3. ASSUME NEW t \in Tiers, WriteFails(t) PROVE WritesNothing
  BY <1>3 DEF WriteFails, WritesNothing
<1>4. ASSUME NEW t \in Tiers, Commit(t) PROVE WritesNothing
  BY <1>4 DEF Commit, WritesNothing
<1>5. ASSUME NEW t \in Tiers, Restart(t) PROVE WritesNothing
  BY <1>5 DEF Restart, WritesNothing
<1>6. CASE UNCHANGED vars
  BY <1>6 DEF vars, WritesNothing
<1> QED
  BY <1>1, <1>2, <1>3, <1>4, <1>5, <1>6 DEF Next

\* What one write leaves of the origin and the stamp of every document.
LEMMA RawWriteEffect ==
  ASSUME TypeOK, NEW i \in Offsets, RawWrite(i)
  PROVE  \A k \in Keys :
           LET new == k = log[i].key /\ WriteApplies(raw[k], log[i])
           IN  /\ raw'[k].from = IF new THEN i ELSE raw[k].from
               /\ raw'[k].stamp = IF new THEN log[i].stamp ELSE raw[k].stamp
  BY DEF TypeOK, RawWrite

LEMMA CuratedWriteEffect ==
  ASSUME TypeOK, NEW i \in Offsets, CuratedWrite(i)
  PROVE  \A k \in Keys :
           LET new == k = log[i].key /\ Resolves(log[i]) /\ CurationApplies(curated[k], log[i])
           IN  /\ curated'[k].from = IF new THEN i ELSE curated[k].from
               /\ curated'[k].stamp = IF new THEN log[i].stamp ELSE curated[k].stamp
<1> DEFINE m == log[i]
           new(k) == k = m.key /\ Resolves(m) /\ CurationApplies(curated[k], m)
<1>1. m.key \in Keys /\ m.stamp \in 0..MaxStamp
  BY DEF TypeOK, Messages
<1> SUFFICES ASSUME NEW k \in Keys
             PROVE  /\ curated'[k].from = IF new(k) THEN i ELSE curated[k].from
                    /\ curated'[k].stamp = IF new(k) THEN m.stamp ELSE curated[k].stamp
  OBVIOUS
<1>2. CASE new(k)
  <2>1. curated'[k] = Curated(curated[k], m, i)
    BY <1>2 DEF TypeOK, CuratedWrite
  <2> QED
    BY <1>1, <1>2, <2>1 DEF Curated, CurationApplies
<1>3. CASE ~new(k)
  <2>1. curated'[k] = curated[k]
    BY <1>3 DEF TypeOK, CuratedWrite
  <2> QED
    BY <1>3, <2>1
<1> QED
  BY <1>2, <1>3

\* One write to the raw tier.
LEMMA RawWriteInv ==
  ASSUME IInv, NEW i \in Offsets, WritesOne("raw", i)
  PROVE  UndatedNeverDisplaces' /\ RawKeepsUp' /\ CuratedKeepsUp'
<1> DEFINE m == log[i]
           new(k) == k = m.key /\ WriteApplies(raw[k], m)
<1>1. /\ m.key \in Keys /\ m.stamp \in 0..MaxStamp /\ i # 0
      /\ UNCHANGED <<log, curated>>
      /\ \A j \in Offsets : log[j].stamp \in 0..MaxStamp
      /\ \A k \in Keys : raw[k].from \in 0..LogLen /\ raw[k].stamp \in 0..MaxStamp
  BY SMTT(30) DEF IInv, TypeOK, Messages, RawDoc, WritesOne, RawWrite
<1>2. \A k \in Keys :
        /\ raw'[k].from = IF new(k) THEN i ELSE raw[k].from
        /\ raw'[k].stamp = IF new(k) THEN m.stamp ELSE raw[k].stamp
  BY RawWriteEffect DEF IInv, WritesOne
<1>3. UndatedNeverDisplaces'
  BY <1>1, <1>2 DEF IInv, UndatedNeverDisplaces
<1>4. CuratedKeepsUp'
  BY <1>1 DEF IInv, WritesOne, CuratedKeepsUp, Resolves
<1>5. ASSUME NEW k \in Keys, Dated(k)
      PROVE  /\ raw[k].from # 0 => raw[k].stamp # NoStamp
             /\ k = m.key => m.stamp # NoStamp
  BY <1>1, <1>5 DEF Dated, OfKey, IInv, UndatedNeverDisplaces
<1>6. ASSUME NEW k \in Keys, Dated(k)
      PROVE  /\ raw[k].from # 0 => raw'[k].from # 0
             /\ raw[k].stamp <= raw'[k].stamp
             /\ k = m.key => raw'[k].from # 0 /\ m.stamp <= raw'[k].stamp
  <2>1. raw[k].from = 0 => raw[k].stamp = NoStamp
    BY DEF IInv, UndatedNeverDisplaces
  <2> QED
    BY <1>1, <1>2, <1>5, <1>6, <2>1 DEF WriteApplies
<1>7. RawKeepsUp'
  <2> SUFFICES ASSUME NEW k \in Keys, Dated(k),
                      NEW j \in OfKey(k), j \in Handled("raw")'
               PROVE  raw'[k].from # 0 /\ log[j].stamp <= raw'[k].stamp
    BY <1>1 DEF RawKeepsUp, Dated, OfKey
  <2>1. CASE j = i
    BY <1>6, <2>1 DEF OfKey
  <2>2. CASE j # i
    <3>1. raw[k].from # 0 /\ log[j].stamp <= raw[k].stamp
      BY <2>2 DEF WritesOne, RawKeepsUp, IInv
    <3>2. /\ log[j].stamp \in Int /\ raw[k].stamp \in Int
          /\ raw'[k].stamp \in Int
      BY <1>1, <1>2 DEF OfKey
    <3> QED
      BY <1>6, <3>1, <3>2
  <2> QED
    BY <2>1, <2>2
<1> QED
  BY <1>3, <1>4, <1>7

\* One write to the semantic tier.
LEMMA CuratedWriteInv ==
  ASSUME IInv, NEW i \in Offsets, WritesOne("curated", i)
  PROVE  UndatedNeverDisplaces' /\ RawKeepsUp' /\ CuratedKeepsUp'
<1> DEFINE m == log[i]
           new(k) == k = m.key /\ Resolves(m) /\ CurationApplies(curated[k], m)
<1>1. /\ m.key \in Keys /\ m.stamp \in 0..MaxStamp /\ i # 0
      /\ UNCHANGED <<log, raw>>
      /\ \A j \in Offsets : log[j].key \in Keys /\ log[j].stamp \in 0..MaxStamp
      /\ \A k \in Keys : curated[k].from \in 0..LogLen /\ curated[k].stamp \in 0..MaxStamp
  <2>1. UNCHANGED <<log, raw>>
    BY DEF WritesOne, CuratedWrite
  <2>2. \A j \in Offsets : log[j].key \in Keys /\ log[j].stamp \in 0..MaxStamp
    BY DEF IInv, TypeOK, Messages
  <2>3. \A k \in Keys : curated[k].from \in 0..LogLen /\ curated[k].stamp \in 0..MaxStamp
    BY DEF IInv, TypeOK, CuratedDoc
  <2> QED
    BY <2>1, <2>2, <2>3
<1>2. \A k \in Keys :
        /\ curated'[k].from = IF new(k) THEN i ELSE curated[k].from
        /\ curated'[k].stamp = IF new(k) THEN m.stamp ELSE curated[k].stamp
  BY CuratedWriteEffect DEF IInv, WritesOne
<1>3. UndatedNeverDisplaces'
  BY <1>1, <1>2 DEF IInv, UndatedNeverDisplaces
<1>4. RawKeepsUp'
  BY <1>1 DEF IInv, WritesOne, RawKeepsUp, Dated, OfKey
<1>5. CuratedKeepsUp'
  <2> SUFFICES ASSUME NEW j \in Offsets, j \in Handled("curated")', Resolves(log[j])
               PROVE  log[j].stamp <= curated'[log[j].key].stamp
    <3>1. Handled("curated")' \subseteq Offsets
      BY DEF Handled, IInv, TypeOK, WritesOne
    <3> QED
      BY <1>1, <3>1 DEF CuratedKeepsUp, Resolves
  <2>1. curated[log[j].key].stamp <= curated'[log[j].key].stamp
    BY <1>1, <1>2 DEF CurationApplies
  <2>2. CASE j = i
    BY <1>1, <1>2, <2>2 DEF CurationApplies
  <2>3. CASE j # i
    <3>1. log[j].stamp <= curated[log[j].key].stamp
      BY <2>3 DEF WritesOne, CuratedKeepsUp, IInv
    <3>2. /\ log[j].stamp \in Int /\ curated[log[j].key].stamp \in Int
          /\ curated'[log[j].key].stamp \in Int
      BY <1>1, <1>2
    <3> QED
      BY <2>1, <3>1, <3>2
  <2> QED
    BY <2>2, <2>3
<1> QED
  BY <1>3, <1>4, <1>5

LEMMA IInvInit == Init => IInv
<1> SUFFICES ASSUME Init PROVE IInv
  OBVIOUS
<1>1. TypeOK
  BY TypeInit
<1>2. \A t \in Tiers : Handled(t) = {}
  BY DEF Init, Handled
<1>3. PendingInv /\ UndatedNeverDisplaces
  BY DEF Init, PendingInv, UndatedNeverDisplaces
<1>4. RawKeepsUp /\ CuratedKeepsUp
  BY <1>2 DEF RawKeepsUp, CuratedKeepsUp
<1> QED
  BY <1>1, <1>3, <1>4 DEF IInv

LEMMA IInvStep == IInv /\ [Next]_vars => IInv'
<1> SUFFICES ASSUME IInv, [Next]_vars PROVE IInv'
  OBVIOUS
<1>1. TypeOK' /\ PendingInv'
  BY TypeStep, PendingStep DEF IInv
<1>2. CASE WritesNothing
  <2>1. UndatedNeverDisplaces'
    BY <1>2 DEF WritesNothing, IInv, UndatedNeverDisplaces
  <2>2. RawKeepsUp'
    BY <1>2 DEF WritesNothing, IInv, RawKeepsUp, Dated, OfKey
  <2>3. CuratedKeepsUp'
    BY <1>2 DEF WritesNothing, IInv, CuratedKeepsUp, Resolves
  <2> QED
    BY <1>1, <2>1, <2>2, <2>3 DEF IInv
<1>3. ASSUME NEW t \in Tiers, NEW i \in Offsets, WritesOne(t, i)
      PROVE  IInv'
  BY <1>1, <1>3, RawWriteInv, CuratedWriteInv DEF IInv
<1> QED
  BY <1>2, <1>3, StepShape DEF IInv

(***************************************************************************)
(* The inductive invariant holds in every reachable state.                 *)
(***************************************************************************)
THEOREM Invariance == Spec => []IInv
  BY IInvInit, IInvStep, PTL DEF Spec

(***************************************************************************)
(* The raw document of a dated security is never older than a record the   *)
(* sink has dealt with, in whatever order the records came.                *)
(***************************************************************************)
THEOREM RawIsUpToDate == Spec => []RawKeepsUp
<1>1. IInv => RawKeepsUp
  BY DEF IInv
<1> QED
  BY <1>1, Invariance, PTL

(***************************************************************************)
(* The master is never older than a dated record curation has dealt with.  *)
(***************************************************************************)
THEOREM MasterIsUpToDate == Spec => []CuratedKeepsUp
<1>1. IInv => CuratedKeepsUp
  BY DEF IInv
<1> QED
  BY <1>1, Invariance, PTL

(***************************************************************************)
(* In neither tier does an undated record displace a dated one.            *)
(***************************************************************************)
THEOREM DatedContentsStay == Spec => []UndatedNeverDisplaces
<1>1. IInv => UndatedNeverDisplaces
  BY DEF IInv
<1> QED
  BY <1>1, Invariance, PTL

(***************************************************************************)
(* When both groups have caught up, the tiers agree on every security      *)
(* whose records are dated updates.                                        *)
(***************************************************************************)
THEOREM Convergence == Spec => []TiersAgree
<1>1. IInv => TiersAgree
  <2> SUFFICES ASSUME IInv, CaughtUp("raw"), CaughtUp("curated"),
                      NEW k \in Keys, Dated(k),
                      \A i \in OfKey(k) : Resolves(log[i])
               PROVE  raw[k].stamp = curated[k].stamp
    BY DEF TiersAgree
  <2>1. /\ raw[k].from \in 0..LogLen /\ curated[k].from \in 0..LogLen
        /\ raw[k].stamp \in 0..MaxStamp /\ curated[k].stamp \in 0..MaxStamp
    BY DEF IInv, TypeOK, RawDoc, CuratedDoc
  <2>2. \A i \in OfKey(k) : /\ log[i].stamp <= raw[k].stamp
                            /\ log[i].stamp <= curated[k].stamp
                            /\ log[i].stamp \in 1..MaxStamp
                            /\ raw[k].from # 0
    <3> SUFFICES ASSUME NEW i \in OfKey(k)
                 PROVE  /\ log[i].stamp <= raw[k].stamp
                        /\ log[i].stamp <= curated[k].stamp
                        /\ log[i].stamp \in 1..MaxStamp
                        /\ raw[k].from # 0
      OBVIOUS
    <3>1. i \in Offsets /\ log[i].key = k /\ log[i].stamp # NoStamp
      BY DEF OfKey, Dated
    <3>2. log[i].stamp \in 0..MaxStamp
      BY <3>1 DEF IInv, TypeOK, Messages
    <3>3. i \in Handled("raw") /\ i \in Handled("curated")
      BY <3>1 DEF CaughtUp
    <3>4. log[i].stamp <= raw[k].stamp /\ raw[k].from # 0
      BY <3>3 DEF IInv, RawKeepsUp
    <3>5. log[i].stamp <= curated[k].stamp
      BY <3>1, <3>3 DEF IInv, CuratedKeepsUp
    <3> QED
      BY <3>1, <3>2, <3>4, <3>5
  <2>3. /\ raw[k].from # 0 => raw[k].from \in OfKey(k)
                                /\ log[raw[k].from].stamp = raw[k].stamp
        /\ curated[k].from # 0 => curated[k].from \in OfKey(k)
                                    /\ log[curated[k].from].stamp = curated[k].stamp
        /\ raw[k].from = 0 => raw[k].stamp = NoStamp
        /\ curated[k].from = 0 => curated[k].stamp = NoStamp
    BY <2>1 DEF IInv, UndatedNeverDisplaces, OfKey
  <2>4. CASE OfKey(k) = {}
    BY <2>3, <2>4
  <2>5. CASE OfKey(k) # {}
    BY <2>1, <2>2, <2>3, <2>5
  <2> QED
    BY <2>4, <2>5
<1> QED
  BY <1>1, Invariance, PTL

(***************************************************************************)
(* No step takes a stamp back, in either tier.                             *)
(***************************************************************************)
THEOREM StampsAreMonotone == Spec => StampsNeverGoBack
<1> DEFINE Grow == \A k \in Keys : /\ raw[k].stamp <= raw'[k].stamp
                                   /\ curated[k].stamp <= curated'[k].stamp
<1>1. IInv /\ [Next]_vars => [Grow]_<<raw, curated>>
  <2> SUFFICES ASSUME IInv, [Next]_vars PROVE [Grow]_<<raw, curated>>
    OBVIOUS
  <2>1. CASE WritesNothing
    BY <2>1 DEF WritesNothing
  <2>2. ASSUME NEW t \in Tiers, NEW i \in Offsets, WritesOne(t, i)
        PROVE  Grow
    <3> SUFFICES ASSUME NEW k \in Keys
                 PROVE  /\ raw[k].stamp <= raw'[k].stamp
                        /\ curated[k].stamp <= curated'[k].stamp
      OBVIOUS
    <3>1. /\ raw[k].stamp \in 0..MaxStamp /\ curated[k].stamp \in 0..MaxStamp
          /\ log[i].stamp \in 0..MaxStamp
          /\ raw[k].from = 0 => raw[k].stamp = NoStamp
      BY DEF IInv, TypeOK, RawDoc, CuratedDoc, Messages, UndatedNeverDisplaces
    <3>2. CASE t = "raw"
      <4>1. UNCHANGED curated
        BY <2>2, <3>2 DEF WritesOne, RawWrite
      <4>2. \/ raw'[k].stamp = raw[k].stamp
            \/ (raw'[k].stamp = log[i].stamp /\ WriteApplies(raw[k], log[i]))
        <5>1. TypeOK /\ RawWrite(i)
          BY <2>2, <3>2 DEF IInv, WritesOne
        <5> QED
          BY <5>1, RawWriteEffect
      <4> QED
        BY <3>1, <4>1, <4>2 DEF WriteApplies
    <3>3. CASE t = "curated"
      <4>1. UNCHANGED raw
        BY <2>2, <3>3 DEF WritesOne, CuratedWrite
      <4>2. \/ curated'[k].stamp = curated[k].stamp
            \/ (curated'[k].stamp = log[i].stamp /\ CurationApplies(curated[k], log[i]))
        <5>1. TypeOK /\ CuratedWrite(i)
          BY <2>2, <3>3 DEF IInv, WritesOne
        <5> QED
          BY <5>1, CuratedWriteEffect
      <4> QED
        BY <3>1, <4>1, <4>2 DEF CurationApplies
    <3> QED
      BY <3>2, <3>3
  <2> QED
    BY <2>1, <2>2, StepShape DEF IInv
<1> QED
  BY <1>1, Invariance, PTL DEF Spec, StampsNeverGoBack
-----------------------------------------------------------------------------
(* What holds of the two statements of the documents that TLC refutes.     *)

\* The master's document is of an update, and shows the issuer it gave.
IssuerInv ==
    /\ log \in Logs
    /\ \A k \in Keys : curated[k].from # 0 =>
          LET m == log[curated[k].from]
          IN  Resolves(m) /\ (m.issuer = "given" => curated[k].issuer = curated[k].from)

LEMMA IssuerStep ==
  ASSUME IInv, IssuerInv, [Next]_vars
  PROVE  IssuerInv'
<1>1. CASE WritesNothing
  BY <1>1 DEF WritesNothing, IssuerInv, Resolves
<1>2. ASSUME NEW i \in Offsets, WritesOne("raw", i) PROVE IssuerInv'
  BY <1>2 DEF WritesOne, RawWrite, IssuerInv, Resolves
<1>3. ASSUME NEW i \in Offsets, WritesOne("curated", i) PROVE IssuerInv'
  <2>1. log' = log /\ CuratedWrite(i)
    BY <1>3 DEF WritesOne
  <2>2. ASSUME NEW k \in Keys, curated'[k].from # 0
        PROVE  /\ Resolves(log[curated'[k].from])
               /\ log[curated'[k].from].issuer = "given" => curated'[k].issuer = curated'[k].from
    <3>1. CASE curated'[k] = curated[k]
      BY <2>2, <3>1 DEF IssuerInv
    <3>2. CASE curated'[k] # curated[k]
      <4>1. Resolves(log[i]) /\ curated'[k] = Curated(curated[k], log[i], i)
        BY <2>1, <3>2 DEF CuratedWrite, IInv, TypeOK
      <4> QED
        BY <4>1 DEF Curated
    <3> QED
      BY <3>1, <3>2
  <2> QED
    BY <2>1, <2>2 DEF IssuerInv, Resolves
<1> QED
  BY <1>1, <1>2, <1>3, StepShape DEF IInv

(***************************************************************************)
(* A vendor that dates every record finds the newest of each security in   *)
(* the raw tier once the sink has caught up: what ORDERING_FIELD promises  *)
(* fails of undated records only.                                          *)
(***************************************************************************)
THEOREM RawShowsTheNewest ==
  ASSUME \A l \in Logs : \A i \in Offsets : l[i].stamp # NoStamp
  PROVE  Spec => []RawIsNewest
<1>1. Init => IssuerInv
  BY DEF Init, IssuerInv
<1>2. IInv /\ IssuerInv /\ [Next]_vars => IssuerInv'
  BY IssuerStep
<1>3. IInv /\ IssuerInv => RawIsNewest
  <2> SUFFICES ASSUME IInv, IssuerInv, CaughtUp("raw"), NEW i \in Offsets
               PROVE  log[i].stamp <= raw[log[i].key].stamp
    BY DEF RawIsNewest
  <2>1. log[i].key \in Keys /\ Dated(log[i].key)
    BY DEF IInv, TypeOK, Messages, IssuerInv, Dated, OfKey
  <2>2. i \in OfKey(log[i].key) /\ i \in Handled("raw")
    BY DEF OfKey, CaughtUp
  <2> QED
    BY <2>1, <2>2 DEF IInv, RawKeepsUp
<1> QED
  BY <1>1, <1>2, <1>3, Invariance, PTL DEF Spec

(***************************************************************************)
(* Where an issuer left blank is given by a later record of the security,  *)
(* the master shows, once curation has caught up, the issuer of the newest *)
(* record, in whatever order the records came: the arrival order decides   *)
(* only of a field that the newest record leaves out.                      *)
(***************************************************************************)
THEOREM IssuerFollowsTheNewest ==
  ASSUME \A l \in Logs : \A j \in Offsets :
            l[j].kind = "update" /\ l[j].issuer # "given" =>
               \E i \in Offsets : /\ l[i].kind = "update" /\ l[i].issuer = "given"
                                  /\ l[i].key = l[j].key /\ l[j].stamp < l[i].stamp
  PROVE  Spec => []IssuerIsNewest
<1>1. Init => IssuerInv
  BY DEF Init, IssuerInv
<1>2. IInv /\ IssuerInv /\ [Next]_vars => IssuerInv'
  BY IssuerStep
<1>3. IInv /\ IssuerInv => IssuerIsNewest
  <2> SUFFICES ASSUME IInv, IssuerInv, CaughtUp("curated"), NEW k \in Keys, Dated(k),
                      \A i, j \in OfKey(k) : log[i].stamp = log[j].stamp => i = j,
                      NEW i \in OfKey(k), Resolves(log[i]), log[i].issuer = "given",
                      \A j \in OfKey(k) : Resolves(log[j]) /\ log[j].issuer = "given"
                          => log[j].stamp <= log[i].stamp
               PROVE  curated[k].issuer = i
    BY DEF IssuerIsNewest
  <2> DEFINE f == curated[k].from
  <2>1. \A j \in Offsets : log[j].stamp \in 0..MaxStamp
    BY DEF IInv, TypeOK, Messages
  <2>2. \A j \in OfKey(k) : Resolves(log[j]) => log[j].stamp <= curated[k].stamp
    BY DEF IInv, CuratedKeepsUp, CaughtUp, OfKey
  <2>3. f \in 0..LogLen /\ i \in Offsets /\ log[i].stamp # NoStamp
    BY DEF IInv, TypeOK, CuratedDoc, OfKey, Dated
  <2>4. f # 0
    <3>1. f = 0 => curated[k].stamp = NoStamp
      BY DEF IInv, UndatedNeverDisplaces
    <3> QED
      BY <2>1, <2>2, <2>3, <3>1
  <2>5. f \in OfKey(k) /\ log[f].stamp = curated[k].stamp
    BY <2>3, <2>4 DEF IInv, UndatedNeverDisplaces, OfKey
  <2>6. Resolves(log[f]) /\ (log[f].issuer = "given" => curated[k].issuer = f)
    BY <2>4 DEF IssuerInv
  <2>7. log[f].issuer = "given"
    <3> SUFFICES ASSUME log[f].issuer # "given" PROVE FALSE
      OBVIOUS
    <3>1. f \in Offsets /\ log[f].kind = "update" /\ log \in Logs
      BY <2>5, <2>6 DEF OfKey, Resolves, IssuerInv
    <3>2. PICK g \in Offsets : /\ log[g].kind = "update" /\ log[g].key = log[f].key
                               /\ log[f].stamp < log[g].stamp
      BY <3>1
    <3>3. log[g].stamp <= curated[k].stamp
      BY <2>2, <2>5, <3>2 DEF OfKey, Resolves
    <3> QED
      BY <2>1, <2>5, <3>1, <3>2, <3>3
  <2>8. log[f].stamp = log[i].stamp
    <3>1. log[f].stamp <= log[i].stamp
      BY <2>5, <2>6, <2>7
    <3>2. log[i].stamp <= log[f].stamp
      BY <2>2, <2>5
    <3>3. log[f].stamp \in Int /\ log[i].stamp \in Int
      BY <2>1, <2>3, <2>5 DEF OfKey
    <3> QED
      BY <3>1, <3>2, <3>3
  <2> QED
    BY <2>5, <2>6, <2>7, <2>8
<1> QED
  BY <1>1, <1>2, <1>3, Invariance, PTL DEF Spec
=============================================================================
