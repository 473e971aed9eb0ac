------------------------ MODULE CashCuration_proofs ------------------------
(***************************************************************************)
(* Proofs about CashCuration, for any topic, any dates and amounts on it,  *)
(* any batch size and any number of crashes and replays.  What the sum of  *)
(* a set of movements is never matters: only of which set it is the sum.   *)
(***************************************************************************)
EXTENDS CashCuration, TLAPS

USE CashAssumption
USE DEF Days, Movements, source, counters, history

\* The movements of a day among the first k of the topic.
Upto(d, k) == {m \in 1..k : day[m] = d}

\* A sum that has in it the first k movements' share of a day.
Covers(t, d, k) == \E S \in SUBSET LandedOn(d) : Upto(d, k) \subseteq S /\ t = Total(S)

PositionsOK ==
    /\ landed \in 0..N /\ polled \in 0..N /\ committed \in 0..polled
    /\ day \in [Movements -> 0..MaxDay]
    /\ pc \in Stages
    /\ touched \subseteq Days

\* Between two batches nothing is in hand, and every day is computed before the
\* first upsert is applied.
StageInv ==
    /\ pc = "poll" => polled = committed /\ touched = {} /\ ops = {}
    /\ pc = "write" => touched = {}
    /\ pc = "compute" \/ pc = "write" \/ pc = "poll"

\* There is one document for a key, and an intraday one has movements behind it.
StoreInv ==
    /\ \A b, c \in balance : b.day = c.day => b = c
    /\ \A op \in ops : op.snapshotType = "INTRADAY"
    /\ \A b \in Intraday \cup ops : LandedOn(b.day) # {} /\ Covers(b.total, b.day, 0)

\* What is acknowledged is in the balances, and what is polled is there, or in an
\* upsert, or in a day still to be computed.
PaceInv ==
    pace = "behind" =>
        /\ polled <= landed
        /\ \A op \in ops : Covers(op.total, op.day, polled)
        /\ \A d \in Days : Upto(d, committed) # {} =>
              \E b \in Intraday : b.day = d /\ Covers(b.total, d, committed)
        /\ pc # "poll" => \A d \in Days : Upto(d, polled) # {} =>
              \/ d \in touched
              \/ \E op \in ops : op.day = d
              \/ \E b \in Intraday : b.day = d /\ Covers(b.total, d, polled)

IInv == PositionsOK /\ StageInv /\ StoreInv /\ PaceInv
-----------------------------------------------------------------------------

\* A sum with more in it has less in it too.
LEMMA CoversLess ==
    ASSUME NEW t, NEW d, NEW k \in Nat, NEW j \in Nat, j <= k, Covers(t, d, k)
    PROVE  Covers(t, d, j)
BY DEF Covers, Upto

\* The sum of all that is landed has in it everything up to there.
LEMMA CoversAll ==
    ASSUME landed \in Nat, NEW d, NEW k \in Nat, k <= landed
    PROVE  Covers(Total(LandedOn(d)), d, k)
<1>1. Upto(d, k) \subseteq LandedOn(d)
  BY DEF Upto, LandedOn
<1>2. LandedOn(d) \in SUBSET LandedOn(d)
  OBVIOUS
<1>. QED BY <1>1, <1>2 DEF Covers

\* Landing more movements, or none, leaves a sum covering what it did.
LEMMA CoversStays ==
    ASSUME landed \in Nat, landed' \in Nat, landed <= landed', UNCHANGED day,
           NEW t, NEW d, NEW k \in Nat, Covers(t, d, k)
    PROVE  Covers(t, d, k)'
<1>1. PICK S \in SUBSET LandedOn(d) : Upto(d, k) \subseteq S /\ t = Total(S)
  BY DEF Covers
<1>2. S \in SUBSET LandedOn(d)'
  BY DEF LandedOn
<1>3. Upto(d, k)' = Upto(d, k)
  BY DEF Upto
<1>. QED BY <1>1, <1>2, <1>3 DEF Covers

\* What is landed stays landed.
LEMMA LandedGrows ==
    ASSUME landed \in Nat, landed' \in Nat, landed <= landed', UNCHANGED day, NEW d
    PROVE  LandedOn(d) \subseteq LandedOn(d)'
BY DEF LandedOn

LEMMA NoneUpto0 == \A d : Upto(d, 0) = {}
BY DEF Upto
-----------------------------------------------------------------------------
\* The store and the positions as every step that only moves the curation along
\* keeps them: one that writes no balance and adds no upsert.
LEMMA StoreKept ==
    ASSUME StoreInv, landed \in Nat, landed' \in Nat, landed <= landed', UNCHANGED <<day, balance>>,
           ops' \subseteq ops
    PROVE  StoreInv'
<1>1. \A d : LandedOn(d) \subseteq LandedOn(d)'
  BY LandedGrows
<1>2. ASSUME NEW t, NEW d, Covers(t, d, 0) PROVE Covers(t, d, 0)'
  BY <1>2, CoversStays
<1>3. Intraday' = Intraday
  BY DEF Intraday
<1>. QED BY <1>1, <1>2, <1>3 DEF StoreInv

LEMMA InitHolds == ASSUME Init PROVE IInv
<1>1. PositionsOK
  BY DEF Init, PositionsOK, Stages
<1>2. StageInv
  BY DEF Init, StageInv
<1>3. Intraday = {}
  BY DEF Init, Intraday, EndOfDay, Balance
<1>4. StoreInv
  BY <1>3 DEF Init, StoreInv, EndOfDay, Balance
<1>5. PaceInv
  BY NoneUpto0, <1>3 DEF Init, PaceInv
<1>. QED BY <1>1, <1>2, <1>4, <1>5 DEF IInv

LEMMA LandKeeps == ASSUME IInv, Land PROVE IInv'
<1>. USE DEF IInv
<1>1. /\ landed \in Nat /\ landed' \in Nat /\ landed <= landed'
      /\ UNCHANGED <<pace, seeded, day, balance, committed, polled, pc, touched, ops>>
  BY DEF Land, PositionsOK
<1>2. PositionsOK'
  BY <1>1 DEF PositionsOK, Land
<1>3. StageInv'
  BY <1>1 DEF StageInv
<1>4. StoreInv'
  BY <1>1, StoreKept
<1>5. PaceInv'
  <2>. SUFFICES ASSUME pace = "behind" PROVE PaceInv'
    BY <1>1 DEF PaceInv
  <2>0. polled \in Nat /\ committed \in Nat
    BY DEF PositionsOK
  <2>1. ASSUME NEW t, NEW d, NEW k \in Nat, Covers(t, d, k) PROVE Covers(t, d, k)'
    BY <1>1, <2>1, CoversStays
  <2>2. \A d, k : Upto(d, k)' = Upto(d, k)
    BY <1>1 DEF Upto
  <2>3. Intraday' = Intraday
    BY <1>1 DEF Intraday
  <2>4. polled' <= landed'
    BY <1>1, <2>0 DEF PaceInv
  <2>5. \A op \in ops' : Covers(op.total, op.day, polled)'
    BY <1>1, <2>0, <2>1 DEF PaceInv
  <2>6. (\A d \in Days : Upto(d, committed) # {} =>
              \E b \in Intraday : b.day = d /\ Covers(b.total, d, committed))'
    BY <1>1, <2>0, <2>1, <2>2, <2>3 DEF PaceInv
  <2>7. (pc # "poll" => \A d \in Days : Upto(d, polled) # {} =>
              \/ d \in touched
              \/ \E op \in ops : op.day = d
              \/ \E b \in Intraday : b.day = d /\ Covers(b.total, d, polled))'
    BY <1>1, <2>0, <2>1, <2>2, <2>3 DEF PaceInv
  <2>. QED BY <2>4, <2>5, <2>6, <2>7 DEF PaceInv
<1>. QED BY <1>2, <1>3, <1>4, <1>5

LEMMA PollKeeps == ASSUME IInv, Poll PROVE IInv'
<1>. USE DEF IInv
<1>0. /\ UNCHANGED <<pace, seeded, day, landed, balance, committed, ops>>
      /\ pc = "poll" /\ pc' = "compute"
      /\ polled = committed /\ ops = {}
  BY DEF Poll, StageInv
<1>1. PICK last \in (polled + 1)..N :
        /\ pace = "behind" => last <= landed
        /\ polled' = last
        /\ touched' = {day[m] : m \in (polled + 1)..last} \ {0}
  BY DEF Poll
<1>2. PositionsOK'
  <2>1. \A m \in (polled + 1)..last : m \in 1..N
    BY <1>1 DEF PositionsOK
  <2>2. touched' \subseteq Days
    BY <1>0, <1>1, <2>1 DEF PositionsOK
  <2>. QED BY <1>0, <1>1, <2>2 DEF PositionsOK, Stages
<1>3. StageInv'
  BY <1>0 DEF StageInv
<1>4. StoreInv'
  BY <1>0, StoreKept DEF PositionsOK
<1>5. PaceInv'
  <2>. SUFFICES ASSUME pace = "behind" PROVE PaceInv'
    BY <1>0 DEF PaceInv
  <2>1. Intraday' = Intraday /\ \A t, d, k : Covers(t, d, k)' = Covers(t, d, k)
    BY <1>0 DEF Intraday, Covers, LandedOn, Upto
  <2>2. \A d, k : Upto(d, k)' = Upto(d, k)
    BY <1>0 DEF Upto
  <2>3. ASSUME NEW d \in Days, Upto(d, last) # {}, d \notin touched'
        PROVE  \E b \in Intraday : b.day = d /\ Covers(b.total, d, last)
    <3>1. \A m \in 1..last : day[m] = d => m \in 1..committed
      BY <1>0, <1>1, <2>3 DEF PositionsOK
    <3>2. Upto(d, last) = Upto(d, committed)
      BY <3>1, <1>0, <1>1 DEF Upto, PositionsOK
    <3>3. PICK b \in Intraday : b.day = d /\ Covers(b.total, d, committed)
      BY <3>2, <2>3 DEF PaceInv
    <3>. QED BY <3>2, <3>3 DEF Covers
  <2>. QED BY <1>0, <1>1, <2>1, <2>2, <2>3 DEF PaceInv
<1>. QED BY <1>2, <1>3, <1>4, <1>5

LEMMA RecomputeKeeps == ASSUME IInv, Recompute PROVE IInv'
<1>. USE DEF IInv
<1>0. /\ UNCHANGED <<pace, seeded, day, landed, balance, committed, polled, pc>>
      /\ pc = "compute"
  BY DEF Recompute
<1>1. PICK e \in touched :
        /\ touched' = touched \ {e}
        /\ ops' = IF LandedOn(e) = {} THEN ops ELSE ops \cup {Upsert(e)}
  BY DEF Recompute
<1>2. PositionsOK'
  BY <1>0, <1>1 DEF PositionsOK
<1>3. StageInv'
  BY <1>0 DEF StageInv
<1>4. /\ Upsert(e).day = e /\ Upsert(e).snapshotType = "INTRADAY"
      /\ Upsert(e).total = Total(LandedOn(e))
  BY DEF Upsert, Balance
<1>5. /\ Intraday' = Intraday
      /\ \A t, d, k : Covers(t, d, k)' = Covers(t, d, k)
      /\ \A d : LandedOn(d)' = LandedOn(d)
      /\ \A d, k : Upto(d, k)' = Upto(d, k)
  BY <1>0 DEF Intraday, Covers, LandedOn, Upto
<1>6. StoreInv'
  <2>1. Covers(Upsert(e).total, e, 0)
    BY <1>4, CoversAll DEF PositionsOK
  <2>. QED BY <1>0, <1>1, <1>4, <1>5, <2>1 DEF StoreInv
<1>7. PaceInv'
  <2>. SUFFICES ASSUME pace = "behind" PROVE PaceInv'
    BY <1>0 DEF PaceInv
  <2>1. Covers(Upsert(e).total, e, polled)
    BY <1>4, CoversAll DEF PositionsOK, PaceInv
  <2>2. \A op \in ops' : Covers(op.total, op.day, polled)
    BY <1>1, <1>4, <2>1 DEF PaceInv
  <2>3. Upto(e, polled) # {} => LandedOn(e) # {}
    BY DEF Upto, LandedOn, PositionsOK, PaceInv
  <2>4. ASSUME NEW d \in Days, Upto(d, polled) # {}
        PROVE  \/ d \in touched'
               \/ \E op \in ops' : op.day = d
               \/ \E b \in Intraday : b.day = d /\ Covers(b.total, d, polled)
    BY <1>0, <1>1, <1>4, <2>3, <2>4 DEF PaceInv
  <2>. QED BY <1>0, <1>5, <2>2, <2>4 DEF PaceInv
<1>. QED BY <1>2, <1>3, <1>6, <1>7

LEMMA ComputedKeeps == ASSUME IInv, Computed PROVE IInv'
<1>. USE DEF IInv
<1>0. /\ UNCHANGED <<pace, seeded, day, landed, balance, committed, polled, touched, ops>>
      /\ touched = {} /\ pc = "compute" /\ pc' = "write"
  BY DEF Computed
<1>5. /\ Intraday' = Intraday
      /\ \A t, d, k : Covers(t, d, k)' = Covers(t, d, k)
      /\ \A d, k : Upto(d, k)' = Upto(d, k)
  BY <1>0 DEF Intraday, Covers, LandedOn, Upto
<1>2. PositionsOK' /\ StageInv'
  BY <1>0 DEF PositionsOK, StageInv, Stages
<1>4. StoreInv'
  BY <1>0, StoreKept DEF PositionsOK
<1>6. PaceInv'
  BY <1>0, <1>5 DEF PaceInv
<1>. QED BY <1>2, <1>4, <1>6

LEMMA WriteKeeps == ASSUME IInv, Write PROVE IInv'
<1>. USE DEF IInv
<1>0. /\ UNCHANGED <<pace, seeded, day, landed, committed, polled, pc, touched>>
      /\ pc = "write"
  BY DEF Write
<1>1. PICK op \in ops : /\ balance' = {b \in balance : b.day # op.day} \cup {op}
                        /\ ops' = ops \ {op}
  BY DEF Write
<1>2. PositionsOK' /\ StageInv'
  BY <1>0 DEF PositionsOK, StageInv
<1>3. Intraday' = {b \in Intraday : b.day # op.day} \cup {op}
  BY <1>1 DEF Intraday, StoreInv
<1>4. /\ \A t, d, k : Covers(t, d, k)' = Covers(t, d, k)
      /\ \A d : LandedOn(d)' = LandedOn(d)
      /\ \A d, k : Upto(d, k)' = Upto(d, k)
  BY <1>0 DEF Covers, LandedOn, Upto
<1>5. StoreInv'
  BY <1>1, <1>3, <1>4 DEF StoreInv
<1>6. PaceInv'
  <2>. SUFFICES ASSUME pace = "behind" PROVE PaceInv'
    BY <1>0 DEF PaceInv
  <2>1. Covers(op.total, op.day, polled) /\ Covers(op.total, op.day, committed)
    BY CoversLess DEF PaceInv, PositionsOK
  <2>2. ASSUME NEW d \in Days, Upto(d, committed) # {}
        PROVE  \E b \in Intraday' : b.day = d /\ Covers(b.total, d, committed)
    <3>1. CASE d = op.day
      BY <3>1, <1>3, <2>1
    <3>2. CASE d # op.day
      BY <3>2, <2>2, <1>3 DEF PaceInv
    <3>. QED BY <3>1, <3>2
  <2>3. ASSUME NEW d \in Days, Upto(d, polled) # {}
        PROVE  \/ d \in touched
               \/ \E o \in ops' : o.day = d
               \/ \E b \in Intraday' : b.day = d /\ Covers(b.total, d, polled)
    <3>1. CASE d = op.day
      BY <3>1, <1>3, <2>1
    <3>2. CASE d # op.day
      BY <3>2, <2>3, <1>0, <1>1, <1>3 DEF PaceInv
    <3>. QED BY <3>1, <3>2
  <2>4. \A o \in ops' : Covers(o.total, o.day, polled)
    BY <1>1 DEF PaceInv
  <2>. QED BY <1>0, <1>4, <2>2, <2>3, <2>4 DEF PaceInv
<1>. QED BY <1>2, <1>5, <1>6

LEMMA CommitKeeps == ASSUME IInv, Commit PROVE IInv'
<1>. USE DEF IInv
<1>0. /\ UNCHANGED <<pace, seeded, day, landed, balance, polled, touched, ops>>
      /\ pc = "write" /\ pc' = "poll" /\ ops = {} /\ committed' = polled
  BY DEF Commit
<1>1. /\ Intraday' = Intraday
      /\ \A t, d, k : Covers(t, d, k)' = Covers(t, d, k)
      /\ \A d, k : Upto(d, k)' = Upto(d, k)
  BY <1>0 DEF Intraday, Covers, LandedOn, Upto
<1>2. PositionsOK' /\ StageInv'
  BY <1>0 DEF PositionsOK, StageInv, Stages
<1>3. StoreInv'
  BY <1>0, StoreKept DEF PositionsOK
<1>4. PaceInv'
  BY <1>0, <1>1 DEF PaceInv, StageInv
<1>. QED BY <1>2, <1>3, <1>4

LEMMA CrashKeeps == ASSUME IInv, Crash PROVE IInv'
<1>. USE DEF IInv
<1>0. /\ UNCHANGED <<pace, seeded, day, landed, balance, committed>>
      /\ pc' = "poll" /\ polled' = committed /\ touched' = {} /\ ops' = {}
  BY DEF Crash
<1>1. /\ Intraday' = Intraday
      /\ \A t, d, k : Covers(t, d, k)' = Covers(t, d, k)
      /\ \A d, k : Upto(d, k)' = Upto(d, k)
  BY <1>0 DEF Intraday, Covers, LandedOn, Upto
<1>2. PositionsOK' /\ StageInv'
  BY <1>0 DEF PositionsOK, StageInv, Stages
<1>3. StoreInv'
  BY <1>0, StoreKept DEF PositionsOK
<1>4. PaceInv'
  BY <1>0, <1>1 DEF PaceInv, PositionsOK
<1>. QED BY <1>2, <1>3, <1>4

LEMMA ReplayKeeps == ASSUME IInv, Replay PROVE IInv'
<1>. USE DEF IInv
<1>0. /\ UNCHANGED <<pace, seeded, day, landed, balance, pc, touched, ops>>
      /\ pc = "poll" /\ polled' = 0 /\ committed' = 0 /\ touched = {} /\ ops = {}
  BY DEF Replay, StageInv
<1>1. PositionsOK' /\ StageInv'
  BY <1>0 DEF PositionsOK, StageInv
<1>2. StoreInv'
  BY <1>0, StoreKept DEF PositionsOK
<1>3. PaceInv'
  BY <1>0 DEF PaceInv, PositionsOK, Upto
<1>. QED BY <1>1, <1>2, <1>3
-----------------------------------------------------------------------------
\* The inductive invariant holds throughout.
THEOREM IInvHolds == Spec => []IInv
<1>1. Init => IInv
  BY InitHolds
<1>2. IInv /\ [Next]_vars => IInv'
  <2>. SUFFICES ASSUME IInv, [Next]_vars PROVE IInv'
    OBVIOUS
  <2>1. CASE UNCHANGED vars
    <3>0. UNCHANGED <<pace, day, landed, balance, committed, polled, pc, touched, ops>>
      BY <2>1 DEF vars
    <3>1. /\ Intraday' = Intraday
          /\ \A t, d, k : Covers(t, d, k)' = Covers(t, d, k)
          /\ \A d : LandedOn(d)' = LandedOn(d)
          /\ \A d, k : Upto(d, k)' = Upto(d, k)
      BY <3>0 DEF Intraday, Covers, LandedOn, Upto
    <3>. QED BY <3>0, <3>1 DEF IInv, PositionsOK, StageInv, StoreInv, PaceInv
  <2>2. CASE Next
    BY <2>2, LandKeeps, PollKeeps, RecomputeKeeps, ComputedKeeps, WriteKeeps, CommitKeeps,
       CrashKeeps, ReplayKeeps DEF Next, Step
  <2>. QED BY <2>1, <2>2
<1>. QED BY <1>1, <1>2, PTL DEF Spec

(***************************************************************************)
(* No balance counts a movement twice, at any pace of the sink, however    *)
(* often the curation dies and however often its group is replayed.        *)
(***************************************************************************)
THEOREM NeverCountedTwice == Spec => []NoDoubleCount
<1>1. IInv => NoDoubleCount
  BY DEF IInv, StoreInv, Covers, NoDoubleCount
<1>. QED BY <1>1, IInvHolds, PTL

(***************************************************************************)
(* At the pace of the sink, when the curation has acknowledged the whole   *)
(* topic the sum of every day is that of all its movements.                *)
(***************************************************************************)
THEOREM SumsConverge == Spec => []Converges
<1>1. IInv => Converges
  <2>. SUFFICES ASSUME IInv, pace = "behind", Complete PROVE SumsExact
    BY DEF Converges
  <2>. USE DEF IInv
  <2>1. landed = N /\ committed = N
    BY DEF Complete, PaceInv, StageInv, PositionsOK
  <2>2. \A d : Upto(d, N) = LandedOn(d)
    BY <2>1 DEF Upto, LandedOn
  <2>3. ASSUME NEW d \in Days, LandedOn(d) = {} PROVE {b.total : b \in Curated(d)} = {}
    BY <2>3 DEF Curated, StoreInv
  <2>4. ASSUME NEW d \in Days, LandedOn(d) # {}
        PROVE  {b.total : b \in Curated(d)} = {Total(LandedOn(d))}
    <3>1. PICK b \in Intraday : b.day = d /\ Covers(b.total, d, committed)
      BY <2>1, <2>2, <2>4 DEF PaceInv
    <3>2. b.total = Total(LandedOn(d))
      <4>1. PICK S \in SUBSET LandedOn(d) : Upto(d, N) \subseteq S /\ b.total = Total(S)
        BY <2>1, <3>1 DEF Covers
      <4>2. S = LandedOn(d)
        BY <2>2, <4>1
      <4>. QED BY <4>1, <4>2
    <3>3. Curated(d) = {b}
      BY <3>1 DEF Curated, Intraday, StoreInv
    <3>. QED BY <3>2, <3>3
  <2>. QED BY <2>3, <2>4 DEF SumsExact
<1>. QED BY <1>1, IInvHolds, PTL
-----------------------------------------------------------------------------
\* The balance of a day whose sum is that of all there is.
Exact(d) == \E b \in Intraday : b.day = d /\ b.total = Total(LandedOn(d))

\* While nothing has been landed since the pass began, every sum of the pass is
\* exact: what is acknowledged is in the balances, and what is polled is there, or
\* in an upsert, or in a day still to be computed.
SettledInv ==
    settled =>
        /\ \A op \in ops : op.total = Total(LandedOn(op.day))
        /\ \A d \in Days : LandedOn(d) # {} /\ Upto(d, committed) # {} => Exact(d)
        /\ pc # "poll" => \A d \in Days : LandedOn(d) # {} /\ Upto(d, polled) # {} =>
              d \in touched \/ (\E op \in ops : op.day = d) \/ Exact(d)

\* The end-of-day balances that no movement of their days can have replaced.
Untouched(d) == \A e \in seeded : e < d => LandedOn(e) = {}

\* The closing figure of the latest day before d that began with one.
SeededOpening(d) ==
    LET prior == {e \in seeded : e < d} IN IF prior = {} THEN 0 ELSE Closing[Max(prior)]

\* An end-of-day balance stays until a movement of its day is landed, so that an
\* opening figure is the one the seeded days give.
OpeningInv ==
    /\ EodDays \subseteq seeded
    /\ \A e \in seeded : LandedOn(e) = {} => e \in EodDays
    /\ \A b \in Intraday \cup ops : Untouched(b.day) => b.opening = SeededOpening(b.day)

RepairInv == SettledInv /\ OpeningInv

\* Where no end-of-day balance is replaced, the opening figure read from the store
\* is the one of the seeded days.
LEMMA OpeningRead ==
    ASSUME OpeningInv, NEW d, Untouched(d)
    PROVE  OpeningBalance(d) = SeededOpening(d)
<1>1. {e \in EodDays : e < d} = {e \in seeded : e < d}
  BY DEF OpeningInv, Untouched
<1>. QED BY <1>1 DEF OpeningBalance, SeededOpening

LEMMA RepairInit == Init => RepairInv
<1>. SUFFICES ASSUME Init PROVE RepairInv
  OBVIOUS
<1>1. Intraday = {}
  BY DEF Init, Intraday, EndOfDay, Balance
<1>2. EodDays = seeded
  <2>1. \A d : EndOfDay(d).day = d
    BY DEF EndOfDay, Balance
  <2>2. EodDays = {b.day : b \in balance} /\ balance = {EndOfDay(d) : d \in seeded}
    BY <1>1 DEF Init, EodDays
  <2>3. \A e \in seeded : EndOfDay(e) \in balance
    BY <2>2
  <2>4. \A b \in balance : \E e \in seeded : b = EndOfDay(e)
    BY <2>2
  <2>5. seeded \subseteq EodDays
    BY <2>1, <2>2, <2>3
  <2>6. EodDays \subseteq seeded
    BY <2>1, <2>2, <2>4
  <2>. QED BY <2>5, <2>6
<1>. QED BY <1>1, <1>2 DEF Init, RepairInv, SettledInv, OpeningInv

\* What the steps have in common: the days, and the movements landed of each.
LEMMA SourceStep ==
    ASSUME PositionsOK, [Next]_vars
    PROVE  /\ UNCHANGED <<day, seeded>>
           /\ Land \/ UNCHANGED landed
           /\ \A d : LandedOn(d) \subseteq LandedOn(d)'
           /\ Land \/ \A d : LandedOn(d)' = LandedOn(d)
<1>1. UNCHANGED <<day, seeded>> /\ (Land \/ UNCHANGED landed)
  BY DEF Next, Step, Land, Poll, Recompute, Computed, Write, Commit, Crash, Replay, vars
<1>2. landed' \in Nat /\ landed \in Nat /\ landed <= landed'
  BY <1>1 DEF Land, PositionsOK
<1>3. UNCHANGED landed => \A d : LandedOn(d)' = LandedOn(d)
  BY <1>1 DEF LandedOn
<1>. QED BY <1>1, <1>2, <1>3, LandedGrows

LEMMA OpeningStep ==
    ASSUME IInv, OpeningInv, [Next]_vars PROVE OpeningInv'
<1>1. /\ UNCHANGED seeded
      /\ \A d : LandedOn(d) \subseteq LandedOn(d)'
  BY SourceStep DEF IInv
<1>2. \A d : Untouched(d)' => Untouched(d)
  BY <1>1 DEF Untouched
<1>3. \A d : SeededOpening(d)' = SeededOpening(d)
  BY <1>1 DEF SeededOpening
<1>4. CASE Write
  <2>1. PICK op \in ops : balance' = {b \in balance : b.day # op.day} \cup {op}
                          /\ ops' = ops \ {op}
    BY <1>4 DEF Write
  <2>2. op.snapshotType = "INTRADAY" /\ LandedOn(op.day) # {}
    BY DEF IInv, StoreInv
  <2>3. Intraday' = {b \in Intraday : b.day # op.day} \cup {op}
    BY <2>1, <2>2 DEF Intraday
  <2>4. EodDays' = EodDays \ {op.day}
    BY <2>1, <2>3 DEF EodDays, Intraday
  <2>5. \A e \in seeded : LandedOn(e)' = {} => e \in EodDays'
    BY <1>1, <2>2, <2>4 DEF OpeningInv
  <2>. QED BY <1>1, <1>2, <1>3, <2>1, <2>3, <2>4, <2>5 DEF OpeningInv
<1>5. CASE Recompute
  <2>1. PICK d \in touched : ops' \subseteq ops \cup {Upsert(d)}
    BY <1>5 DEF Recompute
  <2>2. balance' = balance
    BY <1>5 DEF Recompute
  <2>3. Untouched(d) => Upsert(d).opening = SeededOpening(d)
    BY OpeningRead DEF Upsert, Balance
  <2>4. Upsert(d).day = d
    BY DEF Upsert, Balance
  <2>5. Intraday' = Intraday /\ EodDays' = EodDays
    BY <2>2 DEF Intraday, EodDays
  <2>. QED BY <1>1, <1>2, <1>3, <2>1, <2>3, <2>4, <2>5 DEF OpeningInv
<1>6. CASE balance' = balance /\ ops' \subseteq ops
  <2>1. Intraday' = Intraday /\ EodDays' = EodDays
    BY <1>6 DEF Intraday, EodDays
  <2>. QED BY <1>1, <1>2, <1>3, <1>6, <2>1 DEF OpeningInv
<1>. QED
  BY <1>4, <1>5, <1>6 DEF Next, Step, Land, Poll, Computed, Commit, Crash, Replay, vars

LEMMA SettledStep ==
    ASSUME IInv, SettledInv, [Next]_vars PROVE SettledInv'
<1>. USE DEF IInv
<1>1. CASE Land
  BY <1>1 DEF Land, SettledInv
<1>2. CASE ~Land
  <2>1. /\ \A d : LandedOn(d)' = LandedOn(d)
        /\ \A d, k : Upto(d, k)' = Upto(d, k)
    BY <1>2, SourceStep DEF Upto
  <2>2. balance' = balance => \A d : Exact(d)' = Exact(d)
    BY <2>1 DEF Exact, Intraday
  <2>3. CASE Poll
    <3>1. /\ pc = "poll" /\ polled = committed /\ touched = {} /\ ops = {}
          /\ UNCHANGED <<balance, committed, ops>>
          /\ settled' = (settled \/ polled = 0)
      BY <2>3 DEF Poll, StageInv
    <3>2. PICK last \in (polled + 1)..N :
            polled' = last /\ touched' = {day[m] : m \in (polled + 1)..last} \ {0}
      BY <2>3 DEF Poll
    <3>3. ASSUME NEW d \in Days, LandedOn(d) # {}, Upto(d, committed) # {}, settled'
          PROVE  Exact(d)
      BY <3>1, <3>3, NoneUpto0 DEF SettledInv
    <3>4. ASSUME NEW d \in Days, Upto(d, last) # {}, d \notin touched'
          PROVE  Upto(d, committed) # {}
      <4>1. \A m \in 1..last : day[m] = d => m \in 1..committed
        BY <3>1, <3>2, <3>4 DEF PositionsOK
      <4>. QED BY <3>4, <4>1 DEF Upto
    <3>. QED BY <2>1, <2>2, <3>1, <3>2, <3>3, <3>4 DEF SettledInv
  <2>4. CASE Recompute
    <3>1. PICK e \in touched :
            /\ touched' = touched \ {e}
            /\ ops' = IF LandedOn(e) = {} THEN ops ELSE ops \cup {Upsert(e)}
      BY <2>4 DEF Recompute
    <3>2. Upsert(e).day = e /\ Upsert(e).total = Total(LandedOn(e))
      BY DEF Upsert, Balance
    <3>3. UNCHANGED <<balance, committed, polled, pc, settled>>
      BY <2>4 DEF Recompute
    <3>. QED BY <2>1, <2>2, <3>1, <3>2, <3>3 DEF SettledInv
  <2>5. CASE Write
    <3>1. PICK op \in ops : balance' = {b \in balance : b.day # op.day} \cup {op}
                            /\ ops' = ops \ {op}
      BY <2>5 DEF Write
    <3>2. UNCHANGED <<committed, polled, pc, touched, settled>>
      BY <2>5 DEF Write
    <3>3. Intraday' = {b \in Intraday : b.day # op.day} \cup {op}
      BY <3>1 DEF Intraday, StoreInv
    <3>4. ASSUME settled PROVE Exact(op.day)'
      BY <2>1, <3>3, <3>4 DEF Exact, SettledInv
    <3>5. \A d : d # op.day /\ Exact(d) => Exact(d)'
      BY <2>1, <3>3 DEF Exact
    <3>. QED BY <2>1, <3>1, <3>2, <3>4, <3>5 DEF SettledInv
  <2>6. CASE Commit
    BY <2>1, <2>2, <2>6 DEF Commit, SettledInv, StageInv
  <2>7. CASE Computed
    BY <2>1, <2>2, <2>7 DEF Computed, SettledInv
  <2>8. CASE Crash
    BY <2>1, <2>2, <2>8 DEF Crash, SettledInv
  <2>9. CASE Replay
    BY <2>1, <2>2, <2>9, NoneUpto0 DEF Replay, SettledInv, StageInv
  <2>10. CASE UNCHANGED vars
    BY <2>1, <2>2, <2>10 DEF vars, SettledInv
  <2>. QED BY <1>2, <2>3, <2>4, <2>5, <2>6, <2>7, <2>8, <2>9, <2>10 DEF Next, Step
<1>. QED BY <1>1, <1>2

(***************************************************************************)
(* The invariant of a settled pass holds in every state.                   *)
(***************************************************************************)
THEOREM RepairHolds == Spec => []RepairInv
<1>1. IInv /\ RepairInv /\ [Next]_vars => RepairInv'
  BY OpeningStep, SettledStep DEF RepairInv
<1>. QED BY <1>1, RepairInit, IInvHolds, PTL DEF Spec

(***************************************************************************)
(* A pass over the topic that runs to its end with nothing landed during   *)
(* it leaves every sum exact, at any pace of the sink, and the opening     *)
(* figure of every day before which no end-of-day balance was replaced.    *)
(***************************************************************************)
THEOREM ReplayIsRepair == Spec => []ReplayRepairs
<1>1. IInv /\ RepairInv => ReplayRepairs
  <2>. SUFFICES ASSUME IInv, RepairInv, settled, Complete PROVE ReplayRepairs
    BY DEF ReplayRepairs
  <2>. USE DEF IInv, RepairInv
  <2>1. ASSUME NEW d \in Days, LandedOn(d) = {} PROVE {b.total : b \in Curated(d)} = {}
    BY <2>1 DEF Curated, StoreInv
  <2>2. ASSUME NEW d \in Days, LandedOn(d) # {}
        PROVE  {b.total : b \in Curated(d)} = {Total(LandedOn(d))}
    <3>1. Upto(d, committed) # {}
      BY <2>2 DEF Complete, PositionsOK, Upto, LandedOn
    <3>2. PICK b \in Intraday : b.day = d /\ b.total = Total(LandedOn(d))
      BY <2>2, <3>1 DEF SettledInv, Exact
    <3>3. Curated(d) = {b}
      BY <3>2 DEF Curated, Intraday, StoreInv
    <3>. QED BY <3>2, <3>3
  <2>3. SumsExact
    BY <2>1, <2>2 DEF SumsExact
  <2>4. ASSUME NEW b \in Intraday, \A d \in seeded : d < b.day => LandedOn(d) = {}
        PROVE  b.opening = OpeningBalance(b.day)
    BY <2>4, OpeningRead DEF OpeningInv, Untouched
  <2>. QED BY <2>3, <2>4 DEF ReplayRepairs
<1>. QED BY <1>1, IInvHolds, RepairHolds, PTL
=============================================================================
