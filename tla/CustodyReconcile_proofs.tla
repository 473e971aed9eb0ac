----------------------- MODULE CustodyReconcile_proofs -----------------------
(***************************************************************************)
(* Proofs about CustodyCuration and the reconciliation that is asked while *)
(* it runs, for every feed, account, security and identifier, every set of *)
(* accounts and securities that come late, every batch size and any number *)
(* of crashes and calls.                                                   *)
(***************************************************************************)
EXTENDS CustodyReconcile, TLAPS

USE CustodyAssumption

\* Reference data is only ever added, and a run that polls has all of the
\* reference data that was there from the start.
ReferenceInv ==
    /\ Present \subseteq known /\ known \subseteq Accounts \cup Securities
    /\ index \subseteq known
    /\ pc = "load" => Present \cap Accounts \subseteq index
    /\ pc \in {"poll", "write"} => Present \subseteq index

\* Where the consumer is: its batch is what it has polled and not acknowledged.
StageInv ==
    /\ pc \in Stages
    /\ outcome \in [Records -> Outcomes]
    /\ raw \in [RecIds -> Records \cup {0}]
    /\ committed \subseteq polled /\ polled \subseteq Records
    /\ ops \subseteq polled \ committed
    /\ InOrder(committed) /\ InOrder(polled)
    /\ pc # "write" => polled = committed
    /\ \A r, q \in polled \ committed : batch[r] = batch[q]

\* A curated record resolves now as it did when it was curated.
OutcomeInv ==
    /\ \A r \in polled : outcome[r] # "NONE"
    /\ \A r \in ops : pc = "write" /\ Outcome(index, Feed[r]) = "CURATED"
    /\ \A r \in Records : outcome[r] = "CURATED" => Outcome(known, Feed[r]) = "CURATED"
    /\ known \cap Late = {} =>
          \A r \in Records : outcome[r] \in {"UNKNOWN_ACCOUNT", "UNKNOWN_SECURITY"} =>
              Outcome(known, Feed[r]) = outcome[r]

\* A position is that of the record it was upserted from.
PositionsInv ==
    \A p \in positions : /\ p.record \in Records
                         /\ Outcome(known, Feed[p.record]) = "CURATED"
                         /\ p = Position(known, p.record)

\* What is applied is in the positions, and no earlier record has replaced it
\* but one of its own batch.
AppliedInv ==
    \A r \in polled \ ops : outcome[r] = "CURATED" =>
        /\ HasPosition(r)
        /\ \A p \in positions : SameKey(p, Position(known, r)) =>
               r <= p.record \/ batch[r] = batch[p.record]

\* What a call has read so far agrees with what was curated before it.
CallInv ==
    /\ at \in {"idle", "accounts", "securities", "positions", "report"}
    /\ records \subseteq Records
    /\ curatedBefore \subseteq Records
    /\ refs \subseteq known
    /\ \A r \in curatedBefore : Outcome(known, Feed[r]) = "CURATED" /\ HasPosition(r)
    /\ at \in {"securities", "positions", "report"} =>
          /\ Present \cap Accounts \subseteq refs
          /\ \A r \in curatedBefore : Feed[r].account \in refs
    /\ at \in {"positions", "report"} =>
          /\ Present \subseteq refs
          /\ \A r \in curatedBefore : SecurityOf(refs, Feed[r]) = SecurityOf(known, Feed[r])
    /\ at = "report" =>
          \A r \in curatedBefore : <<Feed[r].account, SecurityOf(known, Feed[r])>> \in pairs

IInv == ReferenceInv /\ StageInv /\ OutcomeInv /\ PositionsInv /\ AppliedInv /\ CallInv
-----------------------------------------------------------------------------
\* What a record resolves to does not change as securities are created.
LEMMA ResolvesAsBefore ==
    ASSUME NEW r \in Records, NEW R, NEW Q, Present \subseteq R, R \subseteq Q,
           SecurityOf(R, Feed[r]) # NoId
    PROVE  SecurityOf(Q, Feed[r]) = SecurityOf(R, Feed[r])
<1> DEFINE rec == Feed[r]
           found(S) == {s \in ByCusip(S, rec.cusip) : rec.cusip # NoId}
           other(S) == {s \in ByIsin(S, rec.isin) : rec.isin # NoId}
           best(S) == IF found(S) # {} THEN found(S) ELSE other(S)
<1>1. \A S : SecurityOf(S, rec) = IF found(S) \cup other(S) = {} THEN NoId
                                  ELSE CHOOSE s \in best(S) : TRUE
  BY DEF SecurityOf
<1>2. found(R) \cup other(R) # {}
  BY <1>1
<1>3. CASE Fits(rec) \cap Late = {}
  <2>1. \A s \in Fits(rec) : s \in R /\ s \in Q
    BY <1>3 DEF Fits, Present
  <2>2. found(Q) = found(R)
    BY <2>1 DEF ByCusip, Fits
  <2>3. other(Q) = other(R)
    BY <2>1 DEF ByIsin, Fits
  <2>. QED BY <1>1, <2>2, <2>3
<1>4. CASE Fits(rec) \cap Late # {}
  <2>1. PICK s : Fits(rec) = {s}
    BY <1>4, NoLateRival
  <2>2. \A S : found(S) \subseteq {s} /\ other(S) \subseteq {s}
    BY <2>1 DEF ByCusip, ByIsin, Fits
  <2>3. found(R) # {} => found(Q) # {}
    BY DEF ByCusip
  <2>4. other(R) # {} => other(Q) # {}
    BY DEF ByIsin
  <2>5. found(Q) \cup other(Q) # {}
    BY <1>2, <2>3, <2>4
  <2>6. best(R) = {s} /\ best(Q) = {s}
    <3>. HIDE DEF found, other
    <3>. QED BY <1>2, <2>2, <2>5
  <2>. HIDE DEF best, found, other
  <2>. QED BY <1>1, <1>2, <2>5, <2>6
<1>. QED BY <1>3, <1>4

\* A record that can be curated can be curated later, as the same position.
LEMMA CuratedStays ==
    ASSUME NEW r \in Records, NEW R, NEW Q, Present \subseteq R, R \subseteq Q,
           Outcome(R, Feed[r]) = "CURATED"
    PROVE  /\ Outcome(Q, Feed[r]) = "CURATED"
           /\ SecurityOf(Q, Feed[r]) = SecurityOf(R, Feed[r])
           /\ Position(Q, r) = Position(R, r)
<1>1. SecurityOf(R, Feed[r]) # NoId /\ Feed[r].account \in R /\ Feed[r].decodes
  BY DEF Outcome
<1>2. SecurityOf(Q, Feed[r]) = SecurityOf(R, Feed[r])
  BY <1>1, ResolvesAsBefore
<1>. QED BY <1>1, <1>2 DEF Outcome, Position

\* What a record resolves to depends on the securities alone.
LEMMA SecuritiesResolve ==
    ASSUME NEW R, NEW Q, R \cap Securities = Q \cap Securities, NEW rec
    PROVE  SecurityOf(R, rec) = SecurityOf(Q, rec)
<1>1. \A c : ByCusip(R, c) = ByCusip(Q, c)
  BY DEF ByCusip
<1>2. \A i : ByIsin(R, i) = ByIsin(Q, i)
  BY DEF ByIsin
<1> DEFINE found(S) == {s \in ByCusip(S, rec.cusip) : rec.cusip # NoId}
           other(S) == {s \in ByIsin(S, rec.isin) : rec.isin # NoId}
<1>3. \A S : SecurityOf(S, rec) = IF found(S) \cup other(S) = {} THEN NoId
                 ELSE CHOOSE s \in IF found(S) # {} THEN found(S) ELSE other(S) : TRUE
  BY DEF SecurityOf
<1>4. found(R) = found(Q) /\ other(R) = other(Q)
  BY <1>1, <1>2
<1>. HIDE DEF found, other
<1>. QED BY <1>3, <1>4

\* The service's copy of the rules resolves as the curation does.
LEMMA SameRules ==
    ASSUME NEW rec PROVE ReconciledSecurity(rec) = SecurityOf(refs, rec)
<1> DEFINE found == {s \in ByCusip(refs, rec.cusip) : rec.cusip # NoId}
           other == {s \in ByIsin(refs, rec.isin) : rec.isin # NoId}
           own(c) == {s \in refs \cap Securities : Master[s].cusip = c}
           embedded(c) == {s \in refs \cap Securities : EmbeddedCusip[Master[s].isin] = c}
           byCusip == {s \in IF own(rec.cusip) # {} THEN own(rec.cusip)
                             ELSE embedded(rec.cusip) : rec.cusip # NoId}
           byIsin == {s \in refs \cap Securities : rec.isin # NoId /\ Master[s].isin = rec.isin}
<1>1. SecurityOf(refs, rec) = IF found \cup other = {} THEN NoId
                              ELSE CHOOSE s \in IF found # {} THEN found ELSE other : TRUE
  BY DEF SecurityOf
<1>2. ReconciledSecurity(rec) = IF byCusip \cup byIsin = {} THEN NoId
                                ELSE CHOOSE s \in IF byCusip # {} THEN byCusip ELSE byIsin : TRUE
  BY DEF ReconciledSecurity
<1>3. byCusip = found
  BY DEF ByCusip
<1>4. byIsin = other
  BY DEF ByIsin
<1>. HIDE DEF found, other, byCusip, byIsin
<1>. QED BY <1>1, <1>2, <1>3, <1>4
-----------------------------------------------------------------------------
LEMMA InitHolds == ReconcileInit => IInv
<1>1. ASSUME ReconcileInit PROVE IInv
  <2>. USE DEF ReconcileInit, Init
  <2>1. ReferenceInv
    BY <1>1 DEF ReferenceInv, Present
  <2>2. StageInv
    BY <1>1 DEF StageInv, Stages, Outcomes, InOrder
  <2>3. OutcomeInv /\ PositionsInv /\ AppliedInv /\ CallInv
    BY <1>1 DEF OutcomeInv, PositionsInv, AppliedInv, CallInv
  <2>. QED BY <2>1, <2>2, <2>3 DEF IInv
<1>. QED BY <1>1

\* A step is one of the feed and the curation, or one of a call.
LEMMA Steps ==
    ASSUME [ReconcileNext]_allvars
    PROVE  \/ /\ Create \/ Land \/ LoadAccounts \/ LoadSecurities \/ Poll \/ Write \/ Commit
                 \/ Finish \/ Crash
              /\ UNCHANGED call
           \/ /\ ReadRaw \/ ReadAccounts \/ ReadSecurities \/ ReadPositions \/ Report
              /\ UNCHANGED vars
           \/ UNCHANGED <<vars, call>>
BY DEF ReconcileNext, Next, Run, Reconcile, ReadRaw, ReadAccounts, ReadSecurities,
       ReadPositions, Report, allvars

LEMMA ReferenceStep ==
    ASSUME ReferenceInv, StageInv, [ReconcileNext]_allvars PROVE ReferenceInv'
<1> USE DEF ReferenceInv, curation, feed
<1>1. CASE Create
  BY <1>1, CustodyAssumption DEF Create
<1>2. CASE Land
  BY <1>2 DEF Land
<1>3. CASE LoadAccounts
  BY <1>3 DEF LoadAccounts
<1>4. CASE LoadSecurities
  BY <1>4 DEF LoadSecurities, Present
<1>5. CASE Poll
  BY <1>5 DEF Poll
<1>6. CASE Write
  BY <1>6 DEF Write
<1>7. CASE Commit
  BY <1>7 DEF Commit
<1>8. CASE Finish
  BY <1>8 DEF Finish
<1>9. CASE Crash
  BY <1>9 DEF Crash
<1>10. CASE UNCHANGED vars
  BY <1>10 DEF vars
<1>. QED
  BY <1>1, <1>2, <1>3, <1>4, <1>5, <1>6, <1>7, <1>8, <1>9, <1>10, Steps

LEMMA StageStep ==
    ASSUME StageInv, OutcomeInv, [ReconcileNext]_allvars PROVE StageInv'
<1> USE DEF StageInv, curation, feed, Stages
<1>1. CASE Create
  BY <1>1 DEF Create, InOrder
<1>2. CASE Land
  <2>1. raw' \in [RecIds -> Records \cup {0}]
    BY <1>2 DEF Land
  <2>2. UNCHANGED <<positions, committed, polled, pc, outcome, ops, batch>>
    BY <1>2 DEF Land
  <2>. QED BY <2>1, <2>2 DEF InOrder
<1>3. CASE LoadAccounts
  BY <1>3 DEF LoadAccounts, InOrder
<1>4. CASE LoadSecurities
  BY <1>4 DEF LoadSecurities, InOrder
<1>5. CASE Poll
  <2>1. PICK new \in SUBSET (Records \ polled) :
            /\ InOrder(polled \cup new)
            /\ polled' = polled \cup new
            /\ outcome' = [r \in Records |-> IF r \in new THEN Outcome(index, Feed[r])
                                             ELSE outcome[r]]
            /\ ops' = {r \in new : Outcome(index, Feed[r]) = "CURATED"}
            /\ batch' = [r \in Records |-> IF r \in new THEN Cardinality(polled) + 1
                                           ELSE batch[r]]
    BY <1>5 DEF Poll
  <2>2. pc = "poll" /\ pc' = "write" /\ UNCHANGED <<raw, committed>> /\ polled = committed
    BY <1>5 DEF Poll
  <2>3. outcome' \in [Records -> Outcomes]
    BY <2>1 DEF Outcome, Outcomes
  <2>4. (InOrder(committed) /\ InOrder(polled))'
    BY <2>1, <2>2 DEF InOrder
  <2>5. \A r, q \in (polled \ committed)' : batch'[r] = batch'[q]
    BY <2>1, <2>2
  <2>. QED BY <2>1, <2>2, <2>3, <2>4, <2>5
<1>6. CASE Write
  BY <1>6 DEF Write, InOrder
<1>7. CASE Commit
  BY <1>7 DEF Commit, InOrder
<1>8. CASE Finish
  BY <1>8 DEF Finish, InOrder
<1>9. CASE Crash
  BY <1>9 DEF Crash, InOrder
<1>10. CASE UNCHANGED vars
  BY <1>10 DEF vars, InOrder
<1>. QED
  BY <1>1, <1>2, <1>3, <1>4, <1>5, <1>6, <1>7, <1>8, <1>9, <1>10, Steps

\* Reference data only grows, and what can be curated stays so.
LEMMA KnownGrows ==
    ASSUME ReferenceInv, [ReconcileNext]_allvars
    PROVE  /\ known \subseteq known'
           /\ Create \/ known' = known
           /\ \A r \in Records : Outcome(known, Feed[r]) = "CURATED" =>
                 /\ Outcome(known, Feed[r])' = "CURATED"
                 /\ SecurityOf(known, Feed[r])' = SecurityOf(known, Feed[r])
                 /\ Position(known, r)' = Position(known, r)
<1>1. known \subseteq known' /\ (Create \/ known' = known)
  BY Steps DEF Create, Land, LoadAccounts, LoadSecurities, Poll, Write, Commit, Finish,
               Crash, vars
<1>2. ASSUME NEW r \in Records, Outcome(known, Feed[r]) = "CURATED"
      PROVE  /\ Outcome(known', Feed[r]) = "CURATED"
             /\ SecurityOf(known', Feed[r]) = SecurityOf(known, Feed[r])
             /\ Position(known', r) = Position(known, r)
  BY <1>1, <1>2, CuratedStays DEF ReferenceInv
<1>. QED BY <1>1, <1>2

\* Of the positions, only a write changes any.
LEMMA PositionsChange ==
    ASSUME [ReconcileNext]_allvars PROVE Write \/ positions' = positions
BY Steps DEF Create, Land, LoadAccounts, LoadSecurities, Poll, Commit, Finish, Crash, vars,
             curation

\* A write replaces the position of its record by the record's.
LEMMA WhatIsWritten ==
    ASSUME ReferenceInv, StageInv, OutcomeInv, Write
    PROVE  \E r \in ops :
              /\ Outcome(known, Feed[r]) = "CURATED"
              /\ positions' = {q \in positions : ~SameKey(q, Position(known, r))}
                              \cup {Position(known, r)}
              /\ ops' = ops \ {r}
<1>1. PICK r \in ops :
        /\ positions' = {q \in positions : ~SameKey(q, Position(index, r))}
                        \cup {Position(index, r)}
        /\ ops' = ops \ {r}
  BY DEF Write
<1>2. r \in Records /\ Outcome(index, Feed[r]) = "CURATED" /\ Present \subseteq index
      /\ index \subseteq known
  BY DEF OutcomeInv, StageInv, ReferenceInv
<1>3. Outcome(known, Feed[r]) = "CURATED" /\ Position(known, r) = Position(index, r)
  BY <1>2, CuratedStays
<1>. QED BY <1>1, <1>3

LEMMA OutcomeStep ==
    ASSUME ReferenceInv, StageInv, OutcomeInv, [ReconcileNext]_allvars PROVE OutcomeInv'
<1> USE DEF ReferenceInv, StageInv, OutcomeInv
<1>1. (\A r \in Records : outcome[r] = "CURATED" => Outcome(known, Feed[r]) = "CURATED")'
  <2>1. CASE Poll
    <3>. SUFFICES ASSUME NEW r \in Records, outcome'[r] = "CURATED"
                  PROVE  Outcome(known, Feed[r])' = "CURATED"
      OBVIOUS
    <3>1. Outcome(index, Feed[r]) = "CURATED" \/ outcome[r] = "CURATED"
      BY <2>1 DEF Poll
    <3>2. Present \subseteq index /\ index \subseteq known
      BY <2>1 DEF Poll
    <3>. QED BY <3>1, <3>2, CuratedStays, KnownGrows
  <2>2. CASE outcome' = outcome
    BY <2>2, KnownGrows
  <2>. QED BY <2>1, <2>2, Steps DEF Create, Land, LoadAccounts, LoadSecurities, Write, Commit,
                                    Finish, Crash, vars, curation
<1>2. (known \cap Late = {} =>
         \A r \in Records : outcome[r] \in {"UNKNOWN_ACCOUNT", "UNKNOWN_SECURITY"} =>
             Outcome(known, Feed[r]) = outcome[r])'
  <2>1. CASE Create
    BY <2>1 DEF Create
  <2>2. CASE Poll
    <3>. SUFFICES ASSUME known \cap Late = {}, NEW r \in Records,
                         outcome'[r] \in {"UNKNOWN_ACCOUNT", "UNKNOWN_SECURITY"}
                  PROVE  Outcome(known, Feed[r]) = outcome'[r]
      BY <2>2 DEF Poll
    <3>1. index = known
      BY <2>2 DEF Poll, Present
    <3>2. outcome'[r] \in {Outcome(index, Feed[r]), outcome[r]}
      BY <2>2 DEF Poll
    <3>3. CASE outcome'[r] = outcome[r]
      BY <3>3
    <3>. QED BY <3>1, <3>2, <3>3
  <2>3. CASE UNCHANGED <<known, outcome>>
    BY <2>3
  <2>. QED BY <2>1, <2>2, <2>3, Steps DEF Land, LoadAccounts, LoadSecurities, Write, Commit,
                                          Finish, Crash, vars, curation
<1>3. (\A r \in polled : outcome[r] # "NONE")'
  <2>1. CASE Poll
    BY <2>1 DEF Poll, Outcome
  <2>2. CASE polled' \subseteq polled /\ outcome' = outcome
    BY <2>2
  <2>. QED BY <2>1, <2>2, Steps DEF Create, Land, LoadAccounts, LoadSecurities, Write, Commit,
                                    Finish, Crash, vars, curation
<1>4. (\A r \in ops : pc = "write" /\ Outcome(index, Feed[r]) = "CURATED")'
  <2>1. CASE Poll
    BY <2>1 DEF Poll
  <2>2. CASE ops' = {}
    BY <2>2
  <2>3. CASE ops' \subseteq ops /\ UNCHANGED <<pc, index>>
    BY <2>3
  <2>. QED BY <2>1, <2>2, <2>3, Steps DEF Create, Land, LoadAccounts, LoadSecurities, Write,
                                          Commit, Finish, Crash, vars, curation
<1>. QED BY <1>1, <1>2, <1>3, <1>4

LEMMA PositionsStep ==
    ASSUME ReferenceInv, StageInv, OutcomeInv, PositionsInv, [ReconcileNext]_allvars
    PROVE  PositionsInv'
<1> USE DEF PositionsInv
<1>1. CASE Write
  <2>1. PICK r \in ops :
          /\ Outcome(known, Feed[r]) = "CURATED"
          /\ positions' = {q \in positions : ~SameKey(q, Position(known, r))}
                          \cup {Position(known, r)}
    BY <1>1, WhatIsWritten
  <2>2. known' = known /\ r \in Records /\ Position(known, r).record = r
    BY <1>1 DEF Write, StageInv, Position
  <2>. QED BY <2>1, <2>2
<1>2. CASE positions' = positions
  BY <1>2, KnownGrows
<1>. QED BY <1>1, <1>2, PositionsChange

\* A position that is there stays there, though of another record.
LEMMA HasPositionStays ==
    ASSUME ReferenceInv, StageInv, OutcomeInv, [ReconcileNext]_allvars,
           NEW r \in Records, Outcome(known, Feed[r]) = "CURATED", HasPosition(r)
    PROVE  HasPosition(r)'
<1>1. CASE Write
  <2>1. PICK w \in ops :
          positions' = {q \in positions : ~SameKey(q, Position(known, w))}
                       \cup {Position(known, w)}
    BY <1>1, WhatIsWritten
  <2>2. known' = known
    BY <1>1 DEF Write
  <2>3. PICK p \in positions : SameKey(p, Position(known, r))
    BY DEF HasPosition
  <2>4. CASE SameKey(p, Position(known, w))
    <3>1. SameKey(Position(known, w), Position(known, r))
      BY <2>3, <2>4 DEF SameKey
    <3>. QED BY <2>1, <2>2, <3>1 DEF HasPosition
  <2>5. CASE ~SameKey(p, Position(known, w))
    BY <2>1, <2>2, <2>3, <2>5 DEF HasPosition
  <2>. QED BY <2>4, <2>5
<1>2. CASE positions' = positions
  BY <1>2, KnownGrows DEF HasPosition
<1>. QED BY <1>1, <1>2, PositionsChange

LEMMA AppliedStep ==
    ASSUME ReferenceInv, StageInv, OutcomeInv, PositionsInv, AppliedInv,
           [ReconcileNext]_allvars
    PROVE  AppliedInv'
<1>. SUFFICES ASSUME NEW r \in (polled \ ops)', outcome'[r] = "CURATED"
              PROVE  /\ HasPosition(r)'
                     /\ \A p \in positions' : SameKey(p, Position(known, r)') =>
                            r <= p.record \/ batch'[r] = batch'[p.record]
  BY DEF AppliedInv
<1>1. CASE Write
  <2>1. PICK w \in ops :
          /\ Outcome(known, Feed[w]) = "CURATED"
          /\ positions' = {q \in positions : ~SameKey(q, Position(known, w))}
                          \cup {Position(known, w)}
          /\ ops' = ops \ {w}
    BY <1>1, WhatIsWritten
  <2>2. UNCHANGED <<known, polled, committed, outcome, batch>>
    BY <1>1 DEF Write
  <2>3. r \in Records /\ w \in Records /\ w \in polled \ committed
    BY <2>2 DEF StageInv
  <2>4. HasPosition(r)'
    <3>1. CASE r = w
      BY <2>1, <2>2, <3>1 DEF HasPosition, SameKey
    <3>2. CASE r # w
      <4>1. r \in polled \ ops /\ outcome[r] = "CURATED"
        BY <2>1, <2>2, <3>2
      <4>. QED BY <2>3, <4>1, HasPositionStays DEF AppliedInv, OutcomeInv
    <3>. QED BY <3>1, <3>2
  <2>5. ASSUME NEW p \in positions', SameKey(p, Position(known, r))
        PROVE  r <= p.record \/ batch[r] = batch[p.record]
    <3>1. CASE p = Position(known, w)
      <4>1. p.record = w /\ Feed[r].account = Feed[w].account
        BY <2>5, <3>1 DEF Position, SameKey
      <4>2. CASE r \in committed
        <5>1. ~(w < r)
          BY <2>3, <4>1, <4>2 DEF StageInv, InOrder
        <5>. QED BY <2>3, <4>1, <5>1
      <4>3. CASE r \in polled \ committed
        BY <2>3, <4>1, <4>3 DEF StageInv
      <4>. QED BY <2>2, <4>2, <4>3
    <3>2. CASE p \in positions /\ ~SameKey(p, Position(known, w))
      <4>1. r # w
        BY <2>5, <3>2
      <4>. QED BY <2>1, <2>2, <2>5, <3>2, <4>1 DEF AppliedInv
    <3>. QED BY <2>1, <3>1, <3>2
  <2>. QED BY <2>2, <2>4, <2>5
<1>2. CASE Poll
  <2>1. PICK new \in SUBSET (Records \ polled) :
          /\ polled' = polled \cup new
          /\ outcome' = [q \in Records |-> IF q \in new THEN Outcome(index, Feed[q])
                                           ELSE outcome[q]]
          /\ ops' = {q \in new : Outcome(index, Feed[q]) = "CURATED"}
          /\ batch' = [q \in Records |-> IF q \in new THEN Cardinality(polled) + 1
                                         ELSE batch[q]]
    BY <1>2 DEF Poll
  <2>2. UNCHANGED <<known, positions>> /\ ops = {} /\ polled \subseteq Records
    BY <1>2 DEF Poll, StageInv
  <2>3. r \in polled /\ outcome[r] = "CURATED" /\ batch'[r] = batch[r]
    BY <2>1, <2>2
  <2>4. HasPosition(r)'
    BY <2>2, <2>3 DEF AppliedInv, HasPosition
  <2>5. ASSUME NEW p \in positions, SameKey(p, Position(known, r)), p.record < r
        PROVE  batch'[p.record] = batch[p.record]
    <3>1. p.record \in Records /\ Feed[p.record].account = Feed[r].account
      BY <2>5 DEF PositionsInv, Position, SameKey
    <3>2. p.record \in polled
      BY <2>3, <2>5, <3>1 DEF StageInv, InOrder
    <3>. QED BY <2>1, <3>1, <3>2
  <2>6. \A p \in positions : p.record \in Records
    BY DEF PositionsInv
  <2>7. ASSUME NEW p \in positions, SameKey(p, Position(known, r))
        PROVE  r <= p.record \/ batch'[r] = batch'[p.record]
    <3>1. r <= p.record \/ batch[r] = batch[p.record]
      BY <2>2, <2>3, <2>7 DEF AppliedInv
    <3>2. r <= p.record \/ p.record < r
      BY <2>2, <2>3, <2>6
    <3>. QED BY <2>3, <2>5, <2>7, <3>1, <3>2
  <2>. QED BY <2>2, <2>4, <2>7
<1>3. CASE /\ UNCHANGED <<positions, outcome, batch>>
           /\ polled' \ ops' \subseteq polled \ ops
  <2>1. r \in polled \ ops /\ r \in Records /\ Outcome(known, Feed[r]) = "CURATED"
    BY <1>3 DEF StageInv, OutcomeInv
  <2>2. HasPosition(r)'
    BY <1>3, <2>1, HasPositionStays DEF AppliedInv
  <2>3. Position(known, r)' = Position(known, r)
    BY <2>1, KnownGrows
  <2>. QED BY <1>3, <2>1, <2>2, <2>3 DEF AppliedInv
<1>. QED
  <2>1. ASSUME Crash PROVE polled' \ ops' \subseteq polled \ ops
    BY <2>1 DEF Crash, StageInv
  <2>. QED BY <1>1, <1>2, <1>3, <2>1, Steps DEF Create, Land, LoadAccounts, LoadSecurities,
              Commit, Finish, Crash, vars, curation

\* What a call knows of the curated records stays so as the rest moves on.
LEMMA CallKept ==
    ASSUME ReferenceInv, StageInv, OutcomeInv, CallInv, [ReconcileNext]_allvars,
           UNCHANGED call
    PROVE  CallInv'
<1>1. known \subseteq known'
  BY KnownGrows
<1>2. ASSUME NEW r \in curatedBefore
      PROVE  /\ Outcome(known, Feed[r])' = "CURATED" /\ HasPosition(r)'
             /\ SecurityOf(known, Feed[r])' = SecurityOf(known, Feed[r])
  BY KnownGrows, HasPositionStays DEF CallInv
<1>. QED BY <1>1, <1>2 DEF CallInv, call

LEMMA CallStep ==
    ASSUME IInv, [ReconcileNext]_allvars PROVE CallInv'
<1>. USE DEF IInv
<1>1. CASE UNCHANGED call
  BY <1>1, CallKept
<1>2. ASSUME UNCHANGED vars
      PROVE  /\ known' = known
             /\ \A r : HasPosition(r)' = HasPosition(r)
  BY <1>2 DEF vars, curation, HasPosition
<1>3. CASE ReadRaw
  <2>1. \A c : RawOf(c) \subseteq Records
    BY DEF RawOf, StageInv
  <2>2. \A r \in CuratedNow : r \in Records /\ Outcome(known, Feed[r]) = "CURATED"
                              /\ HasPosition(r)
    BY DEF CuratedNow, StageInv, OutcomeInv, AppliedInv
  <2>. QED BY <1>2, <1>3, <2>1, <2>2 DEF ReadRaw, CallInv
<1>4. CASE ReadAccounts
  <2>1. ASSUME NEW r \in curatedBefore PROVE Feed[r].account \in known \cap Accounts
    BY DEF CallInv, Outcome, ReferenceInv
  <2>2. Present \cap Accounts \subseteq known \cap Accounts
    BY DEF ReferenceInv
  <2>. QED BY <1>2, <1>4, <2>1, <2>2 DEF ReadAccounts, CallInv
<1>5. CASE ReadSecurities
  <2>1. Present \subseteq refs' /\ refs \subseteq refs' /\ refs' \subseteq known
    BY <1>5 DEF ReadSecurities, CallInv, ReferenceInv, Present
  <2>2. ASSUME NEW r \in curatedBefore PROVE SecurityOf(refs', Feed[r]) = SecurityOf(known, Feed[r])
    <3>1. refs' \cap Securities = known \cap Securities
      BY <1>5 DEF ReadSecurities, CallInv
    <3>. QED BY <3>1, SecuritiesResolve
  <2>. QED BY <1>2, <1>5, <2>1, <2>2 DEF ReadSecurities, CallInv
<1>6. CASE ReadPositions
  <2>1. ASSUME NEW r \in curatedBefore
        PROVE  <<Feed[r].account, SecurityOf(known, Feed[r])>> \in Pairs(positions)
    BY DEF CallInv, HasPosition, SameKey, Position, Pairs
  <2>. QED BY <1>2, <1>6, <2>1 DEF ReadPositions, CallInv
<1>7. CASE Report
  BY <1>2, <1>7 DEF Report, CallInv
<1>. QED BY <1>1, <1>3, <1>4, <1>5, <1>6, <1>7, Steps
-----------------------------------------------------------------------------
(***************************************************************************)
(* The inductive invariant holds in every state of every behaviour.        *)
(***************************************************************************)
THEOREM Invariance == ReconcileSpec => []IInv
<1>1. IInv /\ [ReconcileNext]_allvars => IInv'
  BY ReferenceStep, StageStep, OutcomeStep, PositionsStep, AppliedStep, CallStep DEF IInv
<1>. QED BY <1>1, InitHolds, PTL DEF ReconcileSpec

(***************************************************************************)
(* What the curation group has acknowledged is in the positions, or was    *)
(* skipped for a reason.                                                   *)
(***************************************************************************)
THEOREM NothingAcknowledgedIsLost == ReconcileSpec => []AcknowledgedIsCurated
<1>1. IInv => AcknowledgedIsCurated
  BY DEF IInv, StageInv, OutcomeInv, AppliedInv, AcknowledgedIsCurated
<1>. QED BY <1>1, Invariance, PTL

(***************************************************************************)
(* A later record of a position replaces an earlier one, or they were in   *)
(* one bulk write, whatever crashes and replays there were.                *)
(***************************************************************************)
THEOREM CorrectionsAreApplied == ReconcileSpec => []CorrectionWins
<1>1. IInv => CorrectionWins
  BY DEF IInv, StageInv, AppliedInv, CorrectionWins
<1>. QED BY <1>1, Invariance, PTL

(***************************************************************************)
(* A record that was curated when a call began is reported as matched.     *)
(***************************************************************************)
THEOREM CuratedIsMatched == ReconcileSpec => []NoFalseAlarm
<1>1. IInv => NoFalseAlarm
  <2>. SUFFICES ASSUME IInv, at = "report", NEW r \in curatedBefore
                PROVE  Reason(r) = "MATCHED"
    BY DEF NoFalseAlarm
  <2>1. /\ Feed[r].account \in refs
        /\ SecurityOf(refs, Feed[r]) = SecurityOf(known, Feed[r])
        /\ SecurityOf(known, Feed[r]) # NoId
        /\ <<Feed[r].account, SecurityOf(known, Feed[r])>> \in pairs
    BY DEF IInv, CallInv, Outcome
  <2>. QED BY <2>1, SameRules DEF Reason
<1>. QED BY <1>1, Invariance, PTL

(***************************************************************************)
(* The reconciliation gives the reason the curation skipped a record for,  *)
(* when the reference data has not changed.                                *)
(***************************************************************************)
THEOREM SameAnswer == ReconcileSpec => []SameReason
<1>1. IInv => SameReason
  <2>. SUFFICES ASSUME IInv, at = "report", known \cap Late = {}, NEW r \in records,
                       outcome[r] \in {"UNKNOWN_ACCOUNT", "UNKNOWN_SECURITY"}
                PROVE  Reason(r) = outcome[r]
    BY DEF SameReason
  <2>1. refs = known
    BY DEF IInv, CallInv, ReferenceInv, Present
  <2>2. Outcome(refs, Feed[r]) = outcome[r]
    BY <2>1 DEF IInv, CallInv, OutcomeInv
  <2>. QED BY <2>2, SameRules DEF Reason, Outcome
<1>. QED BY <1>1, Invariance, PTL
=============================================================================
