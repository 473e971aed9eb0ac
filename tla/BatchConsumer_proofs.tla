------------------------ MODULE BatchConsumer_proofs ------------------------
(***************************************************************************)
(* Proofs about BatchConsumer, for every set of partitions, every length   *)
(* and content of the log, every batch size and every number of faults.    *)
(***************************************************************************)
EXTENDS BatchConsumer, TLAPS

\* The type invariant is inductive on its own.
LEMMA TypeInit == Init => TypeOK
  BY ConstantsAssumption DEF Init, TypeOK, Kinds, Records, Positions, Stages

LEMMA TypeStep == TypeOK /\ [Next]_vars => TypeOK'
<1> SUFFICES ASSUME TypeOK, [Next]_vars PROVE TypeOK'
  OBVIOUS
<1> USE DEF TypeOK, Stages, memory, environment
<1>1. CASE Start
  BY <1>1 DEF Start
<1>2. CASE Poll
  BY <1>2 DEF Poll, Between
<1>3. CASE DecodeRecord
  BY <1>3 DEF DecodeRecord
<1>4. CASE DropTombstone
  BY <1>4 DEF DropTombstone
<1>5. CASE DeadLetterGarbage
  BY <1>5 DEF DeadLetterGarbage, Publish, Entries
<1>6. CASE DeadLetterGarbageFails
  BY <1>6 DEF DeadLetterGarbageFails, PublishFails, Entries
<1>7. CASE Decoded
  BY <1>7 DEF Decoded
<1>8. CASE HandleBatch
  BY <1>8 DEF HandleBatch
<1>9. CASE HandleBatchFails
  BY <1>9 DEF HandleBatchFails
<1>10. CASE RetryRecord
  BY <1>10 DEF RetryRecord
<1>11. CASE RetryRecordFails
  BY <1>11 DEF RetryRecordFails, Publish, Entries
<1>12. CASE RetryRecordDies
  BY <1>12 DEF RetryRecordDies, PublishFails, Entries
<1>13. CASE Retried
  BY <1>13 DEF Retried
<1>14. CASE Flush
  BY <1>14 DEF Flush
<1>15. CASE Commit
  BY <1>15 DEF Commit
<1>16. CASE Close
  BY <1>16 DEF Close
<1>17. CASE Deliver
  BY <1>17 DEF Deliver
<1>18. CASE LoseDelivery
  BY <1>18 DEF LoseDelivery
<1>19. CASE Interrupt
  BY <1>19 DEF Interrupt
<1>20. CASE Crash
  BY <1>20 DEF Crash
<1>21. CASE UNCHANGED vars
  BY <1>21 DEF vars
<1> QED
  BY <1>1, <1>2, <1>3, <1>4, <1>5, <1>6, <1>7, <1>8, <1>9, <1>10, <1>11,
     <1>12, <1>13, <1>14, <1>15, <1>16, <1>17, <1>18, <1>19, <1>20, <1>21
     DEF Next, Work

(***************************************************************************)
(* Every state of every behaviour is well typed.                           *)
(***************************************************************************)
THEOREM TypeCorrect == Spec => []TypeOK
  BY TypeInit, TypeStep, PTL DEF Spec

-----------------------------------------------------------------------------
\* An empty hand where the stage says so.
LEMMA StageStep ==
  ASSUME TypeOK, StageInv, [Next]_vars
  PROVE  StageInv'
<1> USE DEF TypeOK, Stages, StageInv, memory, environment
<1>1. CASE Start
  BY <1>1 DEF Start
<1>2. CASE Poll
  BY <1>2 DEF Poll
<1>3. CASE DecodeRecord
  BY <1>3 DEF DecodeRecord
<1>4. CASE DropTombstone
  BY <1>4 DEF DropTombstone
<1>5. CASE DeadLetterGarbage
  BY <1>5 DEF DeadLetterGarbage, Publish
<1>6. CASE DeadLetterGarbageFails
  BY <1>6 DEF DeadLetterGarbageFails, PublishFails
<1>7. CASE Decoded
  BY <1>7 DEF Decoded
<1>8. CASE HandleBatch
  BY <1>8 DEF HandleBatch
<1>9. CASE HandleBatchFails
  BY <1>9 DEF HandleBatchFails
<1>10. CASE RetryRecord
  BY <1>10 DEF RetryRecord
<1>11. CASE RetryRecordFails
  BY <1>11 DEF RetryRecordFails, Publish
<1>12. CASE RetryRecordDies
  BY <1>12 DEF RetryRecordDies, PublishFails
<1>13. CASE Retried
  BY <1>13 DEF Retried
<1>14. CASE Flush
  BY <1>14 DEF Flush
<1>15. CASE Commit
  BY <1>15 DEF Commit
<1>16. CASE Close
  BY <1>16 DEF Close
<1>17. CASE Deliver
  BY <1>17 DEF Deliver
<1>18. CASE LoseDelivery
  BY <1>18 DEF LoseDelivery
<1>19. CASE Interrupt
  BY <1>19 DEF Interrupt
<1>20. CASE Crash
  BY <1>20 DEF Crash
<1>21. CASE UNCHANGED vars
  BY <1>21 DEF vars
<1> QED
  BY <1>1, <1>2, <1>3, <1>4, <1>5, <1>6, <1>7, <1>8, <1>9, <1>10, <1>11,
     <1>12, <1>13, <1>14, <1>15, <1>16, <1>17, <1>18, <1>19, <1>20, <1>21
     DEF Next, Work

\* What is in hand has been passed by the position.
LEMMA PendingStep ==
  ASSUME TypeOK, StageInv, PendingInv, [Next]_vars
  PROVE  PendingInv'
<1> USE DEF TypeOK, StageInv, PendingInv, Running, OfKind, Covered, Records, Positions, memory, environment
<1>1. CASE Start
  BY <1>1 DEF Start
<1>2. CASE Poll
  BY <1>2 DEF Poll, Between
<1>3. CASE DecodeRecord
  BY <1>3 DEF DecodeRecord
<1>4. CASE DropTombstone
  BY <1>4 DEF DropTombstone
<1>5. CASE DeadLetterGarbage
  BY <1>5 DEF DeadLetterGarbage, Publish
<1>6. CASE DeadLetterGarbageFails
  BY <1>6 DEF DeadLetterGarbageFails, PublishFails
<1>7. CASE Decoded
  BY <1>7 DEF Decoded
<1>8. CASE HandleBatch
  BY <1>8 DEF HandleBatch
<1>9. CASE HandleBatchFails
  BY <1>9 DEF HandleBatchFails
<1>10. CASE RetryRecord
  BY <1>10 DEF RetryRecord
<1>11. CASE RetryRecordFails
  BY <1>11 DEF RetryRecordFails, Publish
<1>12. CASE RetryRecordDies
  BY <1>12 DEF RetryRecordDies, PublishFails
<1>13. CASE Retried
  BY <1>13 DEF Retried
<1>14. CASE Flush
  BY <1>14 DEF Flush
<1>15. CASE Commit
  BY <1>15 DEF Commit
<1>16. CASE Close
  BY <1>16 DEF Close
<1>17. CASE Deliver
  BY <1>17 DEF Deliver
<1>18. CASE LoseDelivery
  BY <1>18 DEF LoseDelivery
<1>19. CASE Interrupt
  BY <1>19 DEF Interrupt
<1>20. CASE Crash
  BY <1>20 DEF Crash
<1>21. CASE UNCHANGED vars
  BY <1>21 DEF vars
<1> QED
  BY <1>1, <1>2, <1>3, <1>4, <1>5, <1>6, <1>7, <1>8, <1>9, <1>10, <1>11,
     <1>12, <1>13, <1>14, <1>15, <1>16, <1>17, <1>18, <1>19, <1>20, <1>21
     DEF Next, Work

\* What has been passed is settled or in hand, and what is committed is settled.
LEMMA PassedStep ==
  ASSUME TypeOK, StageInv, PendingInv, PassedInv, CommittedIsAccounted, [Next]_vars
  PROVE  (PassedInv /\ CommittedIsAccounted)'
<1> USE DEF TypeOK, StageInv, PendingInv, PassedInv, CommittedIsAccounted, Accounted, Running, OfKind, Covered, Records, Positions, Kinds, memory, environment
<1>1. CASE Start
  BY <1>1 DEF Start
<1>2. CASE Poll
  BY <1>2 DEF Poll, Between
<1>3. CASE DecodeRecord
  BY <1>3 DEF DecodeRecord
<1>4. CASE DropTombstone
  BY <1>4 DEF DropTombstone
<1>5. CASE DeadLetterGarbage
  BY <1>5 DEF DeadLetterGarbage, Publish
<1>6. CASE DeadLetterGarbageFails
  BY <1>6 DEF DeadLetterGarbageFails, PublishFails
<1>7. CASE Decoded
  BY <1>7 DEF Decoded
<1>8. CASE HandleBatch
  BY <1>8 DEF HandleBatch
<1>9. CASE HandleBatchFails
  BY <1>9 DEF HandleBatchFails
<1>10. CASE RetryRecord
  BY <1>10 DEF RetryRecord
<1>11. CASE RetryRecordFails
  BY <1>11 DEF RetryRecordFails, Publish
<1>12. CASE RetryRecordDies
  BY <1>12 DEF RetryRecordDies, PublishFails
<1>13. CASE Retried
  BY <1>13 DEF Retried
<1>14. CASE Flush
  BY <1>14 DEF Flush
<1>15. CASE Commit
  BY <1>15 DEF Commit
<1>16. CASE Close
  BY <1>16 DEF Close
<1>17. CASE Deliver
  BY <1>17 DEF Deliver
<1>18. CASE LoseDelivery
  BY <1>18 DEF LoseDelivery
<1>19. CASE Interrupt
  BY <1>19 DEF Interrupt
<1>20. CASE Crash
  BY <1>20 DEF Crash
<1>21. CASE UNCHANGED vars
  BY <1>21 DEF vars
<1> QED
  BY <1>1, <1>2, <1>3, <1>4, <1>5, <1>6, <1>7, <1>8, <1>9, <1>10, <1>11,
     <1>12, <1>13, <1>14, <1>15, <1>16, <1>17, <1>18, <1>19, <1>20, <1>21
     DEF Next, Work

\* A record still in hand has not been counted in this life.
LEMMA CountStep ==
  ASSUME TypeOK, StageInv, PendingInv, CountInv, [Next]_vars
  PROVE  CountInv'
<1> USE DEF TypeOK, StageInv, PendingInv, CountInv, OneCountPerLife, Running, OfKind, Covered, Records, Positions, memory, environment
<1>1. CASE Start
  BY <1>1 DEF Start
<1>2. CASE Poll
  BY <1>2 DEF Poll, Between
<1>3. CASE DecodeRecord
  BY <1>3 DEF DecodeRecord
<1>4. CASE DropTombstone
  BY <1>4 DEF DropTombstone
<1>5. CASE DeadLetterGarbage
  BY <1>5 DEF DeadLetterGarbage, Publish
<1>6. CASE DeadLetterGarbageFails
  BY <1>6 DEF DeadLetterGarbageFails, PublishFails
<1>7. CASE Decoded
  BY <1>7 DEF Decoded
<1>8. CASE HandleBatch
  BY <1>8 DEF HandleBatch
<1>9. CASE HandleBatchFails
  BY <1>9 DEF HandleBatchFails
<1>10. CASE RetryRecord
  BY <1>10 DEF RetryRecord
<1>11. CASE RetryRecordFails
  BY <1>11 DEF RetryRecordFails, Publish
<1>12. CASE RetryRecordDies
  BY <1>12 DEF RetryRecordDies, PublishFails
<1>13. CASE Retried
  BY <1>13 DEF Retried
<1>14. CASE Flush
  BY <1>14 DEF Flush
<1>15. CASE Commit
  BY <1>15 DEF Commit
<1>16. CASE Close
  BY <1>16 DEF Close
<1>17. CASE Deliver
  BY <1>17 DEF Deliver
<1>18. CASE LoseDelivery
  BY <1>18 DEF LoseDelivery
<1>19. CASE Interrupt
  BY <1>19 DEF Interrupt
<1>20. CASE Crash
  BY <1>20 DEF Crash
<1>21. CASE UNCHANGED vars
  BY <1>21 DEF vars
<1> QED
  BY <1>1, <1>2, <1>3, <1>4, <1>5, <1>6, <1>7, <1>8, <1>9, <1>10, <1>11,
     <1>12, <1>13, <1>14, <1>15, <1>16, <1>17, <1>18, <1>19, <1>20, <1>21
     DEF Next, Work

\* The records that entries stand for.
Recs(Q) == {e.rec : e \in Q}

\* A queued entry stands for its record.
LEMMA QueuedEntry ==
  ASSUME NEW r, NEW value, NEW Q
  PROVE  Recs(Q \cup {[rec |-> r, value |-> value]}) = Recs(Q) \cup {r}
<1> DEFINE new == [rec |-> r, value |-> value]
           Q1 == Q \cup {new}
<1>1. new.rec = r
  OBVIOUS
<1>2. \A e : e \in Q1 <=> e \in Q \/ e = new
  OBVIOUS
<1> HIDE DEF new, Q1
<1>3. {e.rec : e \in Q1} = {e.rec : e \in Q} \cup {r}
  BY <1>1, <1>2
<1> QED
  BY <1>3 DEF Recs, new, Q1

\* Without broker faults, nothing passed is lost.
LEMMA EvidenceStep ==
  ASSUME TypeOK, StageInv, PendingInv, EvidenceInv, [Next]_vars
  PROVE  EvidenceInv'
<1> USE DEF TypeOK, StageInv, PendingInv, EvidenceInv, Durable, Running, OfKind, Covered, Records, Positions, Kinds, Entries, BrokerMayFail, memory, environment
<1>1. CASE Start
  BY <1>1 DEF Start
<1>2. CASE Poll
  BY <1>2 DEF Poll, Between
<1>3. CASE DecodeRecord
  BY <1>3 DEF DecodeRecord
<1>4. CASE DropTombstone
  BY <1>4 DEF DropTombstone
<1>5. CASE DeadLetterGarbage
  <2> PICK r \in fetched :
          /\ kind[r] = "garbage"
          /\ Publish(r, "original")
          /\ fetched' = fetched \ {r}
    BY <1>5 DEF DeadLetterGarbage
  <2>1. {e.rec : e \in inflight'} = {e.rec : e \in inflight} \cup {r}
    <3>1. inflight' = inflight \cup {[rec |-> r, value |-> "original"]}
      BY Zenon DEF Publish
    <3>2. Recs(inflight') = Recs(inflight) \cup {r}
      BY ONLY <3>1, QueuedEntry
    <3> QED
      BY ONLY <3>2 DEF Recs
  <2> HIDE DEF Covered, OfKind
  <2>2. /\ UNCHANGED <<committed, dlqTopic, landed, pc, position, batch, brokerFaults>>
        /\ OfKind("tombstone")' = OfKind("tombstone")
        /\ pc = "decode"
    BY <1>5 DEF DeadLetterGarbage, OfKind
  <2> QED
    BY <2>1, <2>2
<1>6. CASE DeadLetterGarbageFails
  BY <1>6 DEF DeadLetterGarbageFails, PublishFails
<1>7. CASE Decoded
  BY <1>7 DEF Decoded
<1>8. CASE HandleBatch
  BY <1>8 DEF HandleBatch
<1>9. CASE HandleBatchFails
  BY <1>9 DEF HandleBatchFails
<1>10. CASE RetryRecord
  BY <1>10 DEF RetryRecord
<1>11. CASE RetryRecordFails
  <2> PICK r \in batch :
          /\ landed \subseteq landed'
          /\ Publish(r, "null")
          /\ batch' = batch \ {r}
    BY <1>11 DEF RetryRecordFails
  <2>1. {e.rec : e \in inflight'} = {e.rec : e \in inflight} \cup {r}
    <3>1. inflight' = inflight \cup {[rec |-> r, value |-> "null"]}
      BY Zenon DEF Publish
    <3>2. Recs(inflight') = Recs(inflight) \cup {r}
      BY ONLY <3>1, QueuedEntry
    <3> QED
      BY ONLY <3>2 DEF Recs
  <2> HIDE DEF Covered, OfKind
  <2>2. /\ UNCHANGED <<committed, dlqTopic, pc, position, fetched, brokerFaults>>
        /\ OfKind("tombstone")' = OfKind("tombstone")
        /\ pc = "retry"
    BY <1>11 DEF RetryRecordFails, OfKind
  <2> QED
    BY <2>1, <2>2, SMTT(60)
<1>12. CASE RetryRecordDies
  BY <1>12 DEF RetryRecordDies, PublishFails
<1>13. CASE Retried
  BY <1>13 DEF Retried
<1>14. CASE Flush
  BY <1>14 DEF Flush
<1>15. CASE Commit
  BY <1>15 DEF Commit
<1>16. CASE Close
  BY <1>16 DEF Close
<1>17. CASE Deliver
  BY <1>17 DEF Deliver
<1>18. CASE LoseDelivery
  BY <1>18 DEF LoseDelivery
<1>19. CASE Interrupt
  BY <1>19 DEF Interrupt
<1>20. CASE Crash
  BY <1>20 DEF Crash
<1>21. CASE UNCHANGED vars
  BY <1>21 DEF vars
<1> QED
  BY <1>1, <1>2, <1>3, <1>4, <1>5, <1>6, <1>7, <1>8, <1>9, <1>10, <1>11,
     <1>12, <1>13, <1>14, <1>15, <1>16, <1>17, <1>18, <1>19, <1>20, <1>21
     DEF Next, Work

-----------------------------------------------------------------------------
LEMMA IInvInit == Init => IInv
<1> SUFFICES ASSUME Init PROVE IInv
  OBVIOUS
<1>1. TypeOK
  BY TypeInit
<1>2. Covered(committed) = {}
  BY DEF Init, Covered, Records
<1>3. ~Running
  BY DEF Init, Running
<1>4. StageInv /\ PendingInv /\ PassedInv
  BY <1>3 DEF Init, StageInv, PendingInv, PassedInv
<1>5. CommittedIsAccounted
  BY <1>2 DEF CommittedIsAccounted
<1>6. CountInv
  BY <1>3 DEF Init, CountInv, OneCountPerLife
<1>7. EvidenceInv
  BY <1>2, <1>3 DEF Init, EvidenceInv
<1> QED
  BY <1>1, <1>4, <1>5, <1>6, <1>7 DEF IInv

LEMMA IInvStep == IInv /\ [Next]_vars => IInv'
  BY TypeStep, StageStep, PendingStep, PassedStep, CountStep, EvidenceStep
     DEF IInv

(***************************************************************************)
(* The inductive invariant holds in every reachable state.                 *)
(***************************************************************************)
THEOREM Invariance == Spec => []IInv
  BY IInvInit, IInvStep, PTL DEF Spec

(***************************************************************************)
(* No crash, store failure or retry ever lets the group commit an offset   *)
(* over a record that is neither written nor counted as dead-lettered.     *)
(***************************************************************************)
THEOREM NothingCommittedIsLost == Spec => []CommittedIsAccounted
<1>1. IInv => CommittedIsAccounted
  BY DEF IInv
<1> QED
  BY <1>1, Invariance, PTL

(***************************************************************************)
(* As long as the broker loses no dead-letter entry, what is committed can *)
(* be recovered from the store or from the dead-letter topic.              *)
(***************************************************************************)
THEOREM EvidenceIsKept == Spec => []EvidenceSurvives
<1>1. IInv => EvidenceSurvives
  BY DEF IInv, EvidenceInv, EvidenceSurvives
<1> QED
  BY <1>1, Invariance, PTL

(***************************************************************************)
(* The dead-letter counter of a record never exceeds the number of lives   *)
(* of the process.                                                         *)
(***************************************************************************)
THEOREM CountsAreBounded == Spec => []OneCountPerLife
<1>1. IInv => OneCountPerLife
  BY DEF IInv, CountInv
<1> QED
  BY <1>1, Invariance, PTL

(***************************************************************************)
(* A good record is dead-lettered only after a call to the store failed.   *)
(***************************************************************************)
THEOREM PoisonIsIsolated == Spec => []PoisonCostsOneRecord
<1>1. Init => PoisonCostsOneRecord
  BY DEF Init, PoisonCostsOneRecord, OfKind
<1>2. TypeOK /\ PoisonCostsOneRecord /\ [Next]_vars => PoisonCostsOneRecord'
  <2> SUFFICES ASSUME TypeOK, PoisonCostsOneRecord, [Next]_vars
               PROVE  PoisonCostsOneRecord'
    OBVIOUS
  <2> USE DEF TypeOK, PoisonCostsOneRecord, OfKind, memory, environment
  <2>1. CASE DeadLetterGarbage
    BY <2>1 DEF DeadLetterGarbage, Publish
  <2>2. CASE RetryRecordFails
    BY <2>2 DEF RetryRecordFails, Publish
  <2>3. CASE DeadLetterGarbageFails
    BY <2>3 DEF DeadLetterGarbageFails, PublishFails
  <2>4. CASE RetryRecordDies
    BY <2>4 DEF RetryRecordDies, PublishFails
  <2>5. CASE HandleBatchFails
    BY <2>5 DEF HandleBatchFails
  <2>6. CASE Start \/ Poll \/ DecodeRecord \/ DropTombstone \/ Decoded
    BY <2>6 DEF Start, Poll, DecodeRecord, DropTombstone, Decoded
  <2>7. CASE HandleBatch \/ RetryRecord \/ Retried \/ Flush \/ Commit \/ Close
    BY <2>7 DEF HandleBatch, RetryRecord, Retried, Flush, Commit, Close
  <2>8. CASE Deliver \/ LoseDelivery \/ Interrupt \/ Crash
    BY <2>8 DEF Deliver, LoseDelivery, Interrupt, Crash
  <2>9. CASE UNCHANGED vars
    BY <2>9 DEF vars
  <2> QED
    BY <2>1, <2>2, <2>3, <2>4, <2>5, <2>6, <2>7, <2>8, <2>9 DEF Next, Work
<1> QED
  BY <1>1, <1>2, TypeCorrect, PTL DEF Spec

-----------------------------------------------------------------------------
\* Every step but a commit settles records, or none.
LEMMA SettleStep ==
  ASSUME TypeOK, TypeOK', [Next]_vars, ~Commit
  PROVE  ALO!Settle
<1>1. UNCHANGED <<kind, committed>> /\ Accounted \subseteq Accounted'
  <2> USE DEF TypeOK, Accounted, memory, environment
  <2>1. CASE DeadLetterGarbage
    BY <2>1 DEF DeadLetterGarbage, Publish
  <2>2. CASE RetryRecordFails
    BY <2>2 DEF RetryRecordFails, Publish
  <2>3. CASE DeadLetterGarbageFails
    BY <2>3 DEF DeadLetterGarbageFails, PublishFails
  <2>4. CASE RetryRecordDies
    BY <2>4 DEF RetryRecordDies, PublishFails
  <2>5. CASE HandleBatchFails
    BY <2>5 DEF HandleBatchFails
  <2>6. CASE Start \/ Poll \/ DecodeRecord \/ DropTombstone \/ Decoded
    BY <2>6 DEF Start, Poll, DecodeRecord, DropTombstone, Decoded
  <2>7. CASE HandleBatch \/ RetryRecord \/ Retried \/ Flush \/ Close
    BY <2>7 DEF HandleBatch, RetryRecord, Retried, Flush, Close
  <2>8. CASE Deliver \/ LoseDelivery \/ Interrupt \/ Crash
    BY <2>8 DEF Deliver, LoseDelivery, Interrupt, Crash
  <2>9. CASE UNCHANGED vars
    BY <2>9 DEF vars
  <2> QED
    BY <2>1, <2>2, <2>3, <2>4, <2>5, <2>6, <2>7, <2>8, <2>9 DEF Next, Work
<1>2. OfKind("tombstone")' = OfKind("tombstone")
  BY <1>1 DEF OfKind
<1>3. Accounted' \in SUBSET ALO!Records
  BY DEF TypeOK, Accounted, Records, ALO!Records
<1> QED
  BY <1>1, <1>2, <1>3 DEF ALO!Settle

\* A commit acknowledges nothing that is not settled.
LEMMA AcknowledgeStep ==
  ASSUME IInv, Commit
  PROVE  ALO!Acknowledge
<1> USE DEF IInv, TypeOK, StageInv, PassedInv, Running, Commit
<1>1. /\ Covered(position) \subseteq Accounted \cup OfKind("tombstone")
      /\ \A p \in Partitions : committed[p] <= position[p]
  BY DEF StageInv
<1>2. Covered(position) = ALO!Covered(committed')
  BY DEF Covered, ALO!Covered, Records, ALO!Records
<1>3. UNCHANGED <<Accounted, OfKind("tombstone")>>
  BY DEF Accounted, OfKind
<1> QED
  BY <1>1, <1>2, <1>3 DEF ALO!Acknowledge, ALO!Positions, Positions

(***************************************************************************)
(* The consumer implements the at-least-once contract.                     *)
(***************************************************************************)
THEOREM Refinement == Spec => ImplementsAtLeastOnce
<1>1. Init => ALO!Init
  <2> SUFFICES ASSUME Init PROVE ALO!Init
    OBVIOUS
  <2>1. Accounted = {}
    BY DEF Init, Accounted
  <2>2. OfKind("tombstone") \in SUBSET ALO!Records
    BY DEF OfKind, Records, ALO!Records
  <2> QED
    BY <2>1, <2>2 DEF Init, ALO!Init
<1>2. IInv /\ IInv' /\ [Next]_vars => [ALO!Next]_(ALO!vars)
  BY SettleStep, AcknowledgeStep DEF IInv, ALO!Next
<1> QED
  BY <1>1, <1>2, Invariance, PTL DEF Spec, ImplementsAtLeastOnce, ALO!Spec

=============================================================================
