-------------------------- MODULE CrmCuration_proofs --------------------------
(***************************************************************************)
(* Proofs about CrmCuration, for any clients, accounts and legal change    *)
(* logs, any size of batch, and any number of deaths of the process: what  *)
(* the accounts collection shows once the curation has caught up, and what *)
(* it never shows on the way.                                              *)
(***************************************************************************)
EXTENDS CrmCuration, WellFoundedInduction, TLAPS

\* What the proofs use of the constants.
LEMMA LsnBound == MaxLsn \in Nat
BY CrmAssumption

LEMMA KindsApart == Clients \cap Accounts = {} /\ None \notin Documents
BY CrmAssumption

LEMMA RankType == \A n \in Lsns : Rank[n] \in Lsns
BY CrmAssumption

USE LsnBound

\* The last of a set of events.
Newest(e, S) == e \in S /\ \A f \in S : f.lsn <= e.lsn

\* The events polled whose operation is not applied yet, and those it is.
Pending == batch \cup {o.event : o \in ops}
Settled(e) == e \in polled /\ e \notin Pending

\* A client has an image in the raw tier.
Known(tier, c) == \E e \in Writes(tier) : e.key = c

\* A client event is not curated before it is landed.
SinkFirst == pace = "sink first"

\* As strings, LSNs compare as they do in the source.
RankInOrder == \A m, n \in Lsns : m < n => Rank[m] < Rank[n]

\* The log is a legal one, and every event known anywhere is one of the log.
LogInv ==
    /\ log \subseteq Events /\ Legal(log)
    /\ raw \subseteq log /\ polled \subseteq log /\ committed \subseteq polled

\* Every event is once in the batch, and the events of a row are in order.
QueueInv ==
    /\ Pending \subseteq polled /\ Pending \cap committed = {}
    /\ pc = "poll" => Pending = {}
    /\ \A e \in batch : Reads(e) /\ \A o \in ops : o.event # e
    /\ \A o, p \in ops : o.event = p.event => o = p
    /\ \A e \in polled, f \in log : f.key = e.key /\ f.lsn < e.lsn => f \in polled
    /\ \A e \in committed, f \in log : f.key = e.key /\ f.lsn < e.lsn => f \in committed
    /\ \A e \in Pending, f \in polled : f.key = e.key /\ e.lsn < f.lsn => f \in Pending
    /\ SinkFirst => \A e \in polled : OfClient(e) => e \in raw

\* An account shows what its last event says once that is applied, whatever
\* clients' events are applied after it.
OwnInv ==
    \A a \in Accounts :
        /\ OfKey(a) = {} => accounts[a] = None
        /\ \A w : Newest(w, Writes(OfKey(a))) /\ Settled(w) =>
               accounts[a] # None /\ accounts[a].client = w.client
        /\ \A e : Newest(e, OfKey(a)) /\ Settled(e) =>
               accounts[a].status = IF e.op = "write" THEN e.status ELSE "closed"

\* It has the last image of its client once both are applied, and so will an
\* operation that is built after that image.
VersionInv ==
    RankInOrder /\ SinkFirst =>
        /\ \A a \in Accounts : \A w, i :
               /\ Newest(w, Writes(OfKey(a))) /\ Settled(w)
               /\ Newest(i, Writes(OfKey(w.client))) /\ Settled(i)
               => accounts[a].version = i.lsn
        /\ \A o \in ops : \A i :
               /\ Reads(o.event)
               /\ Newest(i, Writes(OfKey(o.event.client))) /\ Settled(i)
               => o.version = i.lsn

\* An operation with the placeholder finds no copy of the client to replace.
PlaceholderInv ==
    SinkFirst =>
        /\ \A a \in Accounts :
               accounts[a] # None /\ accounts[a].version # 0 => Known(raw, accounts[a].client)
        /\ \A o \in ops : Reads(o.event) =>
               /\ o.version # 0 => Known(raw, o.event.client)
               /\ \A e \in batch : e.key = o.event.key => o.event.lsn < e.lsn
               /\ o.version = 0 =>
                     LET a == o.event.key IN
                     /\ accounts[a] # None /\ accounts[a].client = o.event.client
                        => accounts[a].version = 0
                     /\ \A p \in ops :
                           /\ Reads(p.event) /\ p.event.key = a
                           /\ p.event.client = o.event.client
                           /\ p.event.lsn < o.event.lsn
                           => p.version = 0

IInv == TypeOK /\ LogInv /\ QueueInv /\ OwnInv /\ VersionInv /\ PlaceholderInv
-----------------------------------------------------------------------------
\* Of elements that have a measure up to MaxLsn, one has the greatest.
LEMMA Greatest ==
    ASSUME NEW S, S # {}, NEW m, \A x \in S : m[x] \in Lsns
    PROVE  \E x \in S : \A y \in S : m[y] <= m[x]
<1> DEFINE R == OpToRel(<, Nat)
           T == {MaxLsn - m[x] : x \in S}
<1>1. IsWellFoundedOn(R, Nat)
  BY NatLessThanWellFounded
<1>2. \A x, y \in Nat : y < x => <<y, x>> \in R
  BY DEF OpToRel
<1>3. T \subseteq Nat /\ T # {}
  BY DEF Lsns
<1>. HIDE DEF R, T
<1>4. PICK t \in T : \A y \in T : <<y, t>> \notin R
  BY <1>1, <1>3, WFMin
<1>5. PICK x \in S : t = MaxLsn - m[x]
  BY DEF T
<1>6. ASSUME NEW y \in S PROVE m[y] <= m[x]
  <2>1. MaxLsn - m[y] \in T
    BY DEF T
  <2>2. ~(MaxLsn - m[y] < t)
    BY <1>2, <1>3, <1>4, <2>1
  <2>. QED BY <1>5, <2>2 DEF Lsns
<1>. QED BY <1>6

\* There is a last of any set of events, and CHOOSE gives it.
LEMMA LastFacts ==
    ASSUME NEW S, S \subseteq Events, S # {}
    PROVE  Newest(Last(S), S)
<1> DEFINE m == [e \in S |-> e.lsn]
<1>1. \A e \in S : m[e] = e.lsn /\ m[e] \in Lsns
  BY DEF Events
<1>. HIDE DEF m
<1>2. \E e \in S : \A f \in S : m[f] <= m[e]
  BY <1>1, Greatest
<1>. QED BY <1>1, <1>2 DEF Last, Newest

\* There is only one.
LEMMA OneNewest ==
    ASSUME LogInv, NEW S, S \subseteq log, NEW e, NEW f, Newest(e, S), Newest(f, S)
    PROVE  e = f
<1>1. e \in log /\ f \in log /\ e.lsn <= f.lsn /\ f.lsn <= e.lsn
  BY DEF Newest
<1>2. e.lsn \in Int /\ f.lsn \in Int
  BY <1>1 DEF LogInv, Events, Lsns
<1>. QED BY <1>1, <1>2 DEF LogInv, Legal

\* What the source's tables and keys allow, said of two events at a time.
LEMMA LegalFacts ==
    ASSUME LogInv, NEW e \in log
    PROVE  /\ e.lsn \in Lsns /\ e.key \in Keys /\ e.op \in {"write", "delete"}
           /\ e.client \in Clients /\ e.status \in Statuses
           /\ \A f \in log : f.lsn = e.lsn => f = e
           /\ \A f \in log : f.key = e.key /\ f.lsn < e.lsn => f.op = "write"
           /\ e.op = "delete" => \E f \in log : f.key = e.key /\ f.lsn < e.lsn
           /\ Reads(e) =>
                 /\ \E f \in log : f.key = e.client /\ f.lsn < e.lsn /\ f.op = "write"
                 /\ \A f \in log : f.key = e.client /\ f.lsn < e.lsn => f.op = "write"
<1>1. /\ e.lsn \in Lsns /\ e.key \in Keys /\ e.op \in {"write", "delete"}
      /\ e.client \in Clients /\ e.status \in Statuses
  BY DEF LogInv, Events
<1>2. \A f \in log : f.lsn = e.lsn => f = e
  BY DEF LogInv, Legal
<1> DEFINE before(k) == {f \in log : f.key = k /\ f.lsn < e.lsn}
           exists(k) == before(k) # {} /\ \A f \in before(k) : f.op = "write"
<1>3. /\ before(e.key) = {} \/ exists(e.key)
      /\ e.op = "delete" => exists(e.key)
      /\ ~OfClient(e) /\ e.op = "write" => exists(e.client)
  BY DEF LogInv, Legal
<1>. QED BY <1>1, <1>2, <1>3 DEF Reads

\* A client is deleted after every account that was its own has left it.
LEMMA DeletedAfter ==
    ASSUME LogInv, NEW e \in log, OfClient(e), e.op = "delete",
           NEW a \in Accounts, NEW w, Newest(w, OfKey(a)), w.op = "write"
    PROVE  w.client # e.key
<1> DEFINE before(k) == {f \in log : f.key = k /\ f.lsn < e.lsn}
           exists(k) == before(k) # {} /\ \A f \in before(k) : f.op = "write"
<1>1. w \in log /\ w.key = a /\ ~OfClient(w) /\ Reads(w) /\ \A f \in OfKey(a) : f.lsn <= w.lsn
  BY KindsApart DEF Newest, OfKey, Reads, OfClient
<1>2. e.lsn \in Int /\ w.lsn \in Int /\ \A f \in log : f.lsn \in Int
  BY <1>1, LegalFacts DEF Lsns
<1>3. SUFFICES ASSUME w.client = e.key PROVE FALSE
  OBVIOUS
<1>4. w.lsn < e.lsn
  <2>1. e.lsn # w.lsn
    BY <1>1, LegalFacts
  <2>2. ~(e.lsn < w.lsn)
    BY <1>1, <1>3, LegalFacts
  <2>. QED BY <1>2, <2>1, <2>2
<1>5. w \in before(a) /\ before(a) \subseteq OfKey(a)
  BY <1>1, <1>4 DEF OfKey
<1>6. \A f \in before(a) : f.op = "write"
  <2>1. ASSUME NEW f \in before(a) PROVE f.op = "write"
    <3>1. f \in log /\ f.key = w.key /\ f.lsn <= w.lsn
      BY <1>1, <1>5
    <3>2. CASE f.lsn < w.lsn
      BY <1>1, <3>1, <3>2, LegalFacts
    <3>3. CASE f.lsn = w.lsn
      BY <1>1, <3>1, <3>3, LegalFacts
    <3>. QED BY <1>2, <1>1, <3>1, <3>2, <3>3
  <2>. QED BY <2>1
<1>7. exists(a) /\ Last(before(a)).client # e.key
  <2>1. exists(a)
    BY <1>5, <1>6
  <2>2. \A b \in Accounts : exists(b) => Last(before(b)).client # e.key
    BY DEF LogInv, Legal
  <2>. QED BY <2>1, <2>2
<1>8. Newest(w, before(a))
  BY <1>1, <1>5 DEF Newest
<1>9. Newest(Last(before(a)), before(a))
  BY <1>5, LastFacts DEF LogInv
<1>10. Last(before(a)) = w
  BY <1>8, <1>9, OneNewest
<1>. QED BY <1>3, <1>7, <1>10

\* The newest client image known is one that is known.
LEMMA LatestFacts ==
    ASSUME LogInv, NEW c
    PROVE  /\ LatestClientState(c) \in 0..MaxLsn
           /\ LatestClientState(c) # 0 <=> Known(raw, c)
           /\ \A i : RankInOrder /\ Newest(i, Writes(OfKey(c))) /\ i \in raw
                     => LatestClientState(c) = i.lsn
<1> DEFINE known == {e \in Writes(raw) : e.key = c}
           rank == [e \in known |-> Rank[e.lsn]]
           chosen == CHOOSE e \in known : \A f \in known : Rank[f.lsn] <= Rank[e.lsn]
<1>1. known # {} <=> Known(raw, c)
  BY DEF Known
<1>2. known = {} => LatestClientState(c) = 0
  BY DEF LatestClientState
<1>3. known # {} => LatestClientState(c) = chosen.lsn
  BY DEF LatestClientState
<1>4. known \subseteq Writes(OfKey(c)) /\ known \subseteq raw /\ known \subseteq log
  BY DEF LogInv, Writes, OfKey
<1>5. \A e \in known : e.lsn \in Lsns /\ Rank[e.lsn] \in Lsns
  BY <1>4, LegalFacts, RankType
<1>6. ASSUME known # {}
      PROVE  chosen \in known /\ \A f \in known : Rank[f.lsn] <= Rank[chosen.lsn]
  <2>1. \A e \in known : rank[e] = Rank[e.lsn]
    OBVIOUS
  <2>. HIDE DEF rank, known
  <2>2. \E e \in known : \A f \in known : rank[f] <= rank[e]
    BY <1>5, <1>6, <2>1, Greatest
  <2>. QED BY <2>1, <2>2
<1>7. ASSUME NEW i, RankInOrder, Newest(i, Writes(OfKey(c))), i \in raw
      PROVE  LatestClientState(c) = i.lsn
  <2>1. i \in known
    BY <1>7 DEF Newest, Writes, OfKey
  <2>. HIDE DEF known
  <2>2. chosen \in known /\ Rank[i.lsn] <= Rank[chosen.lsn] /\ chosen.lsn <= i.lsn
    BY <1>4, <1>6, <1>7, <2>1 DEF Newest
  <2>. HIDE DEF chosen
  <2>3. i.lsn \in Lsns /\ chosen.lsn \in Lsns /\ Rank[i.lsn] \in Int /\ Rank[chosen.lsn] \in Int
    BY <1>5, <2>1, <2>2 DEF Lsns
  <2>4. ~(chosen.lsn < i.lsn)
    BY <1>7, <2>2, <2>3 DEF RankInOrder
  <2>5. chosen.lsn = i.lsn
    BY <2>2, <2>3, <2>4 DEF Lsns
  <2>. QED BY <1>3, <2>1, <2>5
<1>8. LatestClientState(c) \in 0..MaxLsn /\ (LatestClientState(c) # 0 <=> Known(raw, c))
  <2>. HIDE DEF known, chosen
  <2>1. CASE known = {}
    BY <1>1, <1>2, <2>1
  <2>2. CASE known # {}
    BY <1>1, <1>3, <1>5, <1>6, <2>2 DEF Lsns
  <2>. QED BY <2>1, <2>2
<1>. QED BY <1>7, <1>8
-----------------------------------------------------------------------------
\* How each action changes what is pending and what is settled.
LEMMA PollFacts ==
    ASSUME QueueInv, Poll
    PROVE  \E next \in SUBSET (log \ polled) :
              /\ polled' = polled \cup next /\ Pending = {} /\ Pending' = next
              /\ \A e \in next, f \in log \ polled :
                    f.key = e.key /\ f.lsn < e.lsn => f \in next
              /\ SinkFirst => \A e \in next : OfClient(e) => e \in raw
              /\ batch' = {e \in next : Reads(e)}
              /\ ops' = {[event |-> e, version |-> 0] : e \in {f \in next : ~Reads(f)}}
<1>1. PICK next \in SUBSET (log \ polled) :
          /\ \A e \in next, f \in log \ polled :
                f.key = e.key /\ f.lsn < e.lsn => f \in next
          /\ SinkFirst => \A e \in next : OfClient(e) => e \in raw
          /\ batch' = {e \in next : Reads(e)}
          /\ ops' = {[event |-> e, version |-> 0] : e \in {f \in next : ~Reads(f)}}
          /\ polled' = polled \cup next
  BY DEF Poll, SinkFirst
<1>2. Pending = {}
  BY DEF Poll, QueueInv
<1>3. \A o \in ops' : o.event \in next /\ ~Reads(o.event)
  <2>1. ASSUME NEW o \in ops' PROVE o.event \in next /\ ~Reads(o.event)
    <3>1. PICK e \in {f \in next : ~Reads(f)} : o = [event |-> e, version |-> 0]
      BY <1>1, <2>1
    <3>2. o.event = e
      BY <3>1
    <3>. QED BY <3>2
  <2>. QED BY <2>1
<1>4. \A e \in next : ~Reads(e) => \E o \in ops' : o.event = e
  <2>1. ASSUME NEW e \in next, ~Reads(e) PROVE \E o \in ops' : o.event = e
    <3>1. [event |-> e, version |-> 0] \in ops'
      BY <1>1, <2>1
    <3>. QED BY <3>1
  <2>. QED BY <2>1
<1>5. Pending' = batch' \cup {o.event : o \in ops'}
  BY DEF Pending
<1>6. Pending' = next
  BY <1>1, <1>3, <1>4, <1>5
<1>. QED BY <1>1, <1>2, <1>6

LEMMA BuildFacts ==
    ASSUME QueueInv, Build
    PROVE  \E e \in batch :
              /\ \A other \in batch : other.key = e.key => e.lsn <= other.lsn
              /\ batch' = batch \ {e} /\ Reads(e) /\ e \in Pending
              /\ ops' = ops \cup {[event |-> e, version |-> LatestClientState(e.client)]}
              /\ Pending' = Pending
<1>1. PICK e \in batch :
          /\ \A other \in batch : other.key = e.key => e.lsn <= other.lsn
          /\ batch' = batch \ {e}
          /\ ops' = ops \cup {[event |-> e, version |-> LatestClientState(e.client)]}
  BY DEF Build
<1>2. Reads(e) /\ e \in Pending
  BY DEF QueueInv, Pending
<1> DEFINE new == [event |-> e, version |-> LatestClientState(e.client)]
<1>3. new.event = e /\ new \in ops' /\ \A o \in ops' : o \in ops \/ o = new
  BY <1>1
<1>. HIDE DEF new
<1>4. Pending' = batch' \cup {o.event : o \in ops'}
  BY DEF Pending
<1>5. \A f \in Pending : f \in Pending'
  BY <1>1, <1>3, <1>4 DEF Pending
<1>6. \A f \in Pending' : f \in Pending
  BY <1>1, <1>2, <1>3, <1>4 DEF Pending
<1>. QED BY <1>1, <1>2, <1>5, <1>6

\* The operation written is the first of its row, and a client's only when no
\* account's is left.
LEMMA WriteFacts ==
    ASSUME QueueInv, Write
    PROVE  \E o \in ops :
              /\ batch = {} /\ batch' = {} /\ ops' = ops \ {o}
              /\ o.event \in Pending /\ Pending' = Pending \ {o.event}
              /\ OfClient(o.event) => \A p \in ops : OfClient(p.event)
              /\ \A e \in Pending : e.key = o.event.key => o.event.lsn <= e.lsn
              /\ \A p \in ops : p.event.key = o.event.key => o.event.lsn <= p.event.lsn
              /\ LET e == o.event IN
                 \/ ~OfClient(e) /\ e.op = "write" /\ accounts' = Upsert(e, o.version)
                 \/ ~OfClient(e) /\ e.op = "delete" /\ accounts' = Close(e.key)
                 \/ OfClient(e) /\ e.op = "write" /\ accounts' = FanOut(e)
                 \/ OfClient(e) /\ e.op = "delete" /\ accounts' = CloseAll(e.key)
<1>1. /\ batch = {} /\ batch' = {}
      /\ \E o \in ops :
            /\ \A p \in ops : OfClient(o.event) => OfClient(p.event)
            /\ \A p \in ops : p.event.key = o.event.key => o.event.lsn <= p.event.lsn
            /\ ops' = ops \ {o}
            /\ LET e == o.event IN
               \/ ~OfClient(e) /\ e.op = "write" /\ accounts' = Upsert(e, o.version)
               \/ ~OfClient(e) /\ e.op = "delete" /\ accounts' = Close(e.key)
               \/ OfClient(e) /\ e.op = "write" /\ accounts' = FanOut(e)
               \/ OfClient(e) /\ e.op = "delete" /\ accounts' = CloseAll(e.key)
  BY DEF Write
<1>2. PICK o \in ops :
            /\ \A p \in ops : OfClient(o.event) => OfClient(p.event)
            /\ \A p \in ops : p.event.key = o.event.key => o.event.lsn <= p.event.lsn
            /\ ops' = ops \ {o}
            /\ LET e == o.event IN
               \/ ~OfClient(e) /\ e.op = "write" /\ accounts' = Upsert(e, o.version)
               \/ ~OfClient(e) /\ e.op = "delete" /\ accounts' = Close(e.key)
               \/ OfClient(e) /\ e.op = "write" /\ accounts' = FanOut(e)
               \/ OfClient(e) /\ e.op = "delete" /\ accounts' = CloseAll(e.key)
  BY <1>1
<1>3. \A p \in ops : p.event = o.event => p = o
  BY DEF QueueInv
<1>4. Pending = {p.event : p \in ops} /\ Pending' = {p.event : p \in ops'}
  BY <1>1 DEF Pending
<1>5. \A e \in Pending : \E p \in ops : e = p.event
  BY <1>4
<1>6. o.event \in Pending
  BY <1>4
<1>7. Pending' = Pending \ {o.event}
  BY <1>2, <1>3, <1>4
<1>. QED BY <1>1, <1>2, <1>5, <1>6, <1>7

\* Nothing but a write settles an event: a poll adds what is pending, a commit
\* is of what is settled, and a death goes back to what was committed.
LEMMA SettledStep ==
    ASSUME LogInv, QueueInv, [Next]_vars, ~Write, NEW e, Settled(e)'
    PROVE  Settled(e)
<1>1. CASE Poll
  <2>1. PICK next \in SUBSET (log \ polled) :
            polled' = polled \cup next /\ Pending = {} /\ Pending' = next
    BY <1>1, PollFacts
  <2>. QED BY <2>1 DEF Settled
<1>2. CASE Build
  <2>1. Pending' = Pending /\ polled' = polled
    BY <1>2, BuildFacts DEF Build
  <2>. QED BY <2>1 DEF Settled
<1>3. CASE Crash
  <2>1. polled' = committed
    BY <1>3 DEF Crash
  <2>. QED BY <2>1 DEF Settled, QueueInv, LogInv
<1>4. CASE Land \/ Commit \/ UNCHANGED vars
  BY <1>4 DEF Land, Commit, vars, source, Settled, Pending
<1>. QED BY <1>1, <1>2, <1>3, <1>4 DEF Next, CurationNext
-----------------------------------------------------------------------------
LEMMA InitHolds == Init => IInv
<1>. SUFFICES ASSUME Init PROVE IInv
  OBVIOUS
<1>1. log \subseteq Events /\ Legal(log)
  BY CrmAssumption DEF Init
<1>2. Pending = {}
  BY DEF Init, Pending
<1>3. TypeOK /\ LogInv
  BY <1>1 DEF Init, TypeOK, LogInv
<1>4. QueueInv
  BY <1>2 DEF Init, QueueInv
<1>5. \A e : ~Settled(e)
  BY DEF Init, Settled
<1>6. OwnInv
  BY <1>5 DEF Init, OwnInv
<1>7. VersionInv
  BY <1>5 DEF Init, VersionInv
<1>8. PlaceholderInv
  BY DEF Init, PlaceholderInv
<1>. QED BY <1>3, <1>4, <1>6, <1>7, <1>8 DEF IInv

\* What each kind of write does to the fields of a document.
LEMMA UpsertFields ==
    ASSUME TypeOK, NEW e \in Events, NEW version \in 0..MaxLsn, accounts' = Upsert(e, version),
           NEW a \in Accounts
    PROVE  /\ a = e.key => /\ accounts'[a] # None /\ accounts'[a].client = e.client
                           /\ accounts'[a].version = version /\ accounts'[a].status = e.status
           /\ a # e.key => accounts'[a] = accounts[a]
           /\ accounts'[a] \in Documents \cup {None}
<1>1. accounts \in [Accounts -> Documents \cup {None}]
  BY DEF TypeOK
<1>2. CASE a = e.key
  <2>1. accounts'[a] = [client |-> e.client, version |-> version, status |-> e.status]
    BY <1>1, <1>2 DEF Upsert
  <2>2. accounts'[a] \in Documents
    BY <2>1 DEF Documents, Events
  <2>. QED BY <1>2, <2>1, <2>2, KindsApart
<1>3. CASE a # e.key
  BY <1>1, <1>3 DEF Upsert
<1>. QED BY <1>2, <1>3

LEMMA CloseFields ==
    ASSUME TypeOK, NEW k, accounts' = Close(k), NEW a \in Accounts
    PROVE  /\ accounts'[a] \in Documents \cup {None}
           /\ accounts[a] = None => accounts'[a] = None
           /\ accounts[a] # None =>
                 /\ accounts'[a] # None /\ accounts'[a].client = accounts[a].client
                 /\ accounts'[a].version = accounts[a].version
                 /\ accounts'[a].status = IF a = k THEN "closed" ELSE accounts[a].status
<1>1. accounts \in [Accounts -> Documents \cup {None}]
  BY DEF TypeOK
<1>2. accounts'[a] = IF a = k /\ accounts[a] # None
                     THEN [accounts[a] EXCEPT !.status = "closed"] ELSE accounts[a]
  BY <1>1 DEF Close
<1>3. CASE accounts[a] = None
  BY <1>2, <1>3
<1>4. CASE accounts[a] # None
  <2>1. accounts[a] \in Documents
    BY <1>1, <1>4
  <2>. QED BY <1>2, <1>4, <2>1, KindsApart DEF Documents, Statuses
<1>. QED BY <1>3, <1>4

LEMMA CloseAllFields ==
    ASSUME TypeOK, NEW c, accounts' = CloseAll(c), NEW a \in Accounts
    PROVE  /\ accounts'[a] \in Documents \cup {None}
           /\ accounts[a] = None => accounts'[a] = None
           /\ accounts[a] # None =>
                 /\ accounts'[a] # None /\ accounts'[a].client = accounts[a].client
                 /\ accounts'[a].version = accounts[a].version
                 /\ accounts'[a].status = IF accounts[a].client = c THEN "closed"
                                          ELSE accounts[a].status
<1>1. accounts \in [Accounts -> Documents \cup {None}]
  BY DEF TypeOK
<1>2. accounts'[a] = IF accounts[a] # None /\ accounts[a].client = c
                     THEN [accounts[a] EXCEPT !.status = "closed"] ELSE accounts[a]
  BY <1>1 DEF CloseAll, Embedding
<1>3. CASE accounts[a] = None
  BY <1>2, <1>3
<1>4. CASE accounts[a] # None
  <2>1. accounts[a] \in Documents
    BY <1>1, <1>4
  <2>. QED BY <1>2, <1>4, <2>1, KindsApart DEF Documents, Statuses
<1>. QED BY <1>3, <1>4

LEMMA FanOutFields ==
    ASSUME TypeOK, NEW e \in Events, accounts' = FanOut(e), NEW a \in Accounts
    PROVE  /\ accounts'[a] \in Documents \cup {None}
           /\ accounts[a] = None => accounts'[a] = None
           /\ accounts[a] # None =>
                 /\ accounts'[a] # None /\ accounts'[a].client = accounts[a].client
                 /\ accounts'[a].status = accounts[a].status
                 /\ accounts'[a].version = IF accounts[a].client = e.key THEN e.lsn
                                           ELSE accounts[a].version
<1>1. accounts \in [Accounts -> Documents \cup {None}]
  BY DEF TypeOK
<1>2. accounts'[a] = IF accounts[a] # None /\ accounts[a].client = e.key
                     THEN [accounts[a] EXCEPT !.version = e.lsn] ELSE accounts[a]
  BY <1>1 DEF FanOut, Embedding
<1>3. CASE accounts[a] = None
  BY <1>2, <1>3
<1>4. CASE accounts[a] # None
  <2>1. accounts[a] \in Documents /\ e.lsn \in 0..MaxLsn
    BY <1>1, <1>4 DEF Events, Lsns
  <2>. QED BY <1>2, <1>4, <2>1, KindsApart DEF Documents, Statuses
<1>. QED BY <1>3, <1>4

LEMMA TypeStep ==
    ASSUME TypeOK, LogInv, QueueInv, [Next]_vars PROVE TypeOK'
<1>. USE DEF TypeOK
<1>1. CASE Land
  BY <1>1 DEF Land, source, LogInv
<1>2. CASE Poll
  <2>1. PICK next \in SUBSET (log \ polled) :
            /\ polled' = polled \cup next
            /\ batch' = {e \in next : Reads(e)}
            /\ ops' = {[event |-> e, version |-> 0] : e \in {f \in next : ~Reads(f)}}
    BY <1>2, PollFacts
  <2>2. next \subseteq Events
    BY DEF LogInv
  <2>3. ops' \subseteq Operations
    <3>1. ASSUME NEW o \in ops' PROVE o \in Operations
      <4>1. PICK e \in next : o = [event |-> e, version |-> 0]
        BY <2>1, <3>1
      <4>. QED BY <2>2, <4>1 DEF Operations
    <3>. QED BY <3>1
  <2>. QED BY <1>2, <2>1, <2>2, <2>3 DEF Poll, source
<1>3. CASE Build
  <2>1. PICK e \in batch :
            /\ batch' = batch \ {e}
            /\ ops' = ops \cup {[event |-> e, version |-> LatestClientState(e.client)]}
    BY <1>3 DEF Build
  <2>2. [event |-> e, version |-> LatestClientState(e.client)] \in Operations
    BY LatestFacts DEF Operations
  <2>. QED BY <1>3, <2>1, <2>2 DEF Build, source
<1>4. CASE Write
  <2>1. PICK o \in ops :
              /\ ops' = ops \ {o}
              /\ LET e == o.event IN
                 \/ ~OfClient(e) /\ e.op = "write" /\ accounts' = Upsert(e, o.version)
                 \/ ~OfClient(e) /\ e.op = "delete" /\ accounts' = Close(e.key)
                 \/ OfClient(e) /\ e.op = "write" /\ accounts' = FanOut(e)
                 \/ OfClient(e) /\ e.op = "delete" /\ accounts' = CloseAll(e.key)
    BY <1>4, WriteFacts
  <2> DEFINE e == o.event
  <2>2. o \in Operations
    OBVIOUS
  <2>3. /\ e \in Events /\ o.version \in 0..MaxLsn
        /\ e.lsn \in 0..MaxLsn /\ e.client \in Clients /\ e.status \in Statuses
    BY <2>2 DEF Operations, Events, Lsns
  <2>4. accounts' = [a \in Accounts |-> accounts'[a]]
    BY <2>1 DEF Upsert, Close, FanOut, CloseAll
  <2>5. ASSUME NEW a \in Accounts PROVE accounts'[a] \in Documents \cup {None}
    BY <2>1, <2>3, UpsertFields, CloseFields, CloseAllFields, FanOutFields
  <2>6. accounts' \in [Accounts -> Documents \cup {None}]
    BY <2>4, <2>5
  <2>. QED BY <1>4, <2>1, <2>6 DEF Write, source
<1>5. CASE Commit
  BY <1>5 DEF Commit, source
<1>6. CASE Crash
  BY <1>6 DEF Crash, source
<1>7. CASE UNCHANGED vars
  BY <1>7 DEF vars, source
<1>. QED
  BY <1>1, <1>2, <1>3, <1>4, <1>5, <1>6, <1>7 DEF Next, CurationNext

LEMMA LogStep ==
    ASSUME LogInv, QueueInv, [Next]_vars PROVE LogInv'
<1>1. UNCHANGED log
  BY DEF Next, CurationNext, Land, Poll, Build, Write, Commit, Crash, vars, source
<1>2. raw' \subseteq log
  BY DEF Next, CurationNext, Land, Poll, Build, Write, Commit, Crash, vars, LogInv
<1>3. polled' \subseteq log /\ committed' \subseteq polled'
  <2>1. CASE Poll
    BY <2>1, PollFacts DEF Poll, LogInv
  <2>2. CASE ~Poll
    BY <2>2 DEF Next, CurationNext, Land, Build, Write, Commit, Crash, vars, LogInv
  <2>. QED BY <2>1, <2>2
<1>. QED BY <1>1, <1>2, <1>3 DEF LogInv

\* The log and the pace are given from the start.
LEMMA SameLog ==
    ASSUME [Next]_vars
    PROVE  /\ log' = log /\ pace' = pace /\ SinkFirst' = SinkFirst
           /\ \A k : OfKey(k)' = OfKey(k) /\ Writes(OfKey(k))' = Writes(OfKey(k))
           /\ \A e, S : Newest(e, S)' = Newest(e, S)
<1>1. log' = log /\ pace' = pace
  BY DEF Next, CurationNext, Land, Poll, Build, Write, Commit, Crash, vars, source
<1>. QED BY <1>1 DEF OfKey, Writes, Newest, SinkFirst

LEMMA QueueStep ==
    ASSUME LogInv, QueueInv, [Next]_vars PROVE QueueInv'
<1>0. \A e, f \in log : e.lsn \in Int /\ (e.lsn = f.lsn => e = f)
  BY LegalFacts DEF Lsns
<1>s. SinkFirst' = SinkFirst
  BY SameLog
<1>1. CASE Poll
  <2>1. PICK next \in SUBSET (log \ polled) :
              /\ polled' = polled \cup next /\ Pending = {} /\ Pending' = next
              /\ \A e \in next, f \in log \ polled :
                    f.key = e.key /\ f.lsn < e.lsn => f \in next
              /\ SinkFirst => \A e \in next : OfClient(e) => e \in raw
              /\ batch' = {e \in next : Reads(e)}
              /\ ops' = {[event |-> e, version |-> 0] : e \in {f \in next : ~Reads(f)}}
    BY <1>1, PollFacts
  <2>2. pc' = "batch" /\ UNCHANGED <<pace, log, raw, committed>>
    BY <1>1 DEF Poll, source
  <2>3. ASSUME NEW o \in ops'
        PROVE  o = [event |-> o.event, version |-> 0] /\ ~Reads(o.event)
    <3>1. PICK e \in {f \in next : ~Reads(f)} : o = [event |-> e, version |-> 0]
      BY <2>1
    <3>. QED BY <3>1
  <2>4. Pending' \subseteq polled' /\ Pending' \cap committed' = {}
    BY <2>1, <2>2 DEF LogInv
  <2>5. \A e \in batch' : Reads(e) /\ \A o \in ops' : o.event # e
    BY <2>1, <2>3
  <2>6. \A o, p \in ops' : o.event = p.event => o = p
    <3>1. ASSUME NEW o \in ops', NEW p \in ops', o.event = p.event PROVE o = p
      <4>1. o = [event |-> o.event, version |-> 0] /\ p = [event |-> p.event, version |-> 0]
        BY <2>3
      <4>. QED BY <3>1, <4>1
    <3>. QED BY <3>1
  <2>7. \A e \in polled', f \in log' : f.key = e.key /\ f.lsn < e.lsn => f \in polled'
    BY <2>1, <2>2 DEF QueueInv
  <2>8. \A e \in Pending', f \in polled' : f.key = e.key /\ e.lsn < f.lsn => f \in Pending'
    BY <2>1, <2>2 DEF QueueInv
  <2>9. SinkFirst' => \A e \in polled' : OfClient(e) => e \in raw'
    BY <1>s, <2>1, <2>2 DEF QueueInv
  <2>10. \A e \in batch' : Reads(e)'
    BY <2>5 DEF Reads, OfClient
  <2>. QED BY <1>s, <2>2, <2>4, <2>5, <2>6, <2>7, <2>8, <2>9, <2>10 DEF QueueInv
<1>2. CASE Build
  <2>1. PICK e \in batch :
              /\ batch' = batch \ {e} /\ Reads(e) /\ e \in Pending
              /\ ops' = ops \cup {[event |-> e, version |-> LatestClientState(e.client)]}
              /\ Pending' = Pending
    BY <1>2, BuildFacts
  <2> DEFINE new == [event |-> e, version |-> LatestClientState(e.client)]
  <2>2. UNCHANGED <<pace, log, raw, committed, polled, pc>>
    BY <1>2 DEF Build, source
  <2>3. new.event = e
    OBVIOUS
  <2>. HIDE DEF new
  <2>4. ops' = ops \cup {new}
    BY <2>1 DEF new
  <2>5. \A f \in batch' : Reads(f) /\ \A o \in ops' : o.event # f
    BY <2>1, <2>3, <2>4 DEF QueueInv
  <2>6. \A o, p \in ops' : o.event = p.event => o = p
    <3>1. \A o \in ops : o.event # e
      BY DEF QueueInv
    <3>. QED BY <2>3, <2>4, <3>1 DEF QueueInv
  <2>. QED BY <1>s, <2>1, <2>2, <2>5, <2>6 DEF QueueInv
<1>3. CASE Write
  <2>1. PICK o \in ops :
              /\ batch' = {} /\ ops' = ops \ {o}
              /\ o.event \in Pending /\ Pending' = Pending \ {o.event}
              /\ \A e \in Pending : e.key = o.event.key => o.event.lsn <= e.lsn
    BY <1>3, WriteFacts
  <2>2. UNCHANGED <<pace, log, raw, committed, polled, pc>>
    BY <1>3 DEF Write, source
  <2>3. \A e \in Pending', f \in polled' : f.key = e.key /\ e.lsn < f.lsn => f \in Pending'
    <3>1. ASSUME NEW e \in Pending', NEW f \in polled', f.key = e.key, e.lsn < f.lsn
          PROVE  f \in Pending'
      <4>1. e \in Pending /\ f \in Pending /\ e \in log /\ f \in log /\ o.event \in log
        BY <2>1, <2>2, <3>1 DEF QueueInv, LogInv
      <4>2. f # o.event
        BY <1>0, <2>1, <3>1, <4>1
      <4>. QED BY <2>1, <4>1, <4>2
    <3>. QED BY <3>1
  <2>. QED BY <1>s, <2>1, <2>2, <2>3 DEF QueueInv
<1>4. CASE Commit
  <2>1. /\ pc' = "poll" /\ batch' = {} /\ ops' = {} /\ committed' = polled
        /\ UNCHANGED <<pace, log, raw, polled>>
    BY <1>4 DEF Commit, source
  <2>2. Pending' = {}
    BY <2>1 DEF Pending
  <2>. QED BY <1>s, <2>1, <2>2 DEF QueueInv
<1>5. CASE Crash
  <2>1. /\ pc' = "poll" /\ batch' = {} /\ ops' = {} /\ polled' = committed
        /\ UNCHANGED <<pace, log, raw, committed>>
    BY <1>5 DEF Crash, source
  <2>2. Pending' = {}
    BY <2>1 DEF Pending
  <2>. QED BY <1>s, <2>1, <2>2 DEF QueueInv, LogInv
<1>6. CASE Land \/ UNCHANGED vars
  <2>1. raw \subseteq raw' /\ UNCHANGED <<pace, log, committed, polled, pc, batch, ops>>
    BY <1>6 DEF Land, vars, source
  <2>2. Pending' = Pending
    BY <2>1 DEF Pending
  <2>. QED BY <1>s, <2>1, <2>2 DEF QueueInv
<1>. QED BY <1>1, <1>2, <1>3, <1>4, <1>5, <1>6 DEF Next, CurationNext
-----------------------------------------------------------------------------
\* What is settled after a write, but for its event, was settled before, and is
\* earlier in the row.
LEMMA SettledBefore ==
    ASSUME LogInv, QueueInv, polled' = polled, NEW e \in Pending, Pending' = Pending \ {e},
           NEW w, Settled(w)', w # e
    PROVE  Settled(w) /\ (w.key = e.key => w.lsn < e.lsn)
<1>1. Settled(w) /\ w \in polled /\ w \notin Pending
  BY DEF Settled
<1>2. w \in log /\ e \in log
  BY <1>1 DEF LogInv, QueueInv
<1>3. w.lsn \in Int /\ e.lsn \in Int /\ w.lsn # e.lsn
  BY <1>2, LegalFacts DEF Lsns
<1>4. w.key = e.key => ~(e.lsn < w.lsn)
  BY <1>1 DEF QueueInv
<1>. QED BY <1>1, <1>3, <1>4

\* The last image of an account is settled before the deletion of its row is
\* written, and after; so an account whose last event is settled is shown.
LEMMA RowBefore ==
    ASSUME LogInv, QueueInv, OwnInv, NEW e \in polled, ~OfClient(e), e.op = "delete",
           Newest(e, OfKey(e.key)),
           \A f \in Pending : f.key = e.key => e.lsn <= f.lsn
    PROVE  e.key \in Accounts /\ accounts[e.key] # None
<1>1. e \in log /\ e.key \in Accounts
  BY LegalFacts DEF LogInv, Keys, OfClient
<1>2. PICK f \in log : f.key = e.key /\ f.lsn < e.lsn
  BY <1>1, LegalFacts
<1>3. f.op = "write"
  BY <1>1, <1>2, LegalFacts
<1> DEFINE S == Writes(OfKey(e.key))
<1>4. f \in S /\ S \subseteq log /\ S \subseteq Events /\ S \subseteq OfKey(e.key)
  BY <1>2, <1>3 DEF Writes, OfKey, LogInv
<1>. HIDE DEF S
<1>5. PICK w : Newest(w, S)
  BY <1>4, LastFacts
<1>6. w \in S /\ w \in log /\ w.key = e.key /\ w.op = "write" /\ w.lsn <= e.lsn
  BY <1>4, <1>5 DEF Newest, OfKey, S, Writes
<1>7. w.lsn < e.lsn
  <2>1. w # e
    BY <1>6
  <2>2. w.lsn \in Int /\ e.lsn \in Int /\ w.lsn # e.lsn
    BY <1>1, <1>6, <2>1, LegalFacts DEF Lsns
  <2>. QED BY <1>6, <2>2
<1>8. w \in polled
  BY <1>1, <1>6, <1>7 DEF QueueInv
<1>9. w \notin Pending
  <2>1. w.lsn \in Int /\ e.lsn \in Int
    BY <1>1, <1>6, LegalFacts DEF Lsns
  <2>. QED BY <1>6, <1>7, <2>1
<1>. QED BY <1>1, <1>5, <1>8, <1>9 DEF OwnInv, Settled, S

LEMMA SettledShown ==
    ASSUME LogInv, QueueInv, OwnInv, NEW a \in Accounts, NEW e,
           Newest(e, OfKey(a)), Settled(e)
    PROVE  accounts[a] # None
<1>1. e \in log /\ e.key = a /\ e \in polled /\ e \notin Pending /\ ~OfClient(e)
  BY KindsApart DEF Newest, OfKey, Settled, OfClient
<1>2. CASE e.op = "write"
  <2>1. Newest(e, Writes(OfKey(a)))
    BY <1>2 DEF Newest, Writes
  <2>. QED BY <2>1 DEF OwnInv
<1>3. CASE e.op = "delete"
  <2>1. ASSUME NEW f \in Pending, f.key = e.key PROVE e.lsn <= f.lsn
    <3>1. f \in polled /\ f \in log
      BY DEF QueueInv, LogInv
    <3>2. f.lsn \in Int /\ e.lsn \in Int
      BY <1>1, <3>1, LegalFacts DEF Lsns
    <3>3. ~(f.lsn < e.lsn)
      BY <1>1, <2>1 DEF QueueInv
    <3>. QED BY <3>2, <3>3
  <2>. QED BY <1>1, <1>3, <2>1, RowBefore
<1>. QED BY <1>1, <1>2, <1>3, LegalFacts

LEMMA OwnWrite ==
    ASSUME TypeOK, LogInv, QueueInv, OwnInv, Write PROVE OwnInv'
<1>1. PICK o \in ops :
              /\ o.event \in Pending /\ Pending' = Pending \ {o.event}
              /\ \A f \in Pending : f.key = o.event.key => o.event.lsn <= f.lsn
              /\ LET e == o.event IN
                 \/ ~OfClient(e) /\ e.op = "write" /\ accounts' = Upsert(e, o.version)
                 \/ ~OfClient(e) /\ e.op = "delete" /\ accounts' = Close(e.key)
                 \/ OfClient(e) /\ e.op = "write" /\ accounts' = FanOut(e)
                 \/ OfClient(e) /\ e.op = "delete" /\ accounts' = CloseAll(e.key)
  BY WriteFacts
<1> DEFINE e == o.event
           version == o.version
<1>2. /\ e \in Pending /\ Pending' = Pending \ {e} /\ polled' = polled /\ log' = log
      /\ \A f \in Pending : f.key = e.key => e.lsn <= f.lsn
  BY <1>1 DEF Write, source
<1>3. e \in log /\ e \in Events /\ version \in 0..MaxLsn /\ e.lsn \in 0..MaxLsn
  <2>1. o \in Operations /\ e \in log
    BY <1>1 DEF TypeOK, LogInv, QueueInv
  <2>. QED BY <2>1 DEF Operations, Events, Lsns
<1>4. \/ ~OfClient(e) /\ e.op = "write" /\ accounts' = Upsert(e, version)
      \/ ~OfClient(e) /\ e.op = "delete" /\ accounts' = Close(e.key)
      \/ OfClient(e) /\ e.op = "write" /\ accounts' = FanOut(e)
      \/ OfClient(e) /\ e.op = "delete" /\ accounts' = CloseAll(e.key)
  BY <1>1
<1>. HIDE DEF e, version
<1>5. ASSUME NEW a \in Accounts
      PROVE  /\ OfKey(a) = {} => accounts'[a] = None
             /\ \A w : Newest(w, Writes(OfKey(a))) /\ Settled(w)' =>
                    accounts'[a] # None /\ accounts'[a].client = w.client
             /\ \A l : Newest(l, OfKey(a)) /\ Settled(l)' =>
                    accounts'[a].status = IF l.op = "write" THEN l.status ELSE "closed"
  <2>1. a \notin Clients
    BY KindsApart
  <2>2. e.key = a <=> e \in OfKey(a)
    BY <1>3 DEF OfKey
  <2>3. OfKey(a) = {} => accounts'[a] = None
    <3>1. SUFFICES ASSUME OfKey(a) = {} PROVE accounts'[a] = None
      OBVIOUS
    <3>2. e.key # a /\ accounts[a] = None
      BY <2>2, <3>1 DEF OwnInv
    <3>3. CASE accounts' = Upsert(e, version)
      BY <1>3, <3>2, <3>3, UpsertFields
    <3>. QED BY <1>3, <1>4, <3>2, <3>3, CloseFields, CloseAllFields, FanOutFields
  <2>4. ASSUME NEW w, Newest(w, Writes(OfKey(a))), Settled(w)'
        PROVE  accounts'[a] # None /\ accounts'[a].client = w.client
    <3>0. w \in log /\ w.key = a /\ w.op = "write" /\ w.lsn \in Int /\ e.lsn \in Int
      BY <1>3, <2>4, LegalFacts DEF Newest, Writes, OfKey, Lsns
    <3>1. CASE w = e
      <4>1. accounts' = Upsert(e, version) /\ a = e.key
        BY <1>4, <2>1, <3>0, <3>1 DEF OfClient
      <4>. QED BY <1>3, <3>1, <4>1, UpsertFields
    <3>2. CASE w # e
      <4>1. Settled(w) /\ (w.key = e.key => w.lsn < e.lsn)
        BY <1>2, <2>4, <3>2, SettledBefore
      <4>2. accounts[a] # None /\ accounts[a].client = w.client
        BY <2>4, <4>1 DEF OwnInv
      <4>3. ~(e.key = a /\ e.op = "write")
        <5>1. SUFFICES ASSUME e.key = a, e.op = "write" PROVE FALSE
          OBVIOUS
        <5>2. e \in Writes(OfKey(a))
          BY <2>2, <5>1 DEF Writes
        <5>. QED BY <2>4, <3>0, <4>1, <5>1, <5>2 DEF Newest
      <4>4. CASE ~OfClient(e) /\ e.op = "write" /\ accounts' = Upsert(e, version)
        BY <1>3, <4>2, <4>3, <4>4, UpsertFields
      <4>5. CASE accounts' = Close(e.key)
        BY <4>2, <4>5, CloseFields
      <4>6. CASE accounts' = FanOut(e)
        BY <1>3, <4>2, <4>6, FanOutFields
      <4>7. CASE accounts' = CloseAll(e.key)
        BY <4>2, <4>7, CloseAllFields
      <4>. QED BY <1>4, <4>4, <4>5, <4>6, <4>7
    <3>. QED BY <3>1, <3>2
  <2>5. ASSUME NEW l, Newest(l, OfKey(a)), Settled(l)'
        PROVE  accounts'[a].status = IF l.op = "write" THEN l.status ELSE "closed"
    <3>0. l \in log /\ l.key = a /\ l.lsn \in Int /\ e.lsn \in Int /\ l.op \in {"write", "delete"}
      BY <1>3, <2>5, LegalFacts DEF Newest, OfKey, Lsns
    <3>1. CASE l = e
      <4>1. ~OfClient(e) /\ e.key = a
        BY <2>1, <3>0, <3>1 DEF OfClient
      <4>2. CASE e.op = "write" /\ accounts' = Upsert(e, version)
        BY <1>3, <3>1, <4>1, <4>2, UpsertFields
      <4>3. CASE e.op = "delete" /\ accounts' = Close(e.key)
        <5>1. accounts[a] # None
          BY <1>2, <2>5, <3>1, <4>1, <4>3, RowBefore DEF QueueInv
        <5>. QED BY <3>1, <4>1, <4>3, <5>1, CloseFields
      <4>. QED BY <1>4, <4>1, <4>2, <4>3
    <3>2. CASE l # e
      <4>1. Settled(l) /\ (l.key = e.key => l.lsn < e.lsn)
        BY <1>2, <2>5, <3>2, SettledBefore
      <4>2. accounts[a].status = IF l.op = "write" THEN l.status ELSE "closed"
        BY <2>5, <4>1 DEF OwnInv
      <4>0. accounts[a] # None
        BY <2>5, <4>1, SettledShown
      <4>3. e.key # a
        BY <2>2, <2>5, <3>0, <4>1 DEF Newest
      <4>4. CASE accounts' = Upsert(e, version)
        BY <1>3, <4>2, <4>3, <4>4, UpsertFields
      <4>5. CASE accounts' = Close(e.key)
        BY <4>0, <4>2, <4>3, <4>5, CloseFields
      <4>6. CASE accounts' = FanOut(e)
        BY <1>3, <4>0, <4>2, <4>6, FanOutFields
      <4>7. CASE OfClient(e) /\ e.op = "delete" /\ accounts' = CloseAll(e.key)
        <5>1. CASE accounts[a] # None /\ accounts[a].client = e.key
          <6>1. accounts'[a].status = "closed"
            BY <4>7, <5>1, CloseAllFields
          <6>2. l.op # "write"
            <7>1. SUFFICES ASSUME l.op = "write" PROVE FALSE
              OBVIOUS
            <7>2. Newest(l, Writes(OfKey(a)))
              BY <2>5, <7>1 DEF Newest, Writes
            <7>3. accounts[a].client = l.client
              BY <4>1, <7>2 DEF OwnInv
            <7>4. l.client # e.key
              BY <1>3, <2>5, <4>7, <7>1, DeletedAfter
            <7>. QED BY <5>1, <7>3, <7>4
          <6>. QED BY <6>1, <6>2
        <5>2. CASE ~(accounts[a] # None /\ accounts[a].client = e.key)
          BY <4>0, <4>2, <4>7, <5>2, CloseAllFields
        <5>. QED BY <5>1, <5>2
      <4>. QED BY <1>4, <4>4, <4>5, <4>6, <4>7
    <3>. QED BY <3>1, <3>2
  <2>. QED BY <2>3, <2>4, <2>5
<1>6. \A a : OfKey(a)' = OfKey(a) /\ Writes(OfKey(a))' = Writes(OfKey(a))
  BY <1>2 DEF OfKey, Writes
<1>7. \A w, S : Newest(w, S)' = Newest(w, S)
  BY DEF Newest
<1>. QED BY <1>5, <1>6, <1>7 DEF OwnInv

LEMMA OwnStep ==
    ASSUME TypeOK, LogInv, QueueInv, OwnInv, [Next]_vars PROVE OwnInv'
<1>1. CASE Write
  BY <1>1, OwnWrite
<1>2. CASE ~Write
  <2>1. accounts' = accounts
    BY <1>2 DEF Next, CurationNext, Land, Poll, Build, Commit, Crash, vars
  <2>2. \A e : Settled(e)' => Settled(e)
    BY <1>2, SettledStep
  <2>. QED BY <2>1, <2>2, SameLog DEF OwnInv
<1>. QED BY <1>1, <1>2
-----------------------------------------------------------------------------
\* What an account shows of its client, after a write.
LEMMA VersionWrite ==
    ASSUME TypeOK, LogInv, QueueInv, OwnInv, VersionInv, Write,
           RankInOrder, SinkFirst
    PROVE  /\ \A a \in Accounts : \A w, i :
                  /\ Newest(w, Writes(OfKey(a))) /\ Settled(w)'
                  /\ Newest(i, Writes(OfKey(w.client))) /\ Settled(i)'
                  => accounts'[a].version = i.lsn
           /\ \A o \in ops' : \A i :
                  /\ Reads(o.event)
                  /\ Newest(i, Writes(OfKey(o.event.client))) /\ Settled(i)'
                  => o.version = i.lsn
<1>1. PICK o \in ops :
              /\ ops' = ops \ {o}
              /\ o.event \in Pending /\ Pending' = Pending \ {o.event}
              /\ OfClient(o.event) => \A p \in ops : OfClient(p.event)
              /\ LET e == o.event IN
                 \/ ~OfClient(e) /\ e.op = "write" /\ accounts' = Upsert(e, o.version)
                 \/ ~OfClient(e) /\ e.op = "delete" /\ accounts' = Close(e.key)
                 \/ OfClient(e) /\ e.op = "write" /\ accounts' = FanOut(e)
                 \/ OfClient(e) /\ e.op = "delete" /\ accounts' = CloseAll(e.key)
  BY WriteFacts
<1> DEFINE e == o.event
           version == o.version
<1>2. /\ e \in Pending /\ Pending' = Pending \ {e} /\ polled' = polled
      /\ OfClient(e) => \A p \in ops : OfClient(p.event)
  BY <1>1 DEF Write, source
<1>3. e \in log /\ e \in Events /\ version \in 0..MaxLsn /\ e.lsn \in Int
  <2>1. o \in Operations /\ e \in log
    BY <1>1 DEF TypeOK, LogInv, QueueInv
  <2>2. e \in Events /\ version \in 0..MaxLsn
    BY <2>1 DEF Operations
  <2>3. e.lsn \in Lsns
    BY <2>2 DEF Events
  <2>. QED BY <2>1, <2>2, <2>3 DEF Lsns
<1>4. \/ ~OfClient(e) /\ e.op = "write" /\ accounts' = Upsert(e, version)
      \/ ~OfClient(e) /\ e.op = "delete" /\ accounts' = Close(e.key)
      \/ OfClient(e) /\ e.op = "write" /\ accounts' = FanOut(e)
      \/ OfClient(e) /\ e.op = "delete" /\ accounts' = CloseAll(e.key)
  BY <1>1
<1>5. ASSUME NEW i, Reads(e), Newest(i, Writes(OfKey(e.client))), Settled(i)
      PROVE  version = i.lsn
  BY <1>5 DEF VersionInv
<1>. HIDE DEF e, version
<1>6. ASSUME NEW a \in Accounts, NEW w, NEW i,
             Newest(w, Writes(OfKey(a))), Settled(w)',
             Newest(i, Writes(OfKey(w.client))), Settled(i)'
      PROVE  accounts'[a].version = i.lsn
  <2>1. /\ w \in log /\ w.key = a /\ w.op = "write" /\ w.lsn \in Int
        /\ i \in log /\ i.key = w.client /\ i.op = "write" /\ i.lsn \in Int
        /\ w.client \in Clients /\ a \notin Clients /\ Reads(w) /\ OfClient(i)
    <3>1. w \in log /\ w.key = a /\ w.op = "write"
      BY <1>6 DEF Newest, Writes, OfKey
    <3>2. i \in log /\ i.key = w.client /\ i.op = "write"
      BY <1>6 DEF Newest, Writes, OfKey
    <3>3. w.lsn \in Lsns /\ i.lsn \in Lsns /\ w.client \in Clients
      BY <3>1, <3>2, LegalFacts
    <3>. QED BY <3>1, <3>2, <3>3, KindsApart DEF Lsns, Reads, OfClient
  <2>0. w.lsn \in Int /\ i.lsn \in Int /\ e.lsn \in Int
    BY <1>3, <2>1
  <2>2. CASE w = e
    <3>1. accounts' = Upsert(e, version) /\ a = e.key
      BY <1>4, <2>1, <2>2 DEF OfClient
    <3>2. i # e
      BY <2>1, <2>2
    <3>3. Settled(i)
      BY <1>2, <1>6, <3>2, SettledBefore
    <3>4. version = i.lsn
      BY <1>5, <1>6, <2>1, <2>2, <3>3
    <3>. QED BY <1>3, <3>1, <3>4, UpsertFields
  <2>3. CASE w # e
    <3>1. Settled(w) /\ (w.key = e.key => w.lsn < e.lsn)
      BY <1>2, <1>6, <2>3, SettledBefore
    <3>2. accounts[a] # None /\ accounts[a].client = w.client
      BY <1>6, <3>1 DEF OwnInv
    <3>3. CASE i = e
      <4>1. accounts' = FanOut(e) /\ e.key = w.client
        BY <1>4, <2>1, <3>3
      <4>. QED BY <1>3, <3>2, <3>3, <4>1, FanOutFields
    <3>4. CASE i # e
      <4>1. Settled(i) /\ (i.key = e.key => i.lsn < e.lsn)
        BY <1>2, <1>6, <3>4, SettledBefore
      <4>2. accounts[a].version = i.lsn
        BY <1>6, <3>1, <4>1 DEF VersionInv
      <4>3. CASE ~OfClient(e) /\ e.op = "write" /\ accounts' = Upsert(e, version)
        <5>1. a # e.key
          <6>1. SUFFICES ASSUME a = e.key PROVE FALSE
            OBVIOUS
          <6>2. e \in Writes(OfKey(a))
            BY <1>3, <4>3, <6>1 DEF Writes, OfKey
          <6>3. e.lsn <= w.lsn /\ w.lsn < e.lsn
            BY <1>6, <2>1, <3>1, <6>1, <6>2 DEF Newest
          <6>. QED BY <2>0, <6>3
        <5>. QED BY <1>3, <4>2, <4>3, <5>1, UpsertFields
      <4>4. CASE accounts' = Close(e.key)
        BY <3>2, <4>2, <4>4, CloseFields
      <4>5. CASE OfClient(e) /\ e.op = "write" /\ accounts' = FanOut(e)
        <5>1. e.key # w.client
          <6>1. SUFFICES ASSUME e.key = w.client PROVE FALSE
            OBVIOUS
          <6>2. e \in Writes(OfKey(w.client))
            BY <1>3, <4>5, <6>1 DEF Writes, OfKey
          <6>3. e.lsn <= i.lsn /\ i.lsn < e.lsn
            BY <1>6, <2>1, <4>1, <6>1, <6>2 DEF Newest
          <6>. QED BY <2>0, <6>3
        <5>. QED BY <1>3, <3>2, <4>2, <4>5, <5>1, FanOutFields
      <4>6. CASE accounts' = CloseAll(e.key)
        BY <3>2, <4>2, <4>6, CloseAllFields
      <4>. QED BY <1>4, <4>3, <4>4, <4>5, <4>6
    <3>. QED BY <3>3, <3>4
  <2>. QED BY <2>2, <2>3
<1>7. ASSUME NEW p \in ops', NEW i, Reads(p.event),
             Newest(i, Writes(OfKey(p.event.client))), Settled(i)'
      PROVE  p.version = i.lsn
  <2>1. p \in ops /\ ~OfClient(e)
    BY <1>1, <1>2, <1>7 DEF Reads
  <2>2. i # e
    <3>1. p \in Operations /\ i.key = p.event.client
      BY <1>7, <2>1 DEF TypeOK, Newest, Writes, OfKey
    <3>2. i.key \in Clients
      BY <3>1 DEF Operations, Events
    <3>. QED BY <2>1, <3>2 DEF OfClient
  <2>3. Settled(i)
    BY <1>2, <1>7, <2>2, SettledBefore
  <2>. QED BY <1>7, <2>1, <2>3 DEF VersionInv
<1>. QED BY <1>6, <1>7

LEMMA VersionStep ==
    ASSUME TypeOK, LogInv, QueueInv, OwnInv, VersionInv, [Next]_vars PROVE VersionInv'
<1>. SUFFICES ASSUME RankInOrder, SinkFirst PROVE VersionInv'
  BY SameLog DEF VersionInv, RankInOrder
<1>0. \A f : Reads(f)' = Reads(f)
  BY DEF Reads, OfClient
<1>1. CASE Write
  BY <1>0, <1>1, VersionWrite, SameLog DEF VersionInv
<1>2. CASE ~Write
  <2>1. accounts' = accounts
    BY <1>2 DEF Next, CurationNext, Land, Poll, Build, Commit, Crash, vars
  <2>2. \A e : Settled(e)' => Settled(e)
    BY <1>2, SettledStep
  <2>3. ASSUME NEW o \in ops', NEW i, Reads(o.event),
               Newest(i, Writes(OfKey(o.event.client))), Settled(i)
        PROVE  o.version = i.lsn
    <3>1. CASE o \in ops
      BY <2>3, <3>1 DEF VersionInv
    <3>2. CASE Poll
      <4>1. PICK next \in SUBSET (log \ polled) :
              ops' = {[event |-> e, version |-> 0] : e \in {f \in next : ~Reads(f)}}
        BY <3>2, PollFacts
      <4>2. PICK e \in {f \in next : ~Reads(f)} : o = [event |-> e, version |-> 0]
        BY <2>3, <4>1
      <4>. QED BY <2>3, <4>2
    <3>3. CASE Build /\ o \notin ops
      <4>1. PICK e \in batch :
                ops' = ops \cup {[event |-> e, version |-> LatestClientState(e.client)]}
        BY <3>3, BuildFacts
      <4>2. o.event = e /\ o.version = LatestClientState(e.client)
        <5>1. o = [event |-> e, version |-> LatestClientState(e.client)]
          BY <2>3, <3>3, <4>1
        <5>. QED BY <5>1
      <4>3. i \in polled /\ i \in log /\ i.key = e.client
        BY <2>3, <4>2 DEF Settled, Newest, Writes, OfKey
      <4>4. OfClient(i)
        BY <4>3 DEF TypeOK, Events, OfClient
      <4>5. i \in raw
        BY <4>3, <4>4 DEF QueueInv
      <4>. QED BY <2>3, <4>2, <4>5, LatestFacts
    <3>4. CASE ops' \subseteq ops
      BY <2>3, <3>1, <3>4
    <3>. QED
      BY <1>2, <3>1, <3>2, <3>3, <3>4
         DEF Next, CurationNext, Land, Commit, Crash, vars
  <2>. QED BY <1>0, <2>1, <2>2, <2>3, SameLog DEF VersionInv
<1>. QED BY <1>1, <1>2
-----------------------------------------------------------------------------
\* An account with a copy of its client has one of an image that is landed.
LEMMA CopyIsKnown ==
    ASSUME TypeOK, LogInv, QueueInv, PlaceholderInv, SinkFirst, [Next]_vars,
           NEW a \in Accounts, accounts'[a] # None, accounts'[a].version # 0
    PROVE  Known(raw', accounts'[a].client)
<1>1. \A c : Known(raw, c) => Known(raw', c)
  <2>1. raw \subseteq raw'
    BY DEF Next, CurationNext, Land, Poll, Build, Write, Commit, Crash, vars
  <2>. QED BY <2>1 DEF Known, Writes
<1>2. SUFFICES Known(raw, accounts'[a].client)
  BY <1>1
<1>3. CASE accounts' = accounts
  BY <1>3 DEF PlaceholderInv
<1>4. CASE Write
  <2>1. PICK o \in ops :
              /\ o.event \in Pending
              /\ LET e == o.event IN
                 \/ ~OfClient(e) /\ e.op = "write" /\ accounts' = Upsert(e, o.version)
                 \/ ~OfClient(e) /\ e.op = "delete" /\ accounts' = Close(e.key)
                 \/ OfClient(e) /\ e.op = "write" /\ accounts' = FanOut(e)
                 \/ OfClient(e) /\ e.op = "delete" /\ accounts' = CloseAll(e.key)
    BY <1>4, WriteFacts
  <2> DEFINE e == o.event
             version == o.version
  <2>2. e \in polled /\ e \in Events /\ version \in 0..MaxLsn
    BY <2>1 DEF TypeOK, QueueInv, Operations
  <2>3. Reads(e) /\ version # 0 => Known(raw, e.client)
    BY DEF PlaceholderInv
  <2>4. \/ ~OfClient(e) /\ e.op = "write" /\ accounts' = Upsert(e, version)
        \/ ~OfClient(e) /\ e.op = "delete" /\ accounts' = Close(e.key)
        \/ OfClient(e) /\ e.op = "write" /\ accounts' = FanOut(e)
        \/ OfClient(e) /\ e.op = "delete" /\ accounts' = CloseAll(e.key)
    BY <2>1
  <2>. HIDE DEF e, version
  <2>5. accounts[a] # None /\ accounts[a].version # 0 => Known(raw, accounts[a].client)
    BY DEF PlaceholderInv
  <2>6. CASE ~OfClient(e) /\ e.op = "write" /\ accounts' = Upsert(e, version)
    BY <2>2, <2>3, <2>5, <2>6, UpsertFields DEF Reads
  <2>7. CASE accounts' = Close(e.key)
    BY <2>5, <2>7, CloseFields
  <2>8. CASE accounts' = CloseAll(e.key)
    BY <2>5, <2>8, CloseAllFields
  <2>9. CASE OfClient(e) /\ e.op = "write" /\ accounts' = FanOut(e)
    <3>1. e \in raw
      BY <2>2, <2>9 DEF QueueInv
    <3>2. Known(raw, e.key)
      BY <2>9, <3>1 DEF Known, Writes
    <3>. QED BY <2>2, <2>5, <2>9, <3>2, FanOutFields
  <2>. QED BY <2>4, <2>6, <2>7, <2>8, <2>9
<1>. QED BY <1>3, <1>4 DEF Next, CurationNext, Land, Poll, Build, Commit, Crash, vars

\* No operation built finds a copy to replace by the placeholder.
LEMMA PlaceholderWrite ==
    ASSUME TypeOK, LogInv, QueueInv, PlaceholderInv, SinkFirst, Write,
           NEW p \in ops', Reads(p.event), p.version = 0,
           accounts'[p.event.key] # None,
           accounts'[p.event.key].client = p.event.client
    PROVE  accounts'[p.event.key].version = 0
<1>1. PICK o \in ops :
              /\ ops' = ops \ {o}
              /\ OfClient(o.event) => \A q \in ops : OfClient(q.event)
              /\ \A q \in ops : q.event.key = o.event.key => o.event.lsn <= q.event.lsn
              /\ LET e == o.event IN
                 \/ ~OfClient(e) /\ e.op = "write" /\ accounts' = Upsert(e, o.version)
                 \/ ~OfClient(e) /\ e.op = "delete" /\ accounts' = Close(e.key)
                 \/ OfClient(e) /\ e.op = "write" /\ accounts' = FanOut(e)
                 \/ OfClient(e) /\ e.op = "delete" /\ accounts' = CloseAll(e.key)
  BY WriteFacts
<1> DEFINE e == o.event
           a == p.event.key
           version == o.version
<1>2. p \in ops /\ p # o /\ ~OfClient(e) /\ p.event # e
  BY <1>1 DEF Reads, QueueInv
<1>3. /\ e \in Events /\ version \in 0..MaxLsn /\ p.event \in Events
      /\ e \in log /\ p.event \in log
  <2>1. o \in Operations /\ p \in Operations
    BY <1>1, <1>2 DEF TypeOK
  <2>2. e \in Pending /\ p.event \in Pending
    BY <1>1, <1>2 DEF Pending
  <2>. QED BY <2>1, <2>2 DEF Operations, QueueInv, LogInv
<1>4. a \in Accounts
  BY <1>3 DEF Reads, OfClient, Events, Keys
<1>5. /\ accounts[a] # None /\ accounts[a].client = p.event.client => accounts[a].version = 0
      /\ Reads(e) /\ e.key = a /\ e.client = p.event.client /\ e.lsn < p.event.lsn
         => version = 0
  BY <1>1, <1>2 DEF PlaceholderInv
<1>6. e.key = a => e.lsn < p.event.lsn
  <2>1. e.key = a => e.lsn <= p.event.lsn
    BY <1>1, <1>2
  <2>2. e.lsn \in Lsns /\ p.event.lsn \in Lsns /\ e.lsn # p.event.lsn
    BY <1>2, <1>3, LegalFacts
  <2>. HIDE DEF e, a
  <2>. QED BY <2>1, <2>2 DEF Lsns
<1>7. \/ e.op = "write" /\ accounts' = Upsert(e, version)
      \/ accounts' = Close(e.key)
  BY <1>1, <1>2
<1>8. accounts'[a] # None /\ accounts'[a].client = p.event.client
  OBVIOUS
<1>. HIDE DEF e, a, version
<1>9. CASE e.op = "write" /\ accounts' = Upsert(e, version)
  BY <1>2, <1>3, <1>4, <1>5, <1>6, <1>8, <1>9, UpsertFields DEF Reads, a
<1>10. CASE accounts' = Close(e.key)
  BY <1>4, <1>5, <1>8, <1>10, CloseFields DEF a
<1>. QED BY <1>7, <1>9, <1>10

LEMMA PlaceholderStep ==
    ASSUME TypeOK, LogInv, QueueInv, PlaceholderInv, [Next]_vars PROVE PlaceholderInv'
<1>. SUFFICES ASSUME SinkFirst PROVE PlaceholderInv'
  BY SameLog DEF PlaceholderInv
<1>0. /\ \A f : Reads(f)' = Reads(f)
      /\ \A c : Known(raw, c) => Known(raw', c)
  <2>1. raw \subseteq raw'
    BY DEF Next, CurationNext, Land, Poll, Build, Write, Commit, Crash, vars
  <2>. QED BY <2>1 DEF Reads, OfClient, Known, Writes
<1>1. \A a \in Accounts :
          accounts'[a] # None /\ accounts'[a].version # 0 => Known(raw', accounts'[a].client)
  BY CopyIsKnown
<1>2. CASE \A o \in ops' : ~Reads(o.event)
  BY <1>0, <1>1, <1>2 DEF PlaceholderInv
<1>3. CASE Land \/ UNCHANGED vars
  <2>1. UNCHANGED <<accounts, batch, ops>>
    BY <1>3 DEF Land, vars
  <2>. QED BY <1>0, <1>1, <2>1 DEF PlaceholderInv
<1>4. CASE Build
  <2>1. PICK e \in batch :
            /\ \A other \in batch : other.key = e.key => e.lsn <= other.lsn
            /\ batch' = batch \ {e} /\ e \in Pending
            /\ ops' = ops \cup {[event |-> e, version |-> LatestClientState(e.client)]}
    BY <1>4, BuildFacts
  <2> DEFINE new == [event |-> e, version |-> LatestClientState(e.client)]
  <2>2. UNCHANGED <<accounts, raw>>
    BY <1>4 DEF Build
  <2>3. \A f \in batch : f.lsn \in Int /\ (f.lsn = e.lsn => f = e)
    BY LegalFacts DEF Pending, QueueInv, LogInv, Lsns
  <2>4. new.event = e /\ (new.version # 0 <=> Known(raw, e.client))
    BY LatestFacts
  <2>. HIDE DEF new
  <2>5. ops' = ops \cup {new}
    BY <2>1 DEF new
  <2>6. ASSUME NEW o \in ops, Reads(o.event)
        PROVE  /\ o.version # 0 => Known(raw, o.event.client)
               /\ \A f \in batch' : f.key = o.event.key => o.event.lsn < f.lsn
               /\ o.version = 0 =>
                     LET a == o.event.key IN
                     /\ accounts[a] # None /\ accounts[a].client = o.event.client
                        => accounts[a].version = 0
                     /\ \A p \in ops' :
                           /\ Reads(p.event) /\ p.event.key = a
                           /\ p.event.client = o.event.client
                           /\ p.event.lsn < o.event.lsn
                           => p.version = 0
    <3>1. /\ o.version # 0 => Known(raw, o.event.client)
          /\ \A f \in batch : f.key = o.event.key => o.event.lsn < f.lsn
          /\ o.version = 0 =>
                 LET a == o.event.key IN
                 /\ accounts[a] # None /\ accounts[a].client = o.event.client
                    => accounts[a].version = 0
                 /\ \A p \in ops : /\ Reads(p.event) /\ p.event.key = a
                                   /\ p.event.client = o.event.client
                                   /\ p.event.lsn < o.event.lsn
                                   => p.version = 0
      BY <2>6 DEF PlaceholderInv
    <3>2. e.key = o.event.key => ~(e.lsn < o.event.lsn)
      <4>1. e.key = o.event.key => o.event.lsn < e.lsn
        BY <2>1, <3>1
      <4>2. o.event \in Pending
        BY DEF Pending
      <4>3. o.event.lsn \in Lsns /\ e.lsn \in Lsns
        BY <2>1, <4>2, LegalFacts DEF QueueInv, LogInv
      <4>. QED BY <4>1, <4>3 DEF Lsns
    <3>. QED BY <2>1, <2>4, <2>5, <3>1, <3>2
  <2>7. /\ new.version # 0 => Known(raw, e.client)
        /\ \A f \in batch' : f.key = e.key => e.lsn < f.lsn
        /\ new.version = 0 =>
              LET a == e.key IN
              /\ accounts[a] # None /\ accounts[a].client = e.client => accounts[a].version = 0
              /\ \A p \in ops' : /\ Reads(p.event) /\ p.event.key = a
                                 /\ p.event.client = e.client /\ p.event.lsn < e.lsn
                                 => p.version = 0
    <3>1. \A f \in batch' : f.key = e.key => e.lsn < f.lsn
      BY <2>1, <2>3
    <3>2. Reads(e) /\ e \in Events
      BY <2>1 DEF QueueInv, TypeOK
    <3>3. e.key \in Accounts
      BY <3>2 DEF Reads, OfClient, Events, Keys
    <3>4. /\ ~Known(raw, e.client)
          /\ accounts[e.key] # None /\ accounts[e.key].client = e.client
          => accounts[e.key].version = 0
      BY <3>3 DEF PlaceholderInv
    <3>5. \A p \in ops : Reads(p.event) /\ p.event.client = e.client /\ ~Known(raw, e.client)
                         => p.version = 0
      BY DEF PlaceholderInv
    <3>. QED BY <2>4, <2>5, <3>1, <3>4, <3>5
  <2>8. \A o \in ops' : o \in ops \/ (o = new /\ o.event = e)
    BY <2>4, <2>5
  <2>. QED BY <1>0, <1>1, <2>2, <2>6, <2>7, <2>8 DEF PlaceholderInv
<1>5. CASE Write
  <2>1. batch' = {} /\ ops' \subseteq ops
    BY <1>5, WriteFacts
  <2>2. \A p \in ops' : /\ Reads(p.event) /\ p.version = 0 /\ accounts'[p.event.key] # None
                        /\ accounts'[p.event.key].client = p.event.client
                        => accounts'[p.event.key].version = 0
    BY <1>5, PlaceholderWrite
  <2>. QED BY <1>0, <1>1, <2>1, <2>2 DEF PlaceholderInv
<1>6. CASE Poll
  <2>1. PICK next \in SUBSET (log \ polled) :
            ops' = {[event |-> e, version |-> 0] : e \in {f \in next : ~Reads(f)}}
    BY <1>6, PollFacts
  <2>2. ASSUME NEW o \in ops' PROVE ~Reads(o.event)
    <3>1. PICK e \in {f \in next : ~Reads(f)} : o = [event |-> e, version |-> 0]
      BY <2>1
    <3>. QED BY <3>1
  <2>. QED BY <1>2, <2>2
<1>. QED BY <1>2, <1>3, <1>4, <1>5, <1>6 DEF Next, CurationNext, Commit, Crash
-----------------------------------------------------------------------------
(***************************************************************************)
(* What holds of the processes and the documents in every state: the       *)
(* events of a row are polled, built and applied in their order, an        *)
(* account shows its last event once that is applied and the last image of *)
(* its client once both are, and the placeholder never replaces a copy.    *)
(***************************************************************************)
THEOREM Invariance == Spec => []IInv
<1>1. Init => IInv
  BY InitHolds
<1>2. IInv /\ [Next]_vars => IInv'
  <2>. SUFFICES ASSUME IInv, [Next]_vars PROVE IInv'
    OBVIOUS
  <2>. QED
    BY TypeStep, LogStep, QueueStep, OwnStep, VersionStep, PlaceholderStep DEF IInv
<1>. QED BY <1>1, <1>2, PTL DEF Spec

\* The variables have the values the code gives them.
THEOREM TypeCorrect == Spec => []TypeOK
<1>1. IInv => TypeOK
  BY DEF IInv
<1>. QED BY <1>1, Invariance, PTL

\* Of an account the source has or had, the last image, and what it shows.
LEMMA CaughtUpFacts ==
    ASSUME IInv, CaughtUp, NEW a \in Accounts, OfKey(a) # {}
    PROVE  LET row == Last(Writes(OfKey(a))) IN
           /\ Newest(row, Writes(OfKey(a))) /\ row \in log /\ row.op = "write" /\ row.key = a
           /\ accounts[a] # None /\ accounts[a].client = row.client
           /\ accounts[a].status = IF Exists(a) THEN row.status ELSE "closed"
<1>. USE DEF IInv
<1> DEFINE row == Last(Writes(OfKey(a)))
           end == Last(OfKey(a))
<1>1. OfKey(a) \subseteq log /\ OfKey(a) \subseteq Events
  BY DEF OfKey, LogInv
<1>2. Newest(end, OfKey(a))
  BY <1>1, LastFacts
<1>3. end \in log /\ end.key = a /\ end \in OfKey(a)
  BY <1>2 DEF Newest, OfKey
<1>4. Writes(OfKey(a)) # {}
  <2>1. CASE end.op = "write"
    BY <1>3, <2>1 DEF Writes
  <2>2. CASE end.op = "delete"
    <3>1. PICK f \in log : f.key = end.key /\ f.lsn < end.lsn
      BY <1>3, <2>2, LegalFacts
    <3>2. f.op = "write"
      BY <1>3, <3>1, LegalFacts
    <3>. QED BY <1>3, <3>1, <3>2 DEF Writes, OfKey
  <2>. QED BY <1>3, <2>1, <2>2, LegalFacts
<1>5. Writes(OfKey(a)) \subseteq OfKey(a) /\ Writes(OfKey(a)) \subseteq Events
  BY <1>1 DEF Writes
<1>6. Newest(row, Writes(OfKey(a)))
  BY <1>4, <1>5, LastFacts
<1>7. row \in log /\ row.op = "write" /\ row.key = a
  BY <1>6 DEF Newest, Writes, OfKey
<1>8. \A e \in log : Settled(e)
  BY DEF CaughtUp, Settled, Pending
<1>. HIDE DEF row, end
<1>9. accounts[a] # None /\ accounts[a].client = row.client
  BY <1>6, <1>7, <1>8 DEF OwnInv
<1>10. accounts[a].status = IF end.op = "write" THEN end.status ELSE "closed"
  BY <1>2, <1>3, <1>8 DEF OwnInv
<1>11. end.op = "write" => end = row
  <2>1. SUFFICES ASSUME end.op = "write" PROVE end = row
    OBVIOUS
  <2>2. Newest(end, Writes(OfKey(a)))
    BY <1>2, <2>1 DEF Newest, Writes
  <2>3. Writes(OfKey(a)) \subseteq log
    BY <1>1, <1>5
  <2>. QED BY <1>6, <2>2, <2>3, OneNewest
<1>12. Exists(a) <=> end.op = "write"
  BY DEF Exists, end
<1>. QED BY <1>6, <1>7, <1>9, <1>10, <1>11, <1>12 DEF row

\* The client of an account that has an image has one too.
LEMMA ImageFacts ==
    ASSUME LogInv, NEW row \in log, row.op = "write", row.key \in Accounts
    PROVE  LET image == Last(Writes(OfKey(row.client))) IN
           /\ Newest(image, Writes(OfKey(row.client)))
           /\ image \in log /\ image.lsn \in 0..MaxLsn
<1> DEFINE S == Writes(OfKey(row.client))
<1>1. Reads(row)
  BY KindsApart DEF Reads, OfClient
<1>2. PICK f \in log : f.key = row.client /\ f.op = "write"
  BY <1>1, LegalFacts
<1>3. f \in S /\ S \subseteq Events /\ S \subseteq log
  BY <1>2 DEF Writes, OfKey, LogInv
<1>. HIDE DEF S
<1>4. Newest(Last(S), S)
  BY <1>3, LastFacts
<1>5. Last(S) \in log
  BY <1>3, <1>4 DEF Newest
<1>6. Last(S).lsn \in Lsns
  BY <1>5, LegalFacts
<1>. QED BY <1>4, <1>5, <1>6 DEF S, Lsns

(***************************************************************************)
(* Whatever the pace of the sink and the order of the two topics, and      *)
(* however often the curation dies and handles events again, once it has   *)
(* caught up every account shows the client and the status of its row      *)
(* (curate_account_event, curate_client_event and the order of bulk_write).*)
(***************************************************************************)
THEOREM EveryRowIsShown == Spec => []OwnFieldsConverge
<1>1. IInv => OwnFieldsConverge
  <2>. SUFFICES ASSUME IInv, CaughtUp, NEW a \in Accounts
                PROVE  /\ accounts[a] = None <=> Mirror(a) = None
                       /\ accounts[a] # None => /\ accounts[a].client = Mirror(a).client
                                                /\ accounts[a].status = Mirror(a).status
    BY DEF OwnFieldsConverge
  <2>1. CASE OfKey(a) = {}
    BY <2>1 DEF IInv, OwnInv, Mirror
  <2>2. CASE OfKey(a) # {}
    <3> DEFINE row == Last(Writes(OfKey(a)))
               image == Last(Writes(OfKey(row.client)))
    <3>1. /\ row \in log /\ row.op = "write" /\ row.key = a
          /\ accounts[a] # None /\ accounts[a].client = row.client
          /\ accounts[a].status = IF Exists(a) THEN row.status ELSE "closed"
      BY <2>2, CaughtUpFacts
    <3>2. Mirror(a) = [client |-> row.client, version |-> image.lsn,
                       status |-> IF Exists(a) THEN row.status ELSE "closed"]
      BY <2>2 DEF Mirror
    <3>3. image.lsn \in 0..MaxLsn
      BY <3>1, ImageFacts DEF IInv
    <3>4. row.client \in Clients /\ row.status \in Statuses
      BY <3>1, LegalFacts DEF IInv
    <3>. HIDE DEF row, image
    <3>5. Mirror(a) \in Documents
      BY <3>2, <3>3, <3>4 DEF Documents, Statuses
    <3>. QED BY <3>1, <3>2, <3>5, KindsApart
  <2>. QED BY <2>1, <2>2
<1>. QED BY <1>1, Invariance, PTL

(***************************************************************************)
(* "Whichever order they arrive in, the end state is the same": when the   *)
(* sink lands a client's events before they are curated, and LSNs compare  *)
(* as strings as they do in the source, the collection is the mirror of    *)
(* the source once the curation has caught up.                             *)
(***************************************************************************)
THEOREM MirrorsTheSource ==
    ASSUME RankInOrder PROVE Spec => []Converges
<1>1. ASSUME IInv PROVE Converges
  <2>. SUFFICES ASSUME SinkFirst, CaughtUp, NEW a \in Accounts PROVE accounts[a] = Mirror(a)
    BY DEF Converges, IsMirror, SinkFirst
  <2>1. CASE OfKey(a) = {}
    BY <1>1, <2>1 DEF IInv, OwnInv, Mirror
  <2>2. CASE OfKey(a) # {}
    <3> DEFINE row == Last(Writes(OfKey(a)))
               image == Last(Writes(OfKey(row.client)))
    <3>1. /\ Newest(row, Writes(OfKey(a))) /\ row \in log /\ row.op = "write" /\ row.key = a
          /\ accounts[a] # None /\ accounts[a].client = row.client
          /\ accounts[a].status = IF Exists(a) THEN row.status ELSE "closed"
      BY <1>1, <2>2, CaughtUpFacts
    <3>2. Mirror(a) = [client |-> row.client, version |-> image.lsn,
                       status |-> IF Exists(a) THEN row.status ELSE "closed"]
      BY <2>2 DEF Mirror
    <3>3. Newest(image, Writes(OfKey(row.client))) /\ image \in log
      BY <1>1, <3>1, ImageFacts DEF IInv
    <3>4. \A e \in log : Settled(e)
      BY <1>1 DEF CaughtUp, Settled, Pending
    <3>. HIDE DEF row, image
    <3>5. accounts[a].version = image.lsn
      BY <1>1, <3>1, <3>3, <3>4 DEF IInv, VersionInv
    <3>6. accounts[a] \in Documents
      BY <1>1, <3>1 DEF IInv, TypeOK
    <3>7. accounts[a] = [client |-> accounts[a].client, version |-> accounts[a].version,
                         status |-> accounts[a].status]
      BY <3>6 DEF Documents
    <3>. QED BY <3>1, <3>2, <3>5, <3>7
  <2>. QED BY <2>1, <2>2
<1>. QED BY <1>1, Invariance, PTL

(***************************************************************************)
(* When the sink lands a client's events before they are curated, no       *)
(* account that has a copy of its client goes back to the placeholder,     *)
(* though events are handled again: an operation is built with the         *)
(* placeholder only while there is no copy to replace.                     *)
(***************************************************************************)
THEOREM CopiesStay == Spec => NeverBackToPlaceholder
<1>1. ASSUME IInv, [Next]_vars, NEW a \in Accounts, SinkFirst,
             accounts[a] # None, accounts'[a] # None,
             accounts[a].client = accounts'[a].client, accounts[a].version # 0
      PROVE  accounts'[a].version # 0
  <2>. USE <1>1 DEF IInv
  <2>1. CASE accounts' = accounts
    BY <2>1
  <2>2. CASE Write
    <3>1. PICK o \in ops :
              /\ o.event \in Pending
              /\ LET e == o.event IN
                 \/ ~OfClient(e) /\ e.op = "write" /\ accounts' = Upsert(e, o.version)
                 \/ ~OfClient(e) /\ e.op = "delete" /\ accounts' = Close(e.key)
                 \/ OfClient(e) /\ e.op = "write" /\ accounts' = FanOut(e)
                 \/ OfClient(e) /\ e.op = "delete" /\ accounts' = CloseAll(e.key)
      BY <2>2, WriteFacts
    <3> DEFINE e == o.event
               version == o.version
    <3>2. e \in log /\ e \in Events /\ version \in 0..MaxLsn
      BY <3>1 DEF TypeOK, QueueInv, LogInv, Operations
    <3>3. \/ ~OfClient(e) /\ e.op = "write" /\ accounts' = Upsert(e, version)
          \/ accounts' = Close(e.key) \/ accounts' = FanOut(e) \/ accounts' = CloseAll(e.key)
      BY <3>1
    <3>4. Reads(e) /\ version = 0 /\ accounts[e.key] # None /\ accounts[e.key].client = e.client
          => accounts[e.key].version = 0
      BY DEF PlaceholderInv
    <3>5. e.lsn # 0
      BY <3>2, LegalFacts DEF Lsns
    <3>. HIDE DEF e, version
    <3>6. CASE ~OfClient(e) /\ e.op = "write" /\ accounts' = Upsert(e, version)
      BY <3>2, <3>4, <3>6, UpsertFields DEF Reads
    <3>7. CASE accounts' = Close(e.key)
      BY <3>7, CloseFields
    <3>8. CASE accounts' = FanOut(e)
      BY <3>2, <3>5, <3>8, FanOutFields
    <3>9. CASE accounts' = CloseAll(e.key)
      BY <3>9, CloseAllFields
    <3>. QED BY <3>3, <3>6, <3>7, <3>8, <3>9
  <2>. QED BY <2>1, <2>2 DEF Next, CurationNext, Land, Poll, Build, Commit, Crash, vars
<1>2. IInv /\ [Next]_vars =>
        [\A a \in Accounts :
              /\ pace = "sink first"
              /\ accounts[a] # None /\ accounts'[a] # None
              /\ accounts[a].client = accounts'[a].client
              /\ accounts[a].version # 0
              => accounts'[a].version # 0]_accounts
  BY <1>1, Zenon DEF SinkFirst
<1>. QED BY <1>2, Invariance, PTL DEF Spec, NeverBackToPlaceholder
=============================================================================
