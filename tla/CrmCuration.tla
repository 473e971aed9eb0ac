------------------------------ MODULE CrmCuration ------------------------------
(***************************************************************************)
(* The CRM feed: the source database, the change log Debezium makes of it, *)
(* the sink that lands client changes in raw_crm_client_events, and the    *)
(* curation of ods_ingest.curation.crm_accounts that keeps the accounts    *)
(* collection with an embedded copy of each account's client.              *)
(*                                                                         *)
(* Clients and accounts have topics of their own, keyed by their primary   *)
(* keys: the changes of one row are read in their order, those of          *)
(* different rows in any.  The sink and the curation are separate consumer *)
(* groups, with no order between them either.  The log is there from the   *)
(* start: one that grows is one that is not read yet.                      *)
(***************************************************************************)
EXTENDS Integers, FiniteSets

CONSTANTS
    Clients, Accounts,   \* the primary keys of the two source tables
    None,                \* no document
    MaxLsn,              \* bound: the greatest LSN of the source
    Histories,           \* the change logs to consider, legal sets of Events
    Rank,                \* the place of each LSN among them all, as strings
    BatchSize,           \* CONSUMER_BATCH_SIZE
    Paces,               \* the paces of the sink to consider, see Poll
    MaxCrashes           \* bound: times the curation process dies

Keys == Clients \cup Accounts

Lsns == 1..MaxLsn

\* An account is open (active, suspended) or closed; the detail of its
\* other fields is that of its row.
Statuses == {"open", "closed"}

(***************************************************************************)
(* A change event.  "write" carries an after image (snapshot read, create  *)
(* or update); an account's has the client and the status of the row.  In  *)
(* the events of a client these two fields mean nothing.                   *)
(***************************************************************************)
Events == [lsn : Lsns, key : Keys, op : {"write", "delete"},
           client : Clients, status : Statuses]

\* An account's document: the client it embeds, the LSN of the image the
\* embedded copy was made from (0: the placeholder), and its status.
Documents == [client : Clients, version : 0..MaxLsn, status : Statuses]

\* An update built for an event, with the client image read for it.
Operations == [event : Events, version : 0..MaxLsn]

OfClient(e) == e.key \in Clients

\* The last of a set of events.
Last(S) == CHOOSE e \in S : \A f \in S : f.lsn <= e.lsn

Writes(S) == {e \in S : e.op = "write"}

(***************************************************************************)
(* What the tables and their keys allow: an account references a client    *)
(* that exists, and a client is deleted when no account references it.     *)
(* Moreover a deleted key never comes back.                                *)
(***************************************************************************)
Legal(h) ==
    /\ \A e, f \in h : e.lsn = f.lsn => e = f
    /\ \A e \in h :
          LET before(k) == {f \in h : f.key = k /\ f.lsn < e.lsn}
              exists(k) == before(k) # {} /\ \A f \in before(k) : f.op = "write"
          IN  /\ before(e.key) = {} \/ exists(e.key)
              /\ e.op = "delete" => exists(e.key)
              /\ ~OfClient(e) /\ e.op = "write" => exists(e.client)
              /\ OfClient(e) /\ e.op = "delete" =>
                    \A a \in Accounts : exists(a) => Last(before(a)).client # e.key

ASSUME CrmAssumption ==
    /\ Clients \cap Accounts = {}
    /\ MaxLsn \in Nat
    /\ None \notin Documents
    /\ Rank \in [Lsns -> Lsns]
    /\ \A m, n \in Lsns : Rank[m] = Rank[n] => m = n
    /\ \A h \in Histories : h \subseteq Events /\ Legal(h)
    /\ BatchSize \in Nat \ {0}
    /\ Paces \subseteq {"sink first", "any"}
    /\ MaxCrashes \in Nat

VARIABLES
    pace,        \* which batches the curation may see (never changes)
    log,         \* broker: the change events of both topics (never changes)
    raw,         \* store: the client events the sink has landed
    accounts,    \* store: account -> document, or None
    committed,   \* broker: the events the curation group has acknowledged
    polled,      \* curation: the events its consumer has read
    pc,          \* curation: where it is
    batch,       \* curation: events of the batch without their operation
    ops,         \* curation: the operations built and not yet applied
    crashes      \* how often the process died

source == <<pace, log>>
vars == <<pace, log, raw, accounts, committed, polled, pc, batch, ops, crashes>>

OfKey(k) == {e \in log : e.key = k}

\* The key has a row in the source.
Exists(k) == OfKey(k) # {} /\ Last(OfKey(k)).op = "write"

Init ==
    /\ pace \in Paces
    /\ log \in Histories
    /\ raw = {}
    /\ accounts = [a \in Accounts |-> None]
    /\ committed = {}
    /\ polled = {}
    /\ pc = "poll"
    /\ batch = {}
    /\ ops = {}
    /\ crashes = 0
-----------------------------------------------------------------------------
(***************************************************************************)
(* The sink lands a client event, keyed by EVENT_ID: landing it again      *)
(* changes nothing.                                                        *)
(***************************************************************************)
Land ==
    /\ \E e \in log \ raw : OfClient(e) /\ raw' = raw \cup {e}
    /\ UNCHANGED <<source, accounts, committed, polled, pc, batch, ops, crashes>>
-----------------------------------------------------------------------------
\* An account's write reads the client it will embed from the raw tier; the
\* operation of any other event is made from the event alone.
Reads(e) == ~OfClient(e) /\ e.op = "write"

(***************************************************************************)
(* The consumer reads a batch: of each row, the next events.  When the     *)
(* sink goes first, a client event is not curated before it is landed.     *)
(***************************************************************************)
Poll ==
    /\ pc = "poll"
    /\ \E next \in SUBSET (log \ polled) :
          /\ next # {}
          /\ Cardinality(next) <= BatchSize
          /\ \A e \in next, f \in log \ polled :
                f.key = e.key /\ f.lsn < e.lsn => f \in next
          /\ pace = "sink first" => \A e \in next : OfClient(e) => e \in raw
          /\ batch' = {e \in next : Reads(e)}
          /\ ops' = {[event |-> e, version |-> 0] : e \in {f \in next : ~Reads(f)}}
          /\ polled' = polled \cup next
    /\ pc' = "batch"
    /\ UNCHANGED <<source, raw, accounts, committed, crashes>>

\* Mutant: an account event always embeds the placeholder and leaves the
\* client to the fan-out.
PlaceholderOnly(c) == 0

(***************************************************************************)
(* latest_client_state: the client image with the greatest LSN, compared   *)
(* as strings, that has an after image.                                    *)
(***************************************************************************)
LatestClientState(c) ==
    LET known == {e \in Writes(raw) : e.key = c} IN
    IF known = {} THEN 0
    ELSE (CHOOSE e \in known : \A f \in known : Rank[f.lsn] <= Rank[e.lsn]).lsn

\* curate_account_event, on the account writes of the batch in turn.
Build ==
    /\ \E e \in batch :
          /\ \A other \in batch : other.key = e.key => e.lsn <= other.lsn
          /\ batch' = batch \ {e}
          /\ ops' = ops \cup {[event |-> e, version |-> LatestClientState(e.client)]}
    /\ UNCHANGED <<source, raw, accounts, committed, polled, pc, crashes>>

\* Mutants: an upsert that leaves the client of a known account alone; a
\* fan-out that completes placeholders and updates nothing.
UpsertKeepsClient(e, version) ==
    IF accounts[e.key] = None
    THEN [accounts EXCEPT ![e.key] =
             [client |-> e.client, version |-> version, status |-> e.status]]
    ELSE [accounts EXCEPT ![e.key].status = e.status]

FanOutToPlaceholders(e) ==
    [a \in Accounts |->
        IF accounts[a] # None /\ accounts[a].client = e.key /\ accounts[a].version = 0
        THEN [accounts[a] EXCEPT !.version = e.lsn]
        ELSE accounts[a]]

\* What an operation makes of the documents.
Upsert(e, version) ==
    [accounts EXCEPT ![e.key] =
        [client |-> e.client, version |-> version, status |-> e.status]]

Close(a) ==
    IF accounts[a] = None THEN accounts
    ELSE [accounts EXCEPT ![a].status = "closed"]

Embedding(c) == {a \in Accounts : accounts[a] # None /\ accounts[a].client = c}

FanOut(e) ==
    [a \in Accounts |->
        IF a \in Embedding(e.key) THEN [accounts[a] EXCEPT !.version = e.lsn]
        ELSE accounts[a]]

CloseAll(c) ==
    [a \in Accounts |->
        IF a \in Embedding(c) THEN [accounts[a] EXCEPT !.status = "closed"]
        ELSE accounts[a]]

\* The two ordered bulk writes, one operation at a time: those of accounts,
\* then those of clients, and of each row in the order of its events.
Write ==
    /\ batch = {}
    /\ \E o \in ops :
          LET e == o.event IN
          /\ \A other \in ops : OfClient(e) => OfClient(other.event)
          /\ \A other \in ops : other.event.key = e.key => e.lsn <= other.event.lsn
          /\ ops' = ops \ {o}
          /\ \/ ~OfClient(e) /\ e.op = "write" /\ accounts' = Upsert(e, o.version)
             \/ ~OfClient(e) /\ e.op = "delete" /\ accounts' = Close(e.key)
             \/ OfClient(e) /\ e.op = "write" /\ accounts' = FanOut(e)
             \/ OfClient(e) /\ e.op = "delete" /\ accounts' = CloseAll(e.key)
    /\ UNCHANGED <<source, raw, committed, polled, pc, batch, crashes>>

Commit ==
    /\ pc = "batch"
    /\ batch = {}
    /\ ops = {}
    /\ committed' = polled
    /\ pc' = "poll"
    /\ UNCHANGED <<source, raw, accounts, polled, batch, ops, crashes>>

\* Mutant: the group resumes where its reading had got to.
CrashAtPosition ==
    /\ crashes < MaxCrashes
    /\ crashes' = crashes + 1
    /\ pc' = "poll"
    /\ batch' = {}
    /\ ops' = {}
    /\ UNCHANGED <<source, raw, accounts, committed, polled>>

\* The process dies, and another resumes from the committed offsets.  A bulk
\* write that raises is the same for the documents: the records of the batch
\* are handled again, each in a batch of its own.
Crash ==
    /\ crashes < MaxCrashes
    /\ crashes' = crashes + 1
    /\ polled' = committed
    /\ pc' = "poll"
    /\ batch' = {}
    /\ ops' = {}
    /\ UNCHANGED <<source, raw, accounts, committed>>

CurationNext == Poll \/ Build \/ Write \/ Commit

Next == Land \/ CurationNext \/ Crash

Spec == Init /\ [][Next]_vars

\* Both groups are processes that always run or are started again.
FairSpec == Spec /\ WF_vars(Land) /\ WF_vars(CurationNext)
-----------------------------------------------------------------------------
TypeOK ==
    /\ pace \in Paces
    /\ log \subseteq Events
    /\ raw \subseteq Events
    /\ accounts \in [Accounts -> Documents \cup {None}]
    /\ committed \subseteq Events
    /\ polled \subseteq Events
    /\ pc \in {"poll", "batch"}
    /\ batch \subseteq Events
    /\ ops \subseteq Operations
    /\ crashes \in Nat

\* Every event is curated.
CaughtUp == polled = log /\ batch = {} /\ ops = {}

(***************************************************************************)
(* What the accounts collection shows of an account when it is the mirror  *)
(* of the source: the client and the status of its row, closed if the row  *)
(* is gone, with the last image of that client.                            *)
(***************************************************************************)
Mirror(a) ==
    IF OfKey(a) = {} THEN None
    ELSE LET row == Last(Writes(OfKey(a))) IN
         [client  |-> row.client,
          version |-> Last(Writes(OfKey(row.client))).lsn,
          status  |-> IF Exists(a) THEN row.status ELSE "closed"]

IsMirror == \A a \in Accounts : accounts[a] = Mirror(a)

(***************************************************************************)
(* "Whichever order they arrive in, the end state is the same": when the   *)
(* sink goes first, whatever the interleaving of accounts and clients, of  *)
(* the reads of the raw tier and the writes, and of crashes and replays,   *)
(* the collection mirrors the source whenever curation has caught up.      *)
(***************************************************************************)
Converges == pace = "sink first" /\ CaughtUp => IsMirror

(***************************************************************************)
(* Whatever the pace of the sink, every account shows the client and the   *)
(* status of its own row once curation has caught up: a fan-out or an      *)
(* offboarding applied late never touches an account that has moved on.    *)
(***************************************************************************)
OwnFieldsConverge ==
    CaughtUp =>
        \A a \in Accounts :
            /\ accounts[a] = None <=> Mirror(a) = None
            /\ accounts[a] # None =>
                  /\ accounts[a].client = Mirror(a).client
                  /\ accounts[a].status = Mirror(a).status

(***************************************************************************)
(* When the sink goes first, no account that has a copy of its client goes *)
(* back to the placeholder, replays included.                              *)
(***************************************************************************)
NeverBackToPlaceholder ==
    [][\A a \in Accounts :
          /\ pace = "sink first"
          /\ accounts[a] # None /\ accounts'[a] # None
          /\ accounts[a].client = accounts'[a].client
          /\ accounts[a].version # 0
          => accounts'[a].version # 0]_accounts

(***************************************************************************)
(* reconcile_crm_accounts, when both topics have landed: what it has to    *)
(* say of an account whose row ever changed, going by the last event of    *)
(* the row and the last name of the client, in the order of the LSNs as    *)
(* strings.  (A name is that of an image; the last one is known as in      *)
(* LatestClientState.)                                                     *)
(***************************************************************************)
LastInRank(S) == CHOOSE e \in S : \A f \in S : Rank[f.lsn] <= Rank[e.lsn]

ExpectedStatus(e) == IF e.op = "delete" THEN "closed" ELSE e.status

ExpectedVersion(c) ==
    IF Writes(OfKey(c)) = {} THEN {} ELSE {LastInRank(Writes(OfKey(c))).lsn}

Issue(a) ==
    IF accounts[a] = None THEN "MISSING"
    ELSE IF accounts[a].status # ExpectedStatus(LastInRank(OfKey(a))) THEN "STATUS_MISMATCH"
    ELSE IF \E v \in ExpectedVersion(accounts[a].client) : accounts[a].version # v
         THEN "STALE_CLIENT_EMBED"
    ELSE "NONE"

Unmatched == {a \in Accounts : OfKey(a) # {} /\ Issue(a) # "NONE"}

(***************************************************************************)
(* When the sink goes first, the collection is the source's mirror for     *)
(* good, and the reconciliation of the operations services, which asks     *)
(* "did every captured account change reach the ODS?" with rules of its    *)
(* own, has nothing more to report.                                        *)
(***************************************************************************)
EventuallyMirror == pace = "sink first" => <>[](IsMirror /\ Unmatched = {})

(***************************************************************************)
(* "Whichever order they arrive in, the end state is the same", said of    *)
(* the two topics with no condition on the sink.                           *)
(***************************************************************************)
ConvergesInAnyOrder == CaughtUp => IsMirror

(***************************************************************************)
(* An account event embeds the "newest known state for a client", the LSN  *)
(* being "the source-order position": when the sink goes first, an account *)
(* shows the last image of its client once curation has caught up.         *)
(***************************************************************************)
NewestClientIsEmbedded ==
    pace = "sink first" /\ CaughtUp =>
        \A a \in Accounts :
            accounts[a] # None => accounts[a].version = Mirror(a).version
=============================================================================
