---------------------------- MODULE CustodyCuration ----------------------------
(***************************************************************************)
(* The custody feed behind the file adapter: the detail records on the     *)
(* bus, the sink that lands each under its REC_ID, and the curation of     *)
(* ods_ingest.curation.custody_positions, which resolves a record's        *)
(* account and security against reference data it loaded when its run      *)
(* began, and upserts one position per (account, security, cycle).         *)
(*                                                                         *)
(* A record is a value of Feed, in the order it was produced.  REC_ID is   *)
(* its position in its cycle, so that a corrected file of a cycle re-uses  *)
(* the ids of the first.  The key is the account number: records of one    *)
(* account are consumed in order, those of different accounts in any.      *)
(***************************************************************************)
EXTENDS Integers, Sequences, FiniteSets

CONSTANTS
    Feed,          \* the records on the topic, a sequence of Record
    Accounts,      \* the accounts there may be
    Master,        \* the securities there may be: [cusip, isin] of each
    EmbeddedCusip, \* cusip_from_isin of each ISIN, NoId outside US and CA
    NoId,          \* an absent identifier, or an account number not a number
    Late,          \* the accounts and securities that are created during the run
    BatchSize,     \* CONSUMER_BATCH_SIZE
    MaxCrashes     \* bound: times the curation process dies

Securities == DOMAIN Master

Records == DOMAIN Feed

RecIds == {Feed[r].REC_ID : r \in Records}

\* The accounts and securities there are from the start.
Present == (Accounts \cup Securities) \ Late

ASSUME CustodyAssumption ==
    /\ Records = 1..Len(Feed) /\ Len(Feed) \in Nat
    /\ \A r \in Records :
          /\ Feed[r].account \in Accounts \cup {NoId}
          /\ Feed[r].decodes \in BOOLEAN
    /\ NoId \notin Accounts \cup Securities
    /\ Late \subseteq Accounts \cup Securities
    /\ BatchSize \in Nat \ {0} /\ MaxCrashes \in Nat

\* The securities that an identifier of a record fits.
Fits(rec) ==
    {s \in Securities :
        \/ rec.cusip # NoId /\ rec.cusip \in {Master[s].cusip, EmbeddedCusip[Master[s].isin]}
        \/ rec.isin # NoId /\ rec.isin = Master[s].isin}

\* A security that is created during the run is the only one a record can be.
\* (An ISIN is unique in the master, models/security.py:39; a CUSIP is not, and
\* where two securities share one, or a record names two, what a record resolves
\* to changes with the creation, and so does its position.)
ASSUME NoLateRival ==
    \A r \in Records : \A s \in Fits(Feed[r]) \cap Late : Fits(Feed[r]) = {s}

VARIABLES
    known,      \* store: the accounts and securities there are
    raw,        \* store: the record landed under each REC_ID, 0 if none is
    landed,     \* broker: the records the sink has consumed
    positions,  \* store: the curated positions, [account, security, cycle, record]
    committed,  \* broker: the records the curation group has acknowledged
    polled,     \* curation: the records its consumer has read
    pc,         \* curation: where it is
    index,      \* curation: the ReferenceIndex of the run
    outcome,    \* curation: what became of each record, see Outcome
    ops,        \* curation: the records whose upserts are not applied
    crashes,
    batch       \* history: the batch each record was last curated in

feed == <<raw, landed>>
curation == <<positions, committed, polled, pc, index, outcome, ops, batch>>
vars == <<known, feed, curation, crashes>>

\* A consumer that is handed the records in any order (a mutant).
InAnyOrder(S) == S \subseteq Records

\* The records of one partition are consumed in order.
InOrder(S) == \A r \in S : \A q \in Records :
                  q < r /\ Feed[q].account = Feed[r].account => q \in S
-----------------------------------------------------------------------------
(***************************************************************************)
(* The rules of curation/resolve.py.  The index maps a CUSIP to the        *)
(* security that has it, or else to one whose ISIN has it embedded.        *)
(***************************************************************************)
ByCusip(refs, c) ==
    LET own == {s \in refs \cap Securities : Master[s].cusip = c}
    IN  IF own # {} THEN own
        ELSE {s \in refs \cap Securities : EmbeddedCusip[Master[s].isin] = c}

ByIsin(refs, i) == {s \in refs \cap Securities : Master[s].isin = i}

\* ReferenceIndex.security: by CUSIP first, then by ISIN.
SecurityOf(refs, rec) ==
    LET found == {s \in ByCusip(refs, rec.cusip) : rec.cusip # NoId}
        other == {s \in ByIsin(refs, rec.isin) : rec.isin # NoId}
    IN  IF found \cup other = {} THEN NoId
        ELSE CHOOSE s \in IF found # {} THEN found ELSE other : TRUE

\* A curation that decodes before it resolves (a mutant).
OutcomeDecodesFirst(refs, rec) ==
    IF ~rec.decodes THEN "MALFORMED_VALUE"
    ELSE IF SecurityOf(refs, rec) = NoId THEN "UNKNOWN_SECURITY"
    ELSE IF rec.account \notin refs THEN "UNKNOWN_ACCOUNT"
    ELSE "CURATED"

\* curate_record: what becomes of a record.
Outcome(refs, rec) ==
    IF rec.account \notin refs THEN "UNKNOWN_ACCOUNT"
    ELSE IF SecurityOf(refs, rec) = NoId THEN "UNKNOWN_SECURITY"
    ELSE IF ~rec.decodes THEN "MALFORMED_VALUE"
    ELSE "CURATED"

\* The position a record is upserted as, by the key the unique index enforces.
Position(refs, r) ==
    [account |-> Feed[r].account, security |-> SecurityOf(refs, Feed[r]),
     cycle |-> Feed[r].cycle, record |-> r]

SameKey(p, q) ==
    p.account = q.account /\ p.security = q.security /\ p.cycle = q.cycle
-----------------------------------------------------------------------------
Init ==
    /\ known = Present
    /\ raw = [i \in RecIds |-> 0]
    /\ landed = {}
    /\ positions = {}
    /\ committed = {} /\ polled = {}
    /\ pc = "down"
    /\ index = {}
    /\ outcome = [r \in Records |-> "NONE"]
    /\ ops = {}
    /\ crashes = 0
    /\ batch = [r \in Records |-> 0]

\* Reference data appears: the CRM curation creates an account, and a security
\* comes from outside, as nothing in ods_ingest creates one.
Create ==
    /\ \E x \in Late \ known : known' = known \cup {x}
    /\ UNCHANGED <<feed, curation, crashes>>

\* The sink replaces the document of the record's REC_ID.
Land ==
    /\ \E r \in Records \ landed :
          /\ InOrder(landed \cup {r})
          /\ landed' = landed \cup {r}
          /\ raw' = [raw EXCEPT ![Feed[r].REC_ID] = r]
    /\ UNCHANGED <<known, curation, crashes>>
-----------------------------------------------------------------------------
\* A run begins: ReferenceIndex.load reads the accounts, and then the securities.
LoadAccounts ==
    /\ pc = "down"
    /\ index' = known \cap Accounts
    /\ pc' = "load"
    /\ UNCHANGED <<known, feed, positions, committed, polled, outcome, ops, crashes, batch>>

LoadSecurities ==
    /\ pc = "load"
    /\ index' = index \cup (known \cap Securities)
    /\ pc' = "poll"
    /\ UNCHANGED <<known, feed, positions, committed, polled, outcome, ops, crashes, batch>>

\* A batch: each record is resolved and decoded, and curated or skipped.
Poll ==
    /\ pc = "poll"
    /\ \E new \in SUBSET (Records \ polled) :
          /\ new # {} /\ Cardinality(new) <= BatchSize
          /\ InOrder(polled \cup new)
          /\ polled' = polled \cup new
          /\ outcome' = [r \in Records |-> IF r \in new THEN Outcome(index, Feed[r])
                                           ELSE outcome[r]]
          /\ ops' = {r \in new : Outcome(index, Feed[r]) = "CURATED"}
          /\ batch' = [r \in Records |-> IF r \in new THEN Cardinality(polled) + 1
                                         ELSE batch[r]]
    /\ pc' = "write"
    /\ UNCHANGED <<known, feed, positions, committed, index, crashes>>

\* One upsert of the unordered bulk write.
Write ==
    /\ pc = "write"
    /\ \E r \in ops :
          LET p == Position(index, r) IN
          /\ positions' = {q \in positions : ~SameKey(q, p)} \cup {p}
          /\ ops' = ops \ {r}
    /\ UNCHANGED <<known, feed, committed, polled, pc, index, outcome, crashes, batch>>

\* A commit that does not wait for the bulk write (a mutant).
CommitEarly ==
    /\ pc = "write"
    /\ committed # polled \/ ops = {}
    /\ committed' = polled
    /\ pc' = IF ops = {} THEN "poll" ELSE "write"
    /\ UNCHANGED <<known, feed, positions, polled, index, outcome, ops, crashes, batch>>

Commit ==
    /\ pc = "write"
    /\ ops = {}
    /\ committed' = polled
    /\ pc' = "poll"
    /\ UNCHANGED <<known, feed, positions, polled, index, outcome, ops, crashes, batch>>

\* run(once=True) ends when the topic is idle.
Finish ==
    /\ pc = "poll"
    /\ polled = Records
    /\ pc' = "down"
    /\ UNCHANGED <<known, feed, positions, committed, polled, index, outcome, ops, crashes,
                   batch>>

\* The process dies at any point of a run.
Crash ==
    /\ pc # "down"
    /\ crashes < MaxCrashes
    /\ crashes' = crashes + 1
    /\ pc' = "down"
    /\ polled' = committed
    /\ ops' = {}
    /\ UNCHANGED <<known, feed, positions, committed, index, outcome, batch>>

Run == LoadAccounts \/ LoadSecurities \/ Poll \/ Write \/ Commit \/ Finish

Next == Create \/ Land \/ Run \/ Crash

Spec == Init /\ [][Next]_vars

\* The curation is started again whenever it is down, and drains the topic.
FairSpec == Spec /\ WF_vars(Run)
-----------------------------------------------------------------------------
Stages == {"down", "load", "poll", "write"}

Outcomes == {"NONE", "UNKNOWN_ACCOUNT", "UNKNOWN_SECURITY", "MALFORMED_VALUE", "CURATED"}

\* The variables have the values the code gives them.
TypeOK ==
    /\ known \subseteq Accounts \cup Securities
    /\ index \subseteq known
    /\ raw \in [RecIds -> Records \cup {0}]
    /\ landed \subseteq Records
    /\ \A p \in positions : p.record \in Records
    /\ polled \subseteq Records /\ committed \subseteq polled
    /\ pc \in Stages
    /\ outcome \in [Records -> Outcomes]
    /\ ops \subseteq polled
    /\ crashes \in 0..MaxCrashes

\* A record is in the positions: under its key there is one.
HasPosition(r) == \E p \in positions : SameKey(p, Position(known, r))

(***************************************************************************)
(* A record that is acknowledged is in the positions, or was skipped for a *)
(* reason that the run could see: no crash loses one in between.           *)
(***************************************************************************)
AcknowledgedIsCurated ==
    \A r \in committed : outcome[r] # "NONE" /\ (outcome[r] = "CURATED" => HasPosition(r))

(***************************************************************************)
(* A correction wins: of the records of one position, one that is produced *)
(* later replaces an earlier one, unless one bulk write applied both.      *)
(* That is what the account number is the key of the topic for.            *)
(***************************************************************************)
CorrectionWins ==
    \A p \in positions : \A r \in committed :
        outcome[r] = "CURATED" /\ SameKey(p, Position(known, r)) =>
            r <= p.record \/ batch[r] = batch[p.record]
=============================================================================
