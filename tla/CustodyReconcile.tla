--------------------------- MODULE CustodyReconcile ---------------------------
(***************************************************************************)
(* The operator's question "why didn't this record appear?":               *)
(* reconcile_custody_feed of bank_ods.services.ops, asked while the sink   *)
(* and the curation of CustodyCuration are running.  It reads the raw      *)
(* records of a cycle, the accounts, the securities and the positions, one *)
(* query after another, and classifies each record by the rules of the     *)
(* curation, which the service has a copy of.                              *)
(***************************************************************************)
EXTENDS CustodyCuration

CONSTANT MaxCalls   \* bound: calls of the tool

VARIABLES
    at,        \* where the call is
    records,   \* the raw records it read
    refs,      \* the accounts and securities it read
    pairs,     \* the (account, security) pairs of the positions it read
    calls,
    curatedBefore  \* history: the records in the positions when the call began

call == <<at, records, refs, pairs, calls, curatedBefore>>
allvars == <<vars, call>>

Cycles == {Feed[r].cycle : r \in Records}

RawOf(c) == {r \in {raw[i] : i \in RecIds} \ {0} : Feed[r].cycle = c}

CuratedNow == {r \in polled \ ops : outcome[r] = "CURATED"}

Pairs(S) == {<<p.account, p.security>> : p \in S}
-----------------------------------------------------------------------------
ReconcileInit ==
    /\ Init
    /\ at = "idle"
    /\ records = {} /\ refs = {} /\ pairs = {}
    /\ calls = 0
    /\ curatedBefore = {}

\* The raw records of a cycle the caller names, or of the latest that is landed.
\* (With none landed the call ends with NOT_FOUND.)
ReadRaw ==
    /\ at = "idle"
    /\ calls < MaxCalls
    /\ \E c \in Cycles :
          /\ RawOf(c) # {}
          /\ records' = RawOf(c)
    /\ curatedBefore' = CuratedNow
    /\ calls' = calls + 1
    /\ at' = "accounts"
    /\ UNCHANGED <<vars, refs, pairs>>

ReadAccounts ==
    /\ at = "accounts"
    /\ refs' = known \cap Accounts
    /\ at' = "securities"
    /\ UNCHANGED <<vars, records, pairs, calls, curatedBefore>>

ReadSecurities ==
    /\ at = "securities"
    /\ refs' = refs \cup (known \cap Securities)
    /\ at' = "positions"
    /\ UNCHANGED <<vars, records, pairs, calls, curatedBefore>>

\* The pairs that have a position, of whatever date.
ReadPositions ==
    /\ at = "positions"
    /\ pairs' = Pairs(positions)
    /\ at' = "report"
    /\ UNCHANGED <<vars, records, refs, calls, curatedBefore>>

\* The service's own copy of the resolution.
ReconciledSecurity(rec) ==
    LET own(c) == {s \in refs \cap Securities : Master[s].cusip = c}
        embedded(c) == {s \in refs \cap Securities : EmbeddedCusip[Master[s].isin] = c}
        byCusip == {s \in IF own(rec.cusip) # {} THEN own(rec.cusip) ELSE embedded(rec.cusip) :
                        rec.cusip # NoId}
        byIsin == {s \in refs \cap Securities : rec.isin # NoId /\ Master[s].isin = rec.isin}
    IN  IF byCusip \cup byIsin = {} THEN NoId
        ELSE CHOOSE s \in IF byCusip # {} THEN byCusip ELSE byIsin : TRUE

\* A copy that has drifted: it does not know CUSIPs embedded in ISINs (a mutant).
ReasonDrifted(r) ==
    LET rec == Feed[r]
        found == {s \in refs \cap Securities : rec.cusip # NoId /\ Master[s].cusip = rec.cusip}
                 \cup {s \in refs \cap Securities : rec.isin # NoId /\ Master[s].isin = rec.isin}
    IN  IF rec.account \notin refs THEN "UNKNOWN_ACCOUNT"
        ELSE IF found = {} THEN "UNKNOWN_SECURITY"
        ELSE IF \E s \in found : <<rec.account, s>> \in pairs THEN "MATCHED"
        ELSE "NO_CURATED_POSITION"

\* What the call says of a raw record.
Reason(r) ==
    IF Feed[r].account \notin refs THEN "UNKNOWN_ACCOUNT"
    ELSE IF ReconciledSecurity(Feed[r]) = NoId THEN "UNKNOWN_SECURITY"
    ELSE IF <<Feed[r].account, ReconciledSecurity(Feed[r])>> \notin pairs
         THEN "NO_CURATED_POSITION"
    ELSE "MATCHED"

\* The report is returned, and nothing is kept of it.
Report ==
    /\ at = "report"
    /\ at' = "idle"
    /\ records' = {} /\ refs' = {} /\ pairs' = {} /\ curatedBefore' = {}
    /\ UNCHANGED <<vars, calls>>

Reconcile == ReadRaw \/ ReadAccounts \/ ReadSecurities \/ ReadPositions \/ Report

ReconcileNext == Reconcile \/ (Next /\ UNCHANGED call)

ReconcileSpec == ReconcileInit /\ [][ReconcileNext]_allvars
-----------------------------------------------------------------------------
(***************************************************************************)
(* No false alarm: a record that was in the positions when the call began  *)
(* is not reported, whatever the sink, the curation and the other feeds do *)
(* between the queries of the call.                                        *)
(***************************************************************************)
NoFalseAlarm ==
    at = "report" => \A r \in records \cap curatedBefore : Reason(r) = "MATCHED"

(***************************************************************************)
(* "Why didn't this record appear?" and "why wasn't this record curated?"  *)
(* have the same answer (curation/resolve.py:10-13), of an unknown account *)
(* or security, while no reference data is created in between.             *)
(***************************************************************************)
SameReason ==
    at = "report" /\ known \cap Late = {} =>
        \A r \in records :
            outcome[r] \in {"UNKNOWN_ACCOUNT", "UNKNOWN_SECURITY"} => Reason(r) = outcome[r]

(***************************************************************************)
(* The same of every record the curation skipped: it is reported, with     *)
(* some reason.                                                            *)
(***************************************************************************)
SkippedIsReported ==
    at = "report" =>
        \A r \in records : outcome[r] \notin {"NONE", "CURATED"} => Reason(r) # "MATCHED"
=============================================================================
