----------------------------- MODULE ListServices -----------------------------
(***************************************************************************)
(* The list services of bank_ods.services: the collection, the sort and    *)
(* the documents each one asks the database for.  A document is a record   *)
(* of the fields its filters look at.  An optional filter that is not      *)
(* given is None.  Days are numbers; an instant is DayLength * day plus a  *)
(* time of day.                                                            *)
(***************************************************************************)
EXTENDS Integers, Sequences

CONSTANTS
    Store,      \* each collection: the documents it may hold
    DayLength,  \* the number of instants in a day
    None

ASSUME ServicesAssumption == DayLength \in Nat \ {0}

By(field, direction) == <<[field |-> field, direction |-> direction]>>

Listing(collection, sort, documents) ==
    [collection |-> collection, sort |-> sort,
     selects |-> {<<d._id, d.status>> : d \in documents}]

\* A filter that applies only when it is given.
IfGiven(asked, value) == asked = None \/ asked = value

-----------------------------------------------------------------------------
(* Days. *)

DayStart(day) == DayLength * day

\* A window that ends at the midnight that starts its last day (a mutant).
DayItself(day) == DayStart(day)

DayAfter(day) == DayStart(day) + DayLength

DayRange(day) == {t \in Nat : t >= DayStart(day) /\ t < DayAfter(day)}

DateWindow(from, to) == {t \in Nat : t >= DayStart(from) /\ t < DayAfter(to)}

-----------------------------------------------------------------------------
(* The services. *)

ListAccounts(clientId, wanted) ==
    Listing("accounts", By("accountId", 1),
         {d \in Store["accounts"] :
             IfGiven(clientId, d.clientId) /\ IfGiven(wanted, d.status)})

ListSecurities(assetClass, wanted) ==
    Listing("securities", By("securityId", 1),
         {d \in Store["securities"] :
             IfGiven(assetClass, d.assetClass) /\ IfGiven(wanted, d.status)})

GetTransactions(account, from, to, wanted) ==
    Listing("transactions", By("tradeDate", -1),
         {d \in Store["transactions"] :
             /\ d.accountId = account
             /\ d.tradeDate \in DateWindow(from, to)
             /\ IfGiven(wanted, d.status)})

GetSettlements(account, day, wanted) ==
    Listing("settlements", By("settlementId", 1),
         {d \in Store["settlements"] :
             /\ d.accountId = account
             /\ d.settlementDate \in DayRange(day)
             /\ IfGiven(wanted, d.status)})

GetSettlementFails(from, to, account) ==
    Listing("settlements", By("settlementDate", -1),
         {d \in Store["settlements"] :
             /\ d.status = "FAILED"
             /\ d.settlementDate \in DateWindow(from, to)
             /\ IfGiven(account, d.accountId)})

GetPositions(account, day) ==
    Listing("positions", By("securityId", 1),
         {d \in Store["positions"] :
             d.accountId = account /\ d.asOfDate \in DayRange(day)})

GetPositionHistory(account, security, from, to) ==
    Listing("positions", By("asOfDate", 1),
         {d \in Store["positions"] :
             /\ d.accountId = account /\ d.securityId = security
             /\ d.asOfDate \in DateWindow(from, to)})

GetCashBalances(account, day) ==
    Listing("cash_balances", By("currency", 1),
         {d \in Store["cash_balances"] :
             d.accountId = account /\ d.asOfDate \in DayRange(day)})

\* Any raw collection, in the order of its own key.
ListRawRecords(collection, key) ==
    Listing(collection, By(key, 1), Store[collection])
=============================================================================
