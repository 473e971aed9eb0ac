------------------------------- MODULE DayLists -------------------------------
(***************************************************************************)
(* The list services over days, as a client reads them: what a walk of one *)
(* comes to (KeysetPagination), of the query the service makes of the days *)
(* it is asked for (ListServices).                                         *)
(***************************************************************************)
EXTENDS KeysetPagination, ListServices

CONSTANTS
    Document,   \* row -> status -> its document
    Asked       \* list over days -> the request, see Answer

\* The query a service makes of a request.
Answer(q) ==
    CASE q.service = "transactions" -> GetTransactions(q.account, q.from, q.to, q.status)
      [] q.service = "settlements" -> GetSettlements(q.account, q.from, q.status)
      [] q.service = "fails" -> GetSettlementFails(q.from, q.to, q.account)
      [] q.service = "positions" -> GetPositions(q.account, q.from)
      [] q.service = "history" -> GetPositionHistory(q.account, q.security, q.from, q.to)
      [] q.service = "balances" -> GetCashBalances(q.account, q.from)

Services == {"transactions", "settlements", "fails", "positions", "history", "balances"}

\* The collection a service reads, and the field that has the day.
CollectionOfService ==
    [s \in Services |->
        CASE s \in {"settlements", "fails"} -> "settlements"
          [] s \in {"positions", "history"} -> "positions"
          [] s = "transactions" -> "transactions"
          [] s = "balances" -> "cash_balances"]

Date(service, d) ==
    CASE service = "transactions" -> d.tradeDate
      [] service \in {"settlements", "fails"} -> d.settlementDate
      [] service \in {"positions", "history", "balances"} -> d.asOfDate

\* Only the status of a document changes, and its dates are instants.
ASSUME DocumentAssumption ==
    /\ \A r \in Rows, s \in Statuses :
          Document[r][s]._id = r /\ Document[r][s].status = s
    /\ \A c \in DOMAIN Store :
          Store[c] = {Document[r][s] : r \in {q \in Rows : Collection[q] = c}, s \in Statuses}
    /\ \A l \in DOMAIN Asked :
          /\ l \in Lists /\ Asked[l].service \in Services /\ Query[l] = Answer(Asked[l])
          /\ CollectionOfService[Asked[l].service] \in DOMAIN Store
          /\ \A d \in Store[CollectionOfService[Asked[l].service]] :
                Date(Asked[l].service, d) \in Nat
          /\ Asked[l].from \in Nat /\ Asked[l].to \in Nat
-----------------------------------------------------------------------------
\* The calendar day of an instant.
DayOf(t) == t \div DayLength

\* The days a request is about.
DaysAsked(q) ==
    IF q.service \in {"settlements", "positions", "balances"} THEN {q.from} ELSE q.from..q.to

\* What a request asks for, as the services describe it: documents of an
\* account, a security or a status, on whole days, both ends of a window
\* included.
Described(q, d) ==
    /\ DayOf(Date(q.service, d)) \in DaysAsked(q)
    /\ IF q.service = "fails" THEN IfGiven(q.account, d.accountId) /\ d.status = "FAILED"
       ELSE d.accountId = q.account
    /\ q.service = "history" => d.securityId = q.security
    /\ q.service \in {"transactions", "settlements"} => IfGiven(q.status, d.status)

\* A finished walk of a list over days has been given, of the rows that were
\* there for all of it, those of the whole days asked for and no others
\* (day_range and date_window).
WholeDays ==
    \A l \in finished \cap DOMAIN Asked : \A r \in steady[l] :
        LET q == Asked[l] IN
        r \in Range(returned[l]) <=>
            /\ Collection[r] = CollectionOfService[q.service]
            /\ status[r] # Absent
            /\ Described(q, Document[r][status[r]])
=============================================================================
