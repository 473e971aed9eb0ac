-------------------------- MODULE MCKeysetPagination --------------------------
(***************************************************************************)
(* The lists of bank_ods over a few documents of each collection.  Days    *)
(* have two instants, midnight and one in the day.  Two settlements fall   *)
(* on one instant, the order of the settlement ids is not the order of the *)
(* dates, and one falls in the last day of the window asked for.           *)
(***************************************************************************)
EXTENDS DayLists, TLC

MCDayLength == 2

MCStatuses == {"OPEN", "FAILED"}

\* The documents, but for what changes in them.
Seed == <<
    [collection |-> "settlements", settlementId |-> 3, accountId |-> 1, settlementDate |-> 3],
    [collection |-> "settlements", settlementId |-> 1, accountId |-> 1, settlementDate |-> 3],
    [collection |-> "settlements", settlementId |-> 2, accountId |-> 1, settlementDate |-> 4],
    [collection |-> "positions", accountId |-> 1, securityId |-> 2, asOfDate |-> 3],
    [collection |-> "positions", accountId |-> 1, securityId |-> 1, asOfDate |-> 3],
    [collection |-> "positions", accountId |-> 1, securityId |-> 2, asOfDate |-> 5],
    [collection |-> "transactions", transactionId |-> 1, accountId |-> 1, tradeDate |-> 3],
    [collection |-> "transactions", transactionId |-> 2, accountId |-> 1, tradeDate |-> 3],
    [collection |-> "transactions", transactionId |-> 3, accountId |-> 1, tradeDate |-> 5],
    [collection |-> "accounts", accountId |-> 2, clientId |-> 1],
    [collection |-> "accounts", accountId |-> 1, clientId |-> 1],
    [collection |-> "securities", securityId |-> 2, assetClass |-> 1],
    [collection |-> "securities", securityId |-> 1, assetClass |-> 1],
    [collection |-> "cash_balances", accountId |-> 1, currency |-> 2, asOfDate |-> 2],
    [collection |-> "cash_balances", accountId |-> 1, currency |-> 1, asOfDate |-> 3],
    [collection |-> "raw_custody_positions", REC_ID |-> 2],
    [collection |-> "raw_custody_positions", REC_ID |-> 1] >>

MCRows == DOMAIN Seed

MCCollection == [r \in MCRows |-> Seed[r].collection]

MCDocument == [r \in MCRows |-> [s \in MCStatuses |->
    [f \in DOMAIN Seed[r] \cup {"_id", "status"} |->
        IF f = "_id" THEN r ELSE IF f = "status" THEN s ELSE Seed[r][f]]]]

Documents(collection) ==
    {MCDocument[r][s] : r \in {q \in MCRows : Seed[q].collection = collection}, s \in MCStatuses}

StoreTable == [c \in Range(MCCollection) |-> Documents(c)]

\* TLC evaluates a definition once, but the value of a constant at every use.
MCStore == StoreTable

\* Day 1 holds the instants 2 and 3, day 2 the instants 4 and 5.
Days(service, account, security, to, wanted) ==
    [service |-> service, account |-> account, security |-> security,
     from |-> 1, to |-> to, status |-> wanted]

MCAsked ==
    [settlements |-> Days("settlements", 1, None, 1, None),
     fails |-> Days("fails", None, None, 2, None),
     positions |-> Days("positions", 1, None, 1, None),
     history |-> Days("history", 1, 2, 2, None),
     transactions |-> Days("transactions", 1, None, 2, "OPEN"),
     balances |-> Days("balances", 1, None, 1, None)]

DayQueries == [l \in DOMAIN MCAsked |-> Answer(MCAsked[l])]

Queries ==
    [accounts |-> ListAccounts(1, "OPEN"),
     securities |-> ListSecurities(None, "OPEN"),
     raw |-> ListRawRecords("raw_custody_positions", "REC_ID")]
    @@ DayQueries

MCQuery == Queries

ListNames == DOMAIN Queries

MCLists == ListNames

MCFields == {"_id", "settlementId", "settlementDate", "securityId", "asOfDate",
             "tradeDate", "accountId", "currency", "REC_ID"}

MCTypeOf == [f \in MCFields |->
    CASE f = "_id" -> "objectId"
      [] f \in {"settlementDate", "asOfDate", "tradeDate"} -> "date"
      [] OTHER -> "string"]

Values == [r \in MCRows |-> [f \in MCFields |->
    IF f = "_id" THEN r ELSE IF f \in DOMAIN Seed[r] THEN Seed[r][f] ELSE 0]]

MCValue == Values

MCClients == {{"settlements", "fails"}, {"positions", "history"}, {"transactions"},
              {"accounts"}, {"securities"}, {"balances"}, {"raw"}}

\* Pages of one row and of MaxLimit rows.
MCLimits == {0, 9}

=============================================================================
