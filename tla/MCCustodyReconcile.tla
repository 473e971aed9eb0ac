--------------------------- MODULE MCCustodyReconcile ---------------------------
(* A small instance: one account, two securities, one of them created late.     *)
(* Record 3 is the correction of record 1, under the same REC_ID; both are      *)
(* found by a CUSIP that the master has only in the ISIN.  Record 2 waits for   *)
(* the late security, and record 4 has an account number that is not a number.  *)
(* In the other feed the record of the second cycle does not decode.            *)
EXTENDS CustodyReconcile

MCAccounts == {"A1"}

MCMaster == [s \in {"S1", "S2"} |->
    IF s = "S1" THEN [cusip |-> "none", isin |-> "US1"] ELSE [cusip |-> "C2", isin |-> "none"]]

MCEmbedded == [i \in {"US1", "none"} |-> IF i = "US1" THEN "C1" ELSE "none"]

Rec(id, cycle, a, c, i, ok) ==
    [REC_ID |-> id, cycle |-> cycle, account |-> a, cusip |-> c, isin |-> i, decodes |-> ok]

MCFeed == << Rec("1-1", 1, "A1", "C1", "US1", TRUE),
             Rec("1-2", 1, "A1", "C2", "none", TRUE),
             Rec("1-1", 1, "A1", "C1", "none", TRUE),
             Rec("1-3", 1, "none", "C2", "none", TRUE) >>

MCFeedMalformed == << Rec("1-1", 1, "A1", "C1", "US1", TRUE),
                      Rec("2-1", 2, "A1", "C1", "US1", FALSE) >>

MCLate == {"S2"}
=============================================================================
