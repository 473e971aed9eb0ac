---------------------------- MODULE MCCashCuration ----------------------------
(* A small instance of CashCuration: five movements in two days, one of them  *)
(* malformed, delivered in the order of the days or with the later day first. *)
(* Amounts are powers of two, so that every sum tells its terms.  Each of the *)
(* first two days may begin with an end-of-day balance; the third never has.  *)
EXTENDS CashCuration

MCDates == {<<2, 2, 0, 3, 3>>, <<3, 2, 0, 3, 2>>}

MCAmountOf == <<1, -2, 4, 8, 16>>

MCClosing == [d \in {1, 2} |-> 32 * d]

MCPaces == {"behind", "any"}
=============================================================================
