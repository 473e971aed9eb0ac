----------------------------- MODULE MCCustodyFile -----------------------------
(* Fields of two digits, so that totals may be too wide for theirs; equal    *)
(* positions, and positions that differ in one digit.                        *)
EXTENDS CustodyFile

MCSymbols == {0, 1, 2, Blank, Other}
=============================================================================
