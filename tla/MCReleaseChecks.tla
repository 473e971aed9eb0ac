---------------------------- MODULE MCReleaseChecks ----------------------------
(* Two feeds and a clock that outlasts the ages.                             *)
EXTENDS ReleaseChecks

MCTopics == {"custody", "cash"}

MCCollectionOf == [custody |-> "raw_custody_positions", cash |-> "raw_cash_movements"]

MCRegistry == <<"positions", "raw_custody_positions", "raw_cash_movements">>

MCMaxAge == [custody |-> 1, cash |-> 1, batches |-> 1]
=============================================================================
