---------------------------- MODULE MCFileAdapter ----------------------------
(* A small instance of FileAdapter: two names, and contents of each verdict. *)
EXTENDS FileAdapter

CONSTANTS good, better, mismatch, rejects

MCSound == {good, better}

MCContents == {good, better, mismatch, rejects}

\* A file whose totals do not reconcile has details too.
MCSize == [c \in MCContents |-> IF c = rejects THEN 1 ELSE 2]

\* More lines than are published.
MCRejected == [c \in MCContents |-> IF c = rejects THEN 3 ELSE 0]

MCFeeds == {"custody", "cash"}
=============================================================================
