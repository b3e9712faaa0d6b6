----------------------------- MODULE MCJournal -----------------------------
(* Three writers beside an export that reads one row at a time.            *)
EXTENDS Journal

CONSTANTS w1, w2, w3

MCWriters == {w1, w2, w3}
=============================================================================
