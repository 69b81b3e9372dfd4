----------------------------- MODULE MCJournal ------------------------------
(* Small instance of EventJournal: two writers on one run.                  *)
EXTENDS EventJournal, TLC

WriterSymmetry == Permutations(Writers)
=============================================================================
