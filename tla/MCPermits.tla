----------------------------- MODULE MCPermits ------------------------------
(* Small instance of Permits.                                               *)
EXTENDS Permits, TLC

WorkerSymmetry == Permutations(Workers)
=============================================================================
