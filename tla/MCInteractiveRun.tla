-------------------------- MODULE MCInteractiveRun ---------------------------
(* Small instance of InteractiveRun: two corrections and a cancel. *)
EXTENDS InteractiveRun, TLC

SteerSymmetry == Permutations(Steers)
=============================================================================
