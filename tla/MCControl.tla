----------------------------- MODULE MCControl ------------------------------
(* Small instance of ControlChannel: two steering and two cancelling calls. *)
EXTENDS ControlChannel, TLC

ClientSymmetry == Permutations(Steerers) \cup Permutations(Cancellers)
=============================================================================
