------------------------------ MODULE MCTuiRpc ------------------------------
(* Small instance of TuiRpc: three calls, two full pipes, two faults. *)
EXTENDS TuiRpc
=============================================================================
