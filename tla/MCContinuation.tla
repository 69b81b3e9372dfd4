--------------------------- MODULE MCContinuation ---------------------------
(* Small instance of Continuation: two runs, three sessions, two envelopes. *)
EXTENDS Continuation
=============================================================================
