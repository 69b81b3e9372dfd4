------------------------------ MODULE MCNotify ------------------------------
(* Small instance of Notify over RunStore: two operator commands.           *)
EXTENDS Notify, TLC
=============================================================================
