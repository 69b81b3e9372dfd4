--------------------------- MODULE MCChildSession ---------------------------
(* Small instance of ChildSession: four sessions, three identity events.    *)
EXTENDS ChildSession
=============================================================================
