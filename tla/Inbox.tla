------------------------------- MODULE Inbox --------------------------------
(***************************************************************************)
(* What every party to the inbox of a run may count on: the clients that   *)
(* write commands, the worker that acknowledges them, and whoever reads    *)
(* the directory afterwards.  ControlChannel says how it comes about.      *)
(***************************************************************************)
EXTENDS Naturals, FiniteSets

CONSTANTS Steerers, Cancellers \* the clients, by the call they make

ASSUME ClientsAssumption ==
  IsFiniteSet(Steerers) /\ IsFiniteSet(Cancellers) /\ Steerers \cap Cancellers = {}

VARIABLES
  lifecycle, \* status in status.json
  pc,        \* where each client is
  inbox,     \* the command files in the order they were written
  acks       \* the acknowledgement of each command

Clients       == Steerers \cup Cancellers
Entries       == {inbox[i] : i \in DOMAIN inbox}
CancelEntries == {e \in Entries : e.by \in Cancellers}

\* However many callers cancel at once, one intent reaches the worker.
OneCancel == Cardinality(CancelEntries) <= 1

\* A correction is never taken before one that was written earlier, unless the
\* earlier client died between its two writes and left its number to the later.
TakenInOrder ==
  \A i, j \in DOMAIN inbox :
    i < j /\ acks[inbox[j].by] # "none" /\ acks[inbox[i].by] = "none" =>
      inbox[i].seq = inbox[j].seq /\ pc[inbox[i].by] = "dead"

\* Once the run is over no command joins its inbox: the write and the terminal
\* publication exclude each other.
NothingAfterTheEnd == [][lifecycle = "terminal" => inbox' = inbox]_<<lifecycle, inbox>>
=============================================================================
