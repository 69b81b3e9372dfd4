------------------------------ MODULE EventLog ------------------------------
(***************************************************************************)
(* What the journal of a run promises to whoever reads it: one log, whose  *)
(* records are numbered from one.  A record is put behind all others and   *)
(* stays; a writer's terminal record is its last, and once the log is      *)
(* marked as truncated only terminal records follow.  Whoever watches the  *)
(* run is shown the whole log again and again; one that looks before       *)
(* anything is recorded may be shown an attempt at the first record, and   *)
(* then never sees the record that takes its place.                        *)
(*                                                                         *)
(* EventJournal implements this with writers that each have a memory of    *)
(* the file, with torn tails, failing writes and deaths, and with a reader *)
(* that takes no lock.                                                     *)
(***************************************************************************)
EXTENDS Naturals, Sequences

VARIABLES log,  \* what was recorded
          seen  \* what was shown

logVars == <<log, seen>>

Init == log = <<>> /\ seen = <<>>

Truncated == \E i \in DOMAIN log : log[i].record.kind = "journal.truncated"
Over(w)   == \E i \in DOMAIN log : log[i].record.kind = "terminal" /\ log[i].record.by = w

Put(e) ==
  /\ e.seq = Len(log) + 1
  /\ ~ Over(e.record.by)
  /\ Truncated => e.record.kind = "terminal"
  /\ log' = Append(log, e)
  /\ seen' = seen

Show ==
  /\ log # <<>>
  /\ seen' = [i \in DOMAIN log |-> IF i = 1 /\ seen # <<>> THEN seen[1] ELSE log[i]]
  /\ log' = log

Glimpse ==
  /\ log = <<>> /\ seen = <<>>
  /\ Len(seen') = 1 /\ seen'[1].seq = 1
  /\ log' = log

Next == (\E i \in DOMAIN log' \ DOMAIN log : Put(log'[i])) \/ Show \/ Glimpse

Spec == Init /\ [][Next]_logVars
=============================================================================
