--------------------------- MODULE ControlChannel ---------------------------
(***************************************************************************)
(* The private inbox of one run.  Clients (profile_delegate_steer and      *)
(* _cancel) write numbered command files under two locks; the worker takes *)
(* them in file name order and writes one acknowledgement for each.  A     *)
(* client may die between writing its command and advancing the number.    *)
(*                                                                         *)
(* A client makes one call, so its name also names its command.            *)
(***************************************************************************)
EXTENDS Inbox, Sequences

CONSTANTS Transports, \* transports considered
          Nobody,     \* the control lock is free
          MaxFaults   \* bound on deaths of clients

ASSUME LockAssumption      == Nobody \notin Clients
ASSUME TransportAssumption == Transports \subseteq {"cli", "foreground", "tui"}
ASSUME FaultsAssumption    == MaxFaults \in Nat

AckStates == {"accepted", "rejected", "delivery_unknown"}

VARIABLES
  transport, \* detached simple, foreground simple or interactive; fixed
  identity,  \* process group identity in status.json against the real group
  control,   \* holder of the control lock
  answer,    \* what the client was told
  nextSeq,   \* next_seq.json
  faults

vars == <<transport, lifecycle, identity, control, pc, answer, inbox, nextSeq,
          acks, faults>>

Answers == AckStates \cup {"none", "run_terminal", "refused", "cancelling", "pending"}

TypeOK ==
  /\ transport \in Transports
  /\ lifecycle \in {"running", "cancelling", "terminal"}
  /\ identity \in {"absent", "pending", "verified", "changed"}
  /\ control \in Clients \cup {Nobody}
  /\ pc \in [Clients -> {"idle", "entering", "searching", "deciding", "numbering", "waiting", "done", "dead"}]
  /\ answer \in [Clients -> Answers]
  /\ inbox \in Seq([by : Clients, seq : Nat])
  /\ nextSeq \in 1 .. Cardinality(Clients) + 1
  /\ acks \in [Clients -> AckStates \cup {"none"}]
  /\ faults \in 0 .. MaxFaults

Init ==
  /\ transport \in Transports
  /\ lifecycle = "running"
  /\ identity = "absent"
  /\ control = Nobody
  /\ pc = [c \in Clients |-> "idle"]
  /\ answer = [c \in Clients |-> "none"]
  /\ inbox = <<>>
  /\ nextSeq = 1
  /\ acks = [c \in Clients |-> "none"]
  /\ faults = 0

Goto(c, l) == pc' = [pc EXCEPT ![c] = l]
Tell(c, a) == answer' = [answer EXCEPT ![c] = a]

\* A client holds status.lock from its check of the lifecycle until the number
\* is advanced; every other writer of the status waits.
StatusFree == \A c \in Clients : pc[c] # "numbering"

\* _require_detached_cli_identity: it asks nothing of a run that no detached
\* worker is recorded for.
IdentityOK == transport # "cli" \/ identity \in {"absent", "verified"}

Controllable(c) == c \in Cancellers \/ transport = "tui"

-----------------------------------------------------------------------------
(* profile_delegate_cancel and profile_delegate_steer                       *)

\* The first, unlocked reading of the status.
AnswerAtOnce(c) ==
  /\ pc[c] = "idle"
  /\ \/ lifecycle = "terminal" /\ Tell(c, "run_terminal")
     \/ c \in Cancellers /\ lifecycle = "cancelling" /\ Tell(c, "cancelling")
     \/ ~ Controllable(c) /\ Tell(c, "refused")
  /\ Goto(c, "done")
  /\ UNCHANGED <<transport, lifecycle, identity, control, inbox, nextSeq, acks, faults>>

Enter(c) ==
  /\ pc[c] = "idle"
  /\ Controllable(c)
  /\ lifecycle # "terminal"
  /\ c \in Cancellers => lifecycle # "cancelling"
  /\ Goto(c, "entering")
  /\ UNCHANGED <<transport, lifecycle, identity, control, answer, inbox, nextSeq, acks, faults>>

\* Mutant: no lock around the search for an earlier cancel.
TakeControlShared(c) ==
  /\ pc[c] = "entering"
  /\ control' = c
  /\ Goto(c, IF c \in Cancellers THEN "searching" ELSE "deciding")
  /\ UNCHANGED <<transport, lifecycle, identity, answer, inbox, nextSeq, acks, faults>>

TakeControl(c) ==
  /\ pc[c] = "entering"
  /\ control = Nobody
  /\ control' = c
  /\ Goto(c, IF c \in Cancellers THEN "searching" ELSE "deciding")
  /\ UNCHANGED <<transport, lifecycle, identity, answer, inbox, nextSeq, acks, faults>>

Done(c, a) ==
  /\ Tell(c, a)
  /\ Goto(c, "done")
  /\ control' = Nobody

\* Cancel is idempotent: the command of an earlier call answers for it.
RepeatCancel(c) ==
  /\ pc[c] = "searching"
  /\ \E e \in CancelEntries :
       Done(c, IF acks[e.by] = "none" THEN "pending" ELSE acks[e.by])
  /\ UNCHANGED <<transport, lifecycle, identity, inbox, nextSeq, acks, faults>>

NoEarlierCancel(c) ==
  /\ pc[c] = "searching"
  /\ CancelEntries = {}
  /\ Goto(c, "deciding")
  /\ UNCHANGED <<transport, lifecycle, identity, control, answer, inbox, nextSeq, acks, faults>>

\* The readings of _write_control_command, before and under status.lock.
RefuseCommand(c) ==
  /\ pc[c] = "deciding"
  /\ \/ lifecycle = "terminal" /\ Done(c, "run_terminal")
     \/ ~ IdentityOK /\ Done(c, "refused")
  /\ UNCHANGED <<transport, lifecycle, identity, inbox, nextSeq, acks, faults>>

\* Mutant: the lifecycle of the first reading is trusted.
WriteCommandUnchecked(c) ==
  /\ pc[c] = "deciding"
  /\ IdentityOK
  /\ StatusFree
  /\ inbox' = Append(inbox, [by |-> c, seq |-> nextSeq])
  /\ Goto(c, "numbering")
  /\ UNCHANGED <<transport, lifecycle, identity, control, answer, nextSeq, acks, faults>>

WriteCommand(c) ==
  /\ pc[c] = "deciding"
  /\ lifecycle # "terminal"
  /\ IdentityOK
  /\ StatusFree
  /\ inbox' = Append(inbox, [by |-> c, seq |-> nextSeq])
  /\ Goto(c, "numbering")
  /\ UNCHANGED <<transport, lifecycle, identity, control, answer, nextSeq, acks, faults>>

\* Mutant: a call waits for its acknowledgement with the lock in hand.
AdvanceHolding(c) ==
  /\ pc[c] = "numbering"
  /\ nextSeq' = nextSeq + 1
  /\ Goto(c, "waiting")
  /\ UNCHANGED <<transport, lifecycle, identity, control, answer, inbox, acks, faults>>

AdvanceNumber(c) ==
  /\ pc[c] = "numbering"
  /\ nextSeq' = nextSeq + 1
  /\ control' = Nobody
  /\ Goto(c, "waiting")
  /\ UNCHANGED <<transport, lifecycle, identity, answer, inbox, acks, faults>>

\* _wait_control_ack: two seconds of polling, then the command is pending.
StopWaiting(c) ==
  /\ pc[c] = "waiting"
  /\ Tell(c, IF acks[c] = "none" THEN "pending" ELSE acks[c])
  /\ Goto(c, "done")
  /\ UNCHANGED <<transport, lifecycle, identity, control, inbox, nextSeq, acks, faults>>

\* The flocks of a dead client are free; its command may stay.
ClientDies(c) ==
  /\ faults < MaxFaults
  /\ faults' = faults + 1
  /\ pc[c] \in {"entering", "searching", "deciding", "numbering", "waiting"}
  /\ control' = IF control = c THEN Nobody ELSE control
  /\ Goto(c, "dead")
  /\ UNCHANGED <<transport, lifecycle, identity, answer, inbox, nextSeq, acks>>

-----------------------------------------------------------------------------
(* The worker's side                                                        *)

\* The launcher records a detached worker, usually with its group identity;
\* each child then brings its own, and takes it along when it goes.
PublishIdentity(i) ==
  /\ StatusFree
  /\ lifecycle # "terminal"
  /\ transport = "cli"
  /\ identity' = i
  /\ UNCHANGED <<transport, lifecycle, control, pc, answer, inbox, nextSeq, acks, faults>>

Pending == {e \in Entries : acks[e.by] = "none"}

\* _pending_control_commands sorts by file name: by number, then by the random
\* command id.
Foremost(e) == e \in Pending /\ \A f \in Pending : e.seq <= f.seq

\* apply_cancel of an interactive run tells readers first.
MarkCancelling(e) ==
  /\ Foremost(e)
  /\ e.by \in Cancellers
  /\ transport = "tui"
  /\ lifecycle = "running"
  /\ StatusFree
  /\ lifecycle' = "cancelling"
  /\ UNCHANGED <<transport, identity, control, pc, answer, inbox, nextSeq, acks, faults>>

\* That write fails: process_controls answers the cancel with a rejection, and
\* the run, already cancelled inside, takes no further command.
FailToMark(e) ==
  /\ faults < MaxFaults
  /\ faults' = faults + 1
  /\ Foremost(e)
  /\ e.by \in Cancellers
  /\ transport = "tui"
  /\ lifecycle = "running"
  /\ acks' = [acks EXCEPT ![e.by] = "rejected"]
  /\ UNCHANGED <<transport, lifecycle, identity, control, pc, answer, inbox, nextSeq>>

\* What a command may be told: an interactive cancel is accepted once marked;
\* a simple one also rejected, when the owned group cannot be verified.
Verdicts(e) ==
  IF transport = "tui" THEN IF e.by \in Steerers THEN AckStates ELSE {"accepted"}
  ELSE {"accepted", "rejected"}

\* Mutant: directory order.
AcknowledgeAny(e, a) ==
  /\ e \in Pending
  /\ a \in Verdicts(e)
  /\ lifecycle # "terminal"
  /\ transport = "tui" => (e.by \in Cancellers <=> lifecycle = "cancelling")
  /\ StatusFree
  /\ acks' = [acks EXCEPT ![e.by] = a]
  /\ UNCHANGED <<transport, lifecycle, identity, control, pc, answer, inbox, nextSeq, faults>>

\* A cancelled interactive run takes no further command.
Acknowledge(e, a) ==
  /\ Foremost(e)
  /\ a \in Verdicts(e)
  /\ lifecycle # "terminal"
  /\ transport = "tui" => (e.by \in Cancellers <=> lifecycle = "cancelling")
  /\ StatusFree
  /\ acks' = [acks EXCEPT ![e.by] = a]
  /\ UNCHANGED <<transport, lifecycle, identity, control, pc, answer, inbox, nextSeq, faults>>

\* The status write that follows an acknowledgement fails: process_controls
\* writes a rejection over it.
Withdraw(e) ==
  /\ faults < MaxFaults
  /\ faults' = faults + 1
  /\ transport = "tui"
  /\ lifecycle # "terminal"
  /\ acks[e.by] \in {"accepted", "delivery_unknown"}
  /\ acks' = [acks EXCEPT ![e.by] = "rejected"]
  /\ UNCHANGED <<transport, lifecycle, identity, control, pc, answer, inbox, nextSeq>>

Finish ==
  /\ StatusFree
  /\ lifecycle # "terminal"
  /\ lifecycle' = "terminal"
  /\ UNCHANGED <<transport, identity, control, pc, answer, inbox, nextSeq, acks, faults>>

-----------------------------------------------------------------------------
ClientStep(c) ==
  \/ AnswerAtOnce(c) \/ Enter(c) \/ TakeControl(c) \/ RepeatCancel(c) \/ NoEarlierCancel(c)
  \/ RefuseCommand(c) \/ WriteCommand(c) \/ AdvanceNumber(c) \/ StopWaiting(c)

WorkerStep ==
  \/ \E i \in {"pending", "verified", "changed"} : PublishIdentity(i)
  \/ \E e \in Entries : MarkCancelling(e) \/ FailToMark(e) \/ Withdraw(e)
  \/ \E e \in Entries, a \in AckStates : Acknowledge(e, a)
  \/ Finish

Next == (\E c \in Clients : ClientStep(c) \/ ClientDies(c)) \/ WorkerStep

Spec == Init /\ [][Next]_vars

\* A client that can go on does; of the worker nothing is asked.
FairSpec == Spec /\ \A c \in Clients : WF_vars(ClientStep(c))

-----------------------------------------------------------------------------
(* Liveness *)

\* Every call returns, also behind a client that died with the lock.
EveryCallReturns == \A c \in Clients : pc[c] = "entering" ~> pc[c] \in {"done", "dead"}
=============================================================================
