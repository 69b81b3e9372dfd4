----------------------------- MODULE SimpleRun ------------------------------
(***************************************************************************)
(* One simple run once it holds its permit: _execute_delegate_run starts   *)
(* the child, run_capped_subprocess watches it under one deadline, and a   *)
(* transient failure resumes the session in a further attempt.  A cancel   *)
(* may arrive in the inbox and the parent may interrupt at any moment; the *)
(* child may leave its pipes open in a descendant; a status write may fail. *)
(***************************************************************************)
EXTENDS Naturals

CONSTANTS MaxResumes, \* automatic recovery attempts after the first
          MaxFaults   \* bound on failing writes

ASSUME ResumesAssumption == MaxResumes \in Nat
ASSUME FaultsAssumption  == MaxFaults \in Nat

VARIABLES
  pc,
  attempt,   \* number of the attempt
  child,     \* the attempt's process
  pipes,     \* someone still holds the child's stdout or stderr
  identity,  \* the child's process group can be verified
  outcome,   \* how the child ended
  stop,      \* stop_reason of the last attempt
  expired,   \* timed_out
  unsound,   \* integrity_error
  cancel,    \* the first cancel command of the inbox
  interrupt, \* the parent's interruption flag
  late,      \* the deadline has passed
  verdict,   \* the published lifecycle
  faults

vars == <<pc, attempt, child, pipes, identity, outcome, stop, expired, unsound,
          cancel, interrupt, late, verdict, faults>>

Outcomes    == {"clean", "broken", "transient"}
StopReasons == {"exited", "cancelled", "interrupted", "timed_out"}

TypeOK ==
  /\ pc \in {"attempt", "looping", "stopping", "reporting", "deciding", "resting",
             "publishing", "failing", "done"}
  /\ attempt \in 1 .. MaxResumes + 1
  /\ child \in {"none", "running", "exited", "reaped"}
  /\ pipes \in BOOLEAN /\ identity \in BOOLEAN
  /\ outcome \in Outcomes \cup {"none"}
  /\ stop \in StopReasons
  /\ expired \in BOOLEAN /\ unsound \in BOOLEAN
  /\ cancel \in {"none", "pending", "accepted", "rejected"}
  /\ interrupt \in BOOLEAN /\ late \in BOOLEAN
  /\ verdict \in {"none", "completed", "failed", "cancelled", "timed_out"}
  /\ faults \in 0 .. MaxFaults

Init ==
  /\ pc = "attempt"
  /\ attempt = 1
  /\ child = "none"
  /\ pipes = FALSE /\ identity = FALSE
  /\ outcome = "none"
  /\ stop = "exited"
  /\ expired = FALSE /\ unsound = FALSE
  /\ cancel = "none"
  /\ interrupt = FALSE /\ late = FALSE
  /\ verdict = "none"
  /\ faults = 0

Fault == faults < MaxFaults /\ faults' = faults + 1

\* What only the environment changes, and what only the runner decides.
World   == <<cancel, interrupt, late>>
Process == <<child, pipes, identity, outcome>>
Ruling  == <<stop, expired, unsound>>

-----------------------------------------------------------------------------
(* The world around the runner                                              *)

CancelArrives ==
  /\ cancel = "none" /\ pc # "done"
  /\ cancel' = "pending"
  /\ UNCHANGED <<pc, attempt, Process, Ruling, interrupt, late, verdict, faults>>

ParentInterrupts ==
  /\ ~ interrupt /\ pc # "done"
  /\ interrupt' = TRUE
  /\ UNCHANGED <<pc, attempt, Process, Ruling, cancel, late, verdict, faults>>

DeadlinePasses ==
  /\ ~ late
  /\ late' = TRUE
  /\ UNCHANGED <<pc, attempt, Process, Ruling, cancel, interrupt, verdict, faults>>

\* The child exits; a descendant may keep its pipes.
ChildExits ==
  /\ child = "running"
  /\ child' = "exited"
  /\ outcome' \in Outcomes
  /\ pipes' \in BOOLEAN
  /\ UNCHANGED <<pc, attempt, identity, Ruling, World, verdict, faults>>

PipesClose ==
  /\ child = "exited" /\ pipes
  /\ pipes' = FALSE
  /\ UNCHANGED <<pc, attempt, child, identity, outcome, Ruling, World, verdict, faults>>

\* The child leaves its group, or /proc no longer tells.
IdentityLost ==
  /\ child = "running" /\ identity
  /\ identity' = FALSE
  /\ UNCHANGED <<pc, attempt, child, pipes, outcome, Ruling, World, verdict, faults>>

-----------------------------------------------------------------------------
(* The attempts of _execute_delegate_run                                    *)

StartChild ==
  /\ pc = "attempt" /\ ~ late
  /\ child' = "running"
  /\ pipes' = TRUE
  /\ identity' \in BOOLEAN
  /\ outcome' = "none"
  /\ pc' = "looping"
  /\ UNCHANGED <<attempt, Ruling, World, verdict, faults>>

\* No second is left for another attempt.
NoTimeLeft ==
  /\ pc = "attempt" /\ late
  /\ expired' = TRUE
  /\ pc' = "publishing"
  /\ UNCHANGED <<attempt, Process, stop, unsound, World, verdict, faults>>

\* The managed checkout is no longer what the session was promised.
CheckoutChanged ==
  /\ pc = "attempt" /\ ~ late
  /\ unsound' = TRUE
  /\ pc' = "publishing"
  /\ UNCHANGED <<attempt, Process, stop, expired, World, verdict, faults>>

\* Popen raises.
StartFails ==
  /\ pc = "attempt" /\ ~ late
  /\ Fault
  /\ pc' = "failing"
  /\ UNCHANGED <<attempt, Process, Ruling, World, verdict>>

-----------------------------------------------------------------------------
(* The loop of run_capped_subprocess; one action stands for one iteration   *)
(* that changes something, its checks in the order of the code.             *)

Interrupted == child = "running" /\ interrupt
Cancelled   == child = "running" /\ ~ interrupt /\ cancel = "pending"

Leave(reason) ==
  /\ stop' = reason
  /\ pc' = "stopping"
  /\ UNCHANGED <<attempt, Process, expired, unsound, interrupt, late, verdict, faults>>

StopInterrupted ==
  /\ pc = "looping" /\ Interrupted
  /\ Leave("interrupted")
  /\ UNCHANGED cancel

\* Mutant: the cancel is acknowledged when it is taken.
StopCancelledAcked ==
  /\ pc = "looping" /\ Cancelled /\ identity
  /\ Leave("cancelled")
  /\ cancel' = "accepted"

StopCancelled ==
  /\ pc = "looping" /\ Cancelled /\ identity
  /\ Leave("cancelled")
  /\ UNCHANGED cancel

\* The group cannot be verified: nothing is signalled, the child goes on.
RejectCancel ==
  /\ pc = "looping" /\ Cancelled /\ ~ identity
  /\ cancel' = "rejected"
  /\ UNCHANGED <<pc, attempt, Process, Ruling, interrupt, late, verdict, faults>>

\* The acknowledgement is written, or not, and the status write after it fails:
\* the handler terminates and reaps the child.
RejectFails ==
  /\ pc = "looping" /\ Cancelled /\ ~ identity
  /\ Fault
  /\ cancel' \in {"pending", "rejected"}
  /\ child' = "reaped" /\ pipes' = FALSE /\ outcome' = "broken"
  /\ pc' = "failing"
  /\ UNCHANGED <<attempt, identity, Ruling, interrupt, late, verdict>>

\* Mutant: only a living child is under the deadline.
StopLivingTimedOut ==
  /\ pc = "looping" /\ late
  /\ child = "running"
  /\ ~ (Interrupted \/ Cancelled)
  /\ Leave("timed_out")
  /\ UNCHANGED cancel

\* An exited child whose pipes stay open is waited for until here.
StopTimedOut ==
  /\ pc = "looping" /\ late
  /\ ~ (Interrupted \/ Cancelled)
  /\ Leave("timed_out")
  /\ UNCHANGED cancel

StopExited ==
  /\ pc = "looping" /\ ~ late
  /\ child = "exited" /\ ~ pipes
  /\ Leave("exited")
  /\ UNCHANGED cancel

\* TERM, then KILL, to the whole group, and wait; a child that handles TERM
\* ends as it likes.
Reap ==
  /\ pc = "stopping"
  /\ child' = "reaped"
  /\ pipes' = FALSE
  /\ outcome' \in IF child = "running" THEN Outcomes ELSE {outcome}
  /\ pc' = "reporting"
  /\ UNCHANGED <<attempt, identity, Ruling, World, verdict, faults>>

\* The status says child_stopped; a cancel that ended the child is accepted.
Report ==
  /\ pc = "reporting"
  /\ cancel' = IF stop = "cancelled" THEN "accepted" ELSE cancel
  /\ pc' = "deciding"
  /\ UNCHANGED <<attempt, Process, Ruling, interrupt, late, verdict, faults>>

\* That write, or the one that follows the acknowledgement, fails.
ReportFails ==
  /\ pc = "reporting"
  /\ Fault
  /\ cancel' \in IF stop = "cancelled" THEN {"pending", "accepted"} ELSE {cancel}
  /\ pc' = "failing"
  /\ UNCHANGED <<attempt, Process, Ruling, interrupt, late, verdict>>

-----------------------------------------------------------------------------
(* Another attempt or not                                                   *)

\* observe_attempt may find that the session changed its identity.
Observed == expired' = (stop = "timed_out") /\ unsound' \in {unsound, TRUE}

Transient == stop = "exited" /\ ~ unsound' /\ outcome = "transient"

\* Also where a transient failure cannot be resumed: no session, no time.
StopTrying ==
  /\ pc = "deciding"
  /\ Observed
  /\ Transient => attempt = MaxResumes + 1
  /\ pc' = "publishing"
  /\ UNCHANGED <<attempt, Process, stop, World, verdict, faults>>

Rest ==
  /\ pc = "deciding"
  /\ Observed
  /\ Transient /\ attempt <= MaxResumes
  /\ pc' = "resting"
  /\ UNCHANGED <<attempt, Process, stop, World, verdict, faults>>

\* _wait_for_transient_resume.
RestEnds(reason) ==
  /\ pc = "resting"
  /\ stop' = reason
  /\ expired' = (reason = "timed_out")
  /\ pc' = "publishing"
  /\ UNCHANGED <<attempt, Process, unsound, World, verdict, faults>>

RestInterrupted == interrupt /\ RestEnds("interrupted")
RestCancelled   == ~ interrupt /\ cancel = "pending" /\ RestEnds("cancelled")
RestTimedOut    == late /\ RestEnds("timed_out")

\* The last look at the inbox and the flag may be a fifth of a second old.
Resume ==
  /\ pc = "resting" /\ ~ late
  /\ attempt' = attempt + 1
  /\ pc' = "attempt"
  /\ UNCHANGED <<Process, Ruling, World, verdict, faults>>

-----------------------------------------------------------------------------
(* The terminal status                                                      *)

Conclude(v) ==
  /\ pc' = "done"
  /\ verdict' = v
  /\ UNCHANGED <<attempt, Process, Ruling, World, faults>>

Stopped == stop \in {"cancelled", "interrupted"}

\* Mutant: a lost session identity is reported before a cancel.
PublishUnsoundFirst ==
  /\ pc = "publishing"
  /\ \/ unsound /\ Conclude("failed")
     \/ ~ unsound /\ Stopped /\ Conclude("cancelled")
     \/ ~ unsound /\ ~ Stopped /\ expired /\ Conclude("timed_out")
     \/ ~ unsound /\ ~ Stopped /\ ~ expired /\ outcome = "clean" /\ Conclude("completed")
     \/ ~ unsound /\ ~ Stopped /\ ~ expired /\ Conclude("failed")

\* A clean exit may still fail by an approval timeout found in the output.
Publish ==
  /\ pc = "publishing"
  /\ \/ Stopped /\ Conclude("cancelled")
     \/ ~ Stopped /\ expired /\ Conclude("timed_out")
     \/ ~ Stopped /\ ~ expired /\ Conclude("failed")
     \/ ~ Stopped /\ ~ expired /\ ~ unsound /\ outcome = "clean" /\ Conclude("completed")

\* The caller's handler publishes the failure of an exception.
PublishFailure == pc = "failing" /\ Conclude("failed")

-----------------------------------------------------------------------------
Runner ==
  \/ StartChild \/ NoTimeLeft \/ CheckoutChanged \/ StartFails
  \/ StopInterrupted \/ StopCancelled \/ RejectCancel \/ RejectFails
  \/ StopTimedOut \/ StopExited \/ Reap \/ Report \/ ReportFails
  \/ StopTrying \/ Rest \/ RestInterrupted \/ RestCancelled \/ RestTimedOut \/ Resume
  \/ Publish \/ PublishFailure

Environment ==
  \/ CancelArrives \/ ParentInterrupts \/ DeadlinePasses
  \/ ChildExits \/ PipesClose \/ IdentityLost

Next == Runner \/ Environment

Spec == Init /\ [][Next]_vars

-----------------------------------------------------------------------------
(* Safety *)

\* A run whose cancel was accepted ends cancelled, through a lost session, a
\* deadline or a child that ended well; only a failing write makes it failed.
AcceptedEndsCancelled ==
  pc = "done" /\ cancel = "accepted" =>
    verdict = "cancelled" \/ (verdict = "failed" /\ faults > 0)

\* Nothing is published, and no cancel is accepted, while a child lives; once a
\* cancel is accepted no further attempt ever starts one.
ReapedFirst ==
  pc \in {"resting", "publishing", "failing", "done"} \/ cancel = "accepted" =>
    child \in {"none", "reaped"}

\* Work is repeated only after a transient failure of a child that ended by
\* itself; a cancelled, interrupted or timed out run is never resumed.
OnlyTransientsResume ==
  [][attempt' # attempt =>
       outcome = "transient" /\ stop = "exited" /\ child = "reaped" /\ ~ unsound]_vars
=============================================================================
