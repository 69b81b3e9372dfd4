--------------------------- MODULE InteractiveRun ---------------------------
(***************************************************************************)
(* One interactive run: _RunCoordinator drives a native gateway over a     *)
(* pipe.  It polls events and its control inbox in turn; a correction is a *)
(* remote call whose reply shares the pipe with the events of the turn,    *)
(* may come after the call was given up, or never; the host consumes a     *)
(* queued correction inside the turn or requeues it as a turn of its own.  *)
(* A cancel, the deadline, a broken pipe and a gateway that cannot be      *)
(* reaped may meet in any order before the one publication.                *)
(***************************************************************************)
EXTENDS Naturals, Sequences, FiniteSets

CONSTANTS Steers,    \* the corrections of the inbox
          Cancel,    \* its cancel
          MaxWire,   \* bound on frames unread in the pipe
          MaxFaults  \* bound on broken frames and failing writes

Commands == Steers \cup {Cancel}
Nothing  == "nothing"    \* no command

ASSUME CommandsAssumption == Cancel \notin Steers /\ Nothing \notin Commands
ASSUME WireAssumption     == MaxWire \in Nat /\ MaxFaults \in Nat

VARIABLES
  pc,
  call,       \* the remote call under way: a correction or none
  pending,    \* commands of the inbox without an acknowledgement
  acks,
  terminal,   \* terminal_event
  settled,    \* turn_settled
  followup,   \* followup_started and followup_completed
  message,    \* message_status
  recorded,   \* steer_texts; accepted_steer says that there is one
  baseline,   \* steer_baseline was read
  checked,    \* how many corrections the last receipt check covered
  proven,     \* steer_delivery_proven
  cancelled, timedOut,
  raised,     \* an exception is on its way to record_error
  final,      \* final_status and error_code
  exit,       \* exit_code
  published,  \* the terminal status, its error and steer_delivery_state
  late,       \* the deadline has passed
  process,    \* the gateway
  turn,       \* the host's turn
  fate,       \* what the host did with each correction
  replied,    \* the corrections the host has answered
  wire,       \* frames in the gateway's stdout
  faults

control == <<pending, acks>>
seen    == <<terminal, settled, followup, message>>
steer   == <<recorded, baseline, checked, proven>>
ruling  == <<cancelled, timedOut, raised, final, exit, published>>
host    == <<process, turn, fate, replied, wire>>

vars == <<pc, call, control, seen, steer, ruling, late, host, faults>>

Events == {"start", "complete", "interrupted", "error", "info"}
Frames == [event : Events] \cup [reply : {"queued", "refused"}, to : Steers]

Statuses == {"completed", "failed", "cancelled", "timed_out"}
Errors   == {"none", "cancelled", "timeout", "tui_turn_error", "tui_transport_error",
             "steer_outcome_uncertain", "tui_reap_pending", "tui_nonzero_exit",
             "invalid_terminal_status"}

TypeOK ==
  /\ pc \in {"starting", "turn", "followup", "closing", "teardown", "publishing", "done"}
  /\ call \in Commands \cup {Nothing}
  /\ pending \subseteq Commands
  /\ acks \in [Commands -> {"none", "accepted", "rejected", "delivery_unknown"}]
  /\ terminal \in BOOLEAN /\ settled \in BOOLEAN
  /\ followup \in [started : BOOLEAN, completed : BOOLEAN]
  /\ message \in {"none", "complete", "interrupted", "error"}
  /\ recorded \subseteq Steers
  /\ baseline \in BOOLEAN
  /\ checked \in 0 .. Cardinality(recorded)
  /\ proven \in BOOLEAN /\ cancelled \in BOOLEAN /\ timedOut \in BOOLEAN /\ raised \in BOOLEAN
  /\ final \in [status : Statuses, error : Errors]
  /\ exit \in {"none", "zero", "nonzero"}
  /\ published \in [status : Statuses \cup {"none"}, error : Errors,
                    delivery : {"none", "unknown", "delivered"}]
  /\ late \in BOOLEAN
  /\ process \in {"none", "alive", "dead", "reaped"}
  /\ turn \in {"running", "over", "idle"}
  /\ fate \in [Steers -> {"none", "sent", "queued", "refused", "consumed", "requeued"}]
  /\ replied \subseteq Steers
  /\ wire \in Seq(Frames) /\ Len(wire) <= MaxWire
  /\ faults \in 0 .. MaxFaults

Init ==
  /\ pc = "starting" /\ call = Nothing
  /\ pending = {} /\ acks = [c \in Commands |-> "none"]
  /\ terminal = FALSE /\ settled = FALSE
  /\ followup = [started |-> FALSE, completed |-> FALSE]
  /\ message = "none"
  /\ recorded = {} /\ baseline = FALSE /\ checked = 0 /\ proven = FALSE
  /\ cancelled = FALSE /\ timedOut = FALSE /\ raised = FALSE
  /\ final = [status |-> "failed", error |-> "none"]
  /\ exit = "none"
  /\ published = [status |-> "none", error |-> "none", delivery |-> "none"]
  /\ late = FALSE
  /\ process = "none" /\ turn = "running"
  /\ fate = [s \in Steers |-> "none"] /\ replied = {}
  /\ wire = <<>>
  /\ faults = 0

Fault == faults < MaxFaults /\ faults' = faults + 1

\* Between two remote calls; a cancel that could not be marked does not stop the
\* commands listed behind it.
Controlling ==
  /\ pc \in {"turn", "followup"} /\ call = Nothing
  /\ cancelled => acks[Cancel] = "rejected"

FollowupResolved == cancelled \/ proven \/ (followup.completed /\ settled)

Ack(c, a) ==
  /\ acks' = [acks EXCEPT ![c] = a]
  /\ pending' = pending \ {c}

Raise == raised' = TRUE /\ pc' = "teardown" /\ call' = Nothing

-----------------------------------------------------------------------------
(* The gateway and the world                                                *)

\* Once the teardown begins, the pipe is drained and thrown away.
HostAtWork == process = "alive" /\ pc \notin {"teardown", "publishing", "done"}

Put(f) == Len(wire) < MaxWire /\ wire' = Append(wire, f)

HostUnchanged == UNCHANGED <<pc, call, control, seen, steer, ruling, late, faults>>

\* A steer call reaches the host at its own pace, also after it was given up.
HostQueues(s) ==
  /\ HostAtWork /\ fate[s] = "sent"
  /\ fate' \in {[fate EXCEPT ![s] = f] : f \in {"queued", "refused"}}
  /\ HostUnchanged /\ UNCHANGED <<process, turn, replied, wire>>

HostReplies(s) ==
  /\ HostAtWork /\ fate[s] \notin {"none", "sent"} /\ s \notin replied
  /\ Put([reply |-> IF fate[s] = "refused" THEN "refused" ELSE "queued", to |-> s])
  /\ replied' = replied \cup {s}
  /\ HostUnchanged /\ UNCHANGED <<process, turn, fate>>

Queued == {s \in Steers : fate[s] = "queued"}

Become(f) == fate' = [s \in Steers |-> IF s \in Queued THEN f ELSE fate[s]]

\* The agent takes the corrections queued so far as occurrences of its own.
HostConsumes ==
  /\ HostAtWork /\ turn = "running" /\ Queued # {}
  /\ Become("consumed")
  /\ HostUnchanged /\ UNCHANGED <<process, turn, replied, wire>>

HostCompletes(e) ==
  /\ HostAtWork /\ turn = "running"
  /\ e \in {"complete", "interrupted", "error"}
  /\ Put([event |-> e])
  /\ turn' = "over"
  /\ HostUnchanged /\ UNCHANGED <<process, fate, replied>>

HostSettles ==
  /\ HostAtWork /\ turn = "over"
  /\ Put([event |-> "info"])
  /\ turn' = "idle"
  /\ HostUnchanged /\ UNCHANGED <<process, fate, replied>>

\* Corrections left over are requeued as a turn.
HostRequeues ==
  /\ HostAtWork /\ turn = "idle" /\ Queued # {}
  /\ Put([event |-> "start"])
  /\ Become("requeued")
  /\ turn' = "running"
  /\ HostUnchanged /\ UNCHANGED <<process, replied>>

GatewayDies ==
  /\ HostAtWork
  /\ process' = "dead"
  /\ HostUnchanged /\ UNCHANGED <<turn, fate, replied, wire>>

CommandArrives(c) ==
  /\ c \notin pending /\ acks[c] = "none" /\ c # call
  /\ pc \notin {"teardown", "publishing", "done"}
  /\ pending' = pending \cup {c}
  /\ UNCHANGED <<pc, call, acks, seen, steer, ruling, late, host, faults>>

DeadlinePasses ==
  /\ ~ late /\ pc # "done"
  /\ late' = TRUE
  /\ UNCHANGED <<pc, call, control, seen, steer, ruling, host, faults>>

-----------------------------------------------------------------------------
(* start_gateway, start_agent                                               *)

Start ==
  /\ pc = "starting"
  /\ process' = "alive"
  /\ pc' = "turn"
  /\ UNCHANGED <<call, control, seen, steer, ruling, late, turn, fate, replied, wire, faults>>

\* No permit, no process, no readiness, no session in time.
StartFails ==
  /\ pc = "starting"
  /\ process' \in {"none", "alive"}
  /\ Raise
  /\ UNCHANGED <<control, seen, steer, cancelled, timedOut, final, exit, published, late,
                 turn, fate, replied, wire, faults>>

-----------------------------------------------------------------------------
(* Reading one frame                                                        *)

\* Where a frame may be read: event polling, or inside a call.
Polling ==
  \/ pc = "turn" /\ call = Nothing /\ ~ terminal /\ ~ cancelled
  \/ /\ pc = "followup" /\ call = Nothing
     /\ recorded # {} /\ ~ FollowupResolved
  \/ call # Nothing
  \/ pc = "closing" /\ ~ cancelled /\ recorded = {}

Follows(e) ==
  [started |-> followup.started \/ (e = "start" /\ recorded # {} /\ terminal),
   completed |-> followup.completed
                   \/ (followup.started /\ e \in {"complete", "interrupted", "error"})]

\* Events also come with the native interrupt that follows a timeout.
Interrupting == pc = "followup" /\ call = Nothing /\ timedOut

\* persist_event, observe_message.
ReadEvent ==
  /\ Polling \/ Interrupting
  /\ wire # <<>>
  /\ "event" \in DOMAIN Head(wire)
  /\ wire' = Tail(wire)
  /\ LET e == Head(wire).event IN
       /\ followup' = Follows(e)
       /\ terminal' = IF e \in {"start", "info"} THEN terminal /\ e = "info" ELSE TRUE
       /\ settled' = IF e = "info" THEN settled \/ terminal ELSE FALSE
       /\ message' = IF e \in {"start", "info"} THEN message ELSE e
  /\ UNCHANGED <<pc, call, control, steer, ruling, late, process, turn, fate, replied, faults>>

\* read_frame consumes the late reply of a call that was given up.
DropLateReply ==
  /\ Polling \/ Interrupting
  /\ wire # <<>>
  /\ "reply" \in DOMAIN Head(wire) /\ Head(wire).to # call
  /\ wire' = Tail(wire)
  /\ UNCHANGED <<pc, call, control, seen, steer, ruling, late, process, turn, fate, replied, faults>>

\* End of file, or a frame that is malformed, too long or of an unproven child.
Broken == (process = "dead" /\ wire = <<>> /\ faults' = faults) \/ Fault

ReadFails ==
  /\ Polling /\ call = Nothing
  /\ Broken
  /\ Raise
  /\ UNCHANGED <<control, seen, steer, cancelled, timedOut, final, exit, published, late, host>>

-----------------------------------------------------------------------------
(* process_controls: corrections                                            *)

Record(s) ==
  /\ recorded' = recorded \cup {s}
  /\ proven' = FALSE

\* The baseline of receipts is read before the first correction is sent.
ReadBaseline == IF recorded = {} THEN baseline' \in BOOLEAN ELSE UNCHANGED baseline

RejectSettled(s) ==
  /\ Controlling /\ s \in pending
  /\ terminal /\ settled
  /\ Ack(s, "rejected")
  /\ UNCHANGED <<pc, call, seen, steer, ruling, late, host, faults>>

RejectLate(s) ==
  /\ Controlling /\ s \in pending
  /\ ~ (terminal /\ settled)
  /\ late
  /\ ReadBaseline
  /\ timedOut' = TRUE
  /\ Ack(s, "rejected")
  /\ UNCHANGED <<pc, call, seen, recorded, checked, proven, cancelled, raised, final, exit,
                 published, late, host, faults>>

SendSteer(s) ==
  /\ Controlling /\ s \in pending
  /\ ~ (terminal /\ settled)
  /\ ~ late
  /\ ReadBaseline
  /\ call' = s
  /\ fate' = [fate EXCEPT ![s] = "sent"]
  /\ UNCHANGED <<pc, control, seen, recorded, checked, proven, ruling, late, process, turn,
                 replied, wire, faults>>

\* Mutant: the reply of any call answers this one.
TakeAnyReply(s) ==
  /\ call = s /\ s \in Steers
  /\ wire # <<>>
  /\ "reply" \in DOMAIN Head(wire)
  /\ wire' = Tail(wire)
  /\ \/ Head(wire).reply = "queued" /\ Ack(s, "accepted") /\ Record(s)
     \/ Head(wire).reply = "refused" /\ Ack(s, "rejected") /\ UNCHANGED <<recorded, proven>>
  /\ call' = Nothing
  /\ UNCHANGED <<pc, seen, baseline, checked, ruling, late, process, turn, fate, replied, faults>>

TakeReply(s) ==
  /\ call = s /\ s \in Steers
  /\ wire # <<>>
  /\ "reply" \in DOMAIN Head(wire) /\ Head(wire).to = s
  /\ wire' = Tail(wire)
  /\ \/ Head(wire).reply = "queued" /\ Ack(s, "accepted") /\ Record(s)
     \/ Head(wire).reply = "refused" /\ Ack(s, "rejected") /\ UNCHANGED <<recorded, proven>>
  /\ call' = Nothing
  /\ UNCHANGED <<pc, seen, baseline, checked, ruling, late, process, turn, fate, replied, faults>>

\* A local timeout says nothing: the host may still queue the correction.
GiveUpSteer(s) ==
  /\ call = s /\ s \in Steers
  /\ Ack(s, "delivery_unknown")
  /\ Record(s)
  /\ call' = Nothing
  /\ UNCHANGED <<pc, seen, baseline, checked, ruling, late, host, faults>>

SteerFails(s) ==
  /\ call = s /\ s \in Steers
  /\ Broken
  /\ Ack(s, "rejected")
  /\ Raise
  /\ UNCHANGED <<seen, steer, cancelled, timedOut, final, exit, published, late, host>>

(* process_controls: cancel                                                 *)

Interrupt ==
  /\ Controlling /\ Cancel \in pending
  /\ cancelled' = TRUE
  /\ call' = Cancel
  /\ UNCHANGED <<pc, control, seen, steer, timedOut, raised, final, exit, published, late,
                 host, faults>>

\* Whatever the native interrupt answers, the cancel is accepted.
AcceptCancel ==
  /\ call = Cancel
  /\ Ack(Cancel, "accepted")
  /\ call' = Nothing
  /\ UNCHANGED <<pc, seen, steer, ruling, late, host, faults>>

\* The status write before it fails: a rejection, and a cancelled run.
CancelUnmarked ==
  /\ Controlling /\ Cancel \in pending
  /\ Fault
  /\ cancelled' = TRUE
  /\ Ack(Cancel, "rejected")
  /\ UNCHANGED <<pc, call, seen, steer, timedOut, raised, final, exit, published, late, host>>

-----------------------------------------------------------------------------
(* observe_turn, observe_followup, close_session                            *)

\* A cancelled run polls no more.
LeaveCancelled ==
  /\ pc \in {"turn", "followup"} /\ call = Nothing /\ cancelled
  /\ pc' = "closing"
  /\ UNCHANGED <<call, control, seen, steer, ruling, late, host, faults>>

\* Mutant: the deadline waits for the message of the interrupted turn.
TurnTimesOutWaiting ==
  /\ pc = "turn" /\ call = Nothing /\ ~ terminal /\ ~ cancelled
  /\ late /\ ~ timedOut
  /\ timedOut' = TRUE
  /\ UNCHANGED <<pc, call, control, seen, steer, cancelled, raised, final, exit, published, late,
                 host, faults>>

\* The native interrupt that follows is best effort: what it raises is ignored.
TurnTimesOut ==
  /\ pc = "turn" /\ call = Nothing /\ ~ terminal /\ ~ cancelled
  /\ late
  /\ timedOut' = TRUE
  /\ pc' = "followup"
  /\ UNCHANGED <<call, control, seen, steer, cancelled, raised, final, exit, published, late,
                 host, faults>>

TurnEnds ==
  /\ pc = "turn" /\ call = Nothing /\ terminal /\ ~ cancelled
  /\ pc' = "followup"
  /\ UNCHANGED <<call, control, seen, steer, ruling, late, host, faults>>

\* Mutant: a receipt of one correction answers for all of them.
VerifyAnyDelivery ==
  /\ pc = "followup" /\ call = Nothing
  /\ recorded # {} /\ ~ FollowupResolved
  /\ baseline /\ terminal /\ settled
  /\ checked < Cardinality(recorded)
  /\ checked' = Cardinality(recorded)
  /\ proven' \in {FALSE, ~ late /\ \E s \in recorded : fate[s] = "consumed"}
  /\ timedOut' = (timedOut \/ late)
  /\ UNCHANGED <<pc, call, control, seen, recorded, baseline, cancelled, raised, final, exit,
                 published, late, host, faults>>

\* verify_steer_delivery, once for each number of corrections: fresh native
\* occurrences of every one, read before the deadline.
VerifyDelivery ==
  /\ pc = "followup" /\ call = Nothing
  /\ recorded # {} /\ ~ FollowupResolved
  /\ baseline /\ terminal /\ settled
  /\ checked < Cardinality(recorded)
  /\ checked' = Cardinality(recorded)
  /\ proven' \in {FALSE, ~ late /\ \A s \in recorded : fate[s] = "consumed"}
  /\ timedOut' = (timedOut \/ late)
  /\ UNCHANGED <<pc, call, control, seen, recorded, baseline, cancelled, raised, final, exit,
                 published, late, host, faults>>

\* A command that comes after the last look at the inbox is never taken.
Leave ==
  /\ pc = "followup" /\ call = Nothing /\ ~ cancelled
  /\ pending = {} \/ timedOut
  /\ pc' = "closing"

FollowupEnds ==
  /\ Leave
  /\ recorded = {} \/ FollowupResolved
  /\ UNCHANGED <<call, control, seen, steer, ruling, late, host, faults>>

\* A follow-up that started has until the deadline.
FollowupTimesOut ==
  /\ Leave
  /\ recorded # {} /\ ~ FollowupResolved
  /\ followup.started /\ late
  /\ timedOut' = TRUE
  /\ UNCHANGED <<call, control, seen, steer, cancelled, raised, final, exit, published, late,
                 host, faults>>

\* Mutant: silence is success.
FollowupSilent ==
  /\ Leave
  /\ recorded # {} /\ ~ FollowupResolved
  /\ ~ followup.started
  /\ UNCHANGED <<call, control, seen, steer, ruling, late, host, faults>>

\* Otherwise silence for 1.2 seconds leaves the outcome uncertain.
FollowupUncertain ==
  /\ Leave
  /\ recorded # {} /\ ~ FollowupResolved
  /\ ~ followup.started
  /\ final' = [status |-> "failed", error |-> "steer_outcome_uncertain"]
  /\ UNCHANGED <<call, control, seen, steer, cancelled, timedOut, raised, exit, published, late,
                 host, faults>>

CloseFails ==
  /\ pc = "closing" /\ ~ cancelled /\ recorded = {}
  /\ Fault
  /\ Raise
  /\ UNCHANGED <<control, seen, steer, cancelled, timedOut, final, exit, published, late, host>>

Verdict(s, e) == final' = [status |-> s, error |-> e]

Interrupted == cancelled \/ message = "interrupted"

\* Mutant: a turn that completed is a success, whatever else happened.
ClassifyByMessage ==
  /\ pc = "closing"
  /\ cancelled' = Interrupted
  /\ \/ message = "complete" /\ Verdict("completed", "none")
     \/ message # "complete" /\ timedOut /\ Verdict("timed_out", "timeout")
     \/ message # "complete" /\ ~ timedOut /\ Interrupted /\ Verdict("cancelled", "cancelled")
     \/ /\ message # "complete" /\ ~ timedOut /\ ~ Interrupted
        /\ Verdict("failed", "tui_turn_error")
  /\ pc' = "teardown"
  /\ UNCHANGED <<call, control, seen, steer, timedOut, raised, exit, published, late, host, faults>>

\* close_session, where it is called, changes nothing more; classify.
Classify ==
  /\ pc = "closing"
  /\ \/ timedOut /\ Verdict("timed_out", "timeout") /\ UNCHANGED cancelled
     \/ /\ ~ timedOut /\ Interrupted
        /\ cancelled' = TRUE /\ Verdict("cancelled", "cancelled")
     \/ /\ ~ timedOut /\ ~ Interrupted /\ UNCHANGED cancelled
        /\ \/ final.error = "steer_outcome_uncertain" /\ UNCHANGED final
           \/ /\ final.error # "steer_outcome_uncertain"
              /\ IF message = "complete" THEN Verdict("completed", "none")
                 ELSE Verdict("failed", "tui_turn_error")
  /\ pc' = "teardown"
  /\ UNCHANGED <<call, control, seen, steer, timedOut, raised, exit, published, late, host, faults>>

-----------------------------------------------------------------------------
(* teardown, record_error, publish                                          *)

\* record_error, after the teardown it follows.
Judge(f) ==
  final' = IF ~ raised THEN f
           ELSE IF cancelled THEN [status |-> "cancelled", error |-> "cancelled"]
           ELSE [status |-> "failed", error |-> "tui_transport_error"]

Reap ==
  /\ pc = "teardown" /\ process \in {"alive", "dead"}
  /\ process' = "reaped"
  /\ exit' \in {"zero", "nonzero"}
  /\ Judge(final)
  /\ pc' = "publishing"
  /\ UNCHANGED <<call, control, seen, steer, cancelled, timedOut, raised, published, late,
                 turn, fate, replied, wire, faults>>

\* The bounded close gives up; a reaper keeps the permit and the process.
ReapPending ==
  /\ pc = "teardown" /\ process = "alive"
  /\ Judge([status |-> "failed", error |-> "tui_reap_pending"])
  /\ pc' = "publishing"
  /\ UNCHANGED <<call, control, seen, steer, cancelled, timedOut, raised, exit, published, late,
                 host, faults>>

NoProcess ==
  /\ pc = "teardown" /\ process = "none"
  /\ Judge(final)
  /\ pc' = "publishing"
  /\ UNCHANGED <<call, control, seen, steer, cancelled, timedOut, raised, exit, published, late,
                 host, faults>>

\* Mutant: the gateway's exit is not looked at.
FinalBlind == final

\* The gateway's exit overrules a complete message.
Final ==
  IF timedOut \/ cancelled \/ exit = "zero" THEN final
  ELSE [status |-> "failed",
        error  |-> IF final.error = "none" THEN "tui_nonzero_exit" ELSE final.error]

\* build_result's execution_status.
ResultStatus ==
  IF timedOut THEN "timed_out" ELSE IF cancelled THEN "cancelled" ELSE Final.status

Delivery == IF recorded = {} THEN "none" ELSE IF proven THEN "delivered" ELSE "unknown"

\* A result that disagrees with the status is refused by publish_terminal_run;
\* the worker's handler publishes that refusal as the failure.
Publish ==
  /\ pc = "publishing"
  /\ published' =
       [status   |-> IF Final.status = ResultStatus THEN Final.status ELSE "failed",
        error    |-> IF Final.status = ResultStatus THEN Final.error ELSE "invalid_terminal_status",
        delivery |-> Delivery]
  /\ pc' = "done"
  /\ UNCHANGED <<call, control, seen, steer, cancelled, timedOut, raised, final, exit, late,
                 host, faults>>

-----------------------------------------------------------------------------
Coordinator ==
  \/ Start \/ StartFails \/ ReadEvent \/ DropLateReply \/ ReadFails
  \/ \E s \in Steers : \/ RejectSettled(s) \/ RejectLate(s) \/ SendSteer(s)
                       \/ TakeReply(s) \/ GiveUpSteer(s) \/ SteerFails(s)
  \/ Interrupt \/ AcceptCancel \/ CancelUnmarked \/ LeaveCancelled
  \/ TurnTimesOut \/ TurnEnds \/ VerifyDelivery
  \/ FollowupEnds \/ FollowupTimesOut \/ FollowupUncertain
  \/ CloseFails \/ Classify \/ Reap \/ ReapPending \/ NoProcess \/ Publish

Host ==
  \/ \E s \in Steers : HostQueues(s) \/ HostReplies(s)
  \/ HostConsumes \/ HostSettles \/ HostRequeues \/ GatewayDies
  \/ \E e \in Events : HostCompletes(e)

Next ==
  \/ Coordinator
  \/ Host
  \/ \E c \in Commands : CommandArrives(c)
  \/ DeadlinePasses

Spec == Init /\ [][Next]_vars

\* The coordinator runs and the clock advances; of the gateway nothing is asked,
\* and no failure is counted on.
FairSpec == Spec /\ WF_vars(Coordinator /\ UNCHANGED faults) /\ WF_vars(DeadlinePasses)

-----------------------------------------------------------------------------
(* Safety *)

\* What the inbox and the result say of a correction is true: an accepted one was
\* queued by the host, as the late reply of a call that was given up never answers
\* for another; a published delivery covers every correction that may have been
\* queued, those that came after a receipt check included.
ReceiptsAreTrue ==
  /\ \A s \in Steers : acks[s] = "accepted" => fate[s] \in {"queued", "consumed", "requeued"}
  /\ published.delivery = "delivered" => \A s \in recorded : fate[s] = "consumed"

\* A corrected run succeeds only when the host acted on at least one of its
\* corrections, in the turn or in one of its own: silence is no success.  Another
\* correction may still have come to nothing.
SilenceIsNoSuccess ==
  published.status = "completed" /\ recorded # {} =>
    \E s \in recorded : fate[s] \in {"consumed", "requeued"}

\* The verdict is earned: success needs a complete message, a gateway reaped with
\* exit code 0, no deadline, no exception and no accepted cancel on the way; and an
\* accepted cancel decides, unless the deadline had passed first or the gateway
\* could not be reaped.
VerdictIsEarned ==
  /\ published.status = "completed" =>
       /\ message = "complete" /\ exit = "zero" /\ process = "reaped"
       /\ ~ timedOut /\ ~ raised /\ acks[Cancel] # "accepted"
  /\ pc = "done" /\ acks[Cancel] = "accepted" /\ ~ timedOut /\ exit # "none" =>
       published.status = "cancelled"

(* Liveness *)

\* Every run is published, whatever the gateway does or fails to do.
EveryRunEnds == <>(pc = "done")

=============================================================================
