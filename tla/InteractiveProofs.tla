------------------------- MODULE InteractiveProofs -------------------------
(***************************************************************************)
(* Proofs about InteractiveRun, for any corrections, any length of the     *)
(* pipe and any number of faults.  What the coordinator says of a          *)
(* correction is followed back through the reply in the pipe to what the   *)
(* host did with it, and the verdict through the places that set it.       *)
(***************************************************************************)
EXTENDS InteractiveRun, FiniteSetTheorems, TLAPS

\* The host took the correction up.
Taken == {"queued", "consumed", "requeued"}

Requeued == \E s \in Steers : fate[s] = "requeued"

Types == TypeOK /\ IsFiniteSet(recorded)

\* A command without an acknowledgement is in the inbox, the one under way too.
Commanding ==
  /\ \A c \in pending : acks[c] = "none"
  /\ call # Nothing => call \in pending /\ pc \in {"turn", "followup"}

\* What is said of a correction, and that none the host may have taken is forgotten.
FateOf(s) ==
  /\ acks[s] = "none" /\ call # s => fate[s] = "none"
  /\ acks[s] = "accepted" => fate[s] \in Taken
  /\ fate[s] \in {"sent"} \cup Taken => s \in recorded \/ call = s \/ raised

\* A frame in the pipe tells the truth.
Tells(f) ==
  /\ "event" \in DOMAIN f => (f.event = "start" => Requeued)
  /\ "reply" \in DOMAIN f => IF f.reply = "queued" THEN fate[f.to] \in Taken
                             ELSE fate[f.to] = "refused"

Telling == \A i \in 1 .. Len(wire) : Tells(wire[i])

\* The evidence that a correction was acted on.
Evidence ==
  /\ followup.started \/ followup.completed => Requeued
  /\ proven => \A s \in recorded : fate[s] = "consumed"

\* A corrected run leaves its turn for a success with evidence only.
Leaving ==
  /\ pc = "closing" /\ ~ cancelled /\ ~ timedOut /\ final.error # "steer_outcome_uncertain"
       /\ recorded # {} => proven \/ followup.completed
  /\ final.status = "completed" /\ recorded # {} => proven \/ followup.completed

\* The verdict at each place of the way out.
Judged ==
  /\ pc \in {"starting", "turn", "followup", "closing"} => final.status = "failed" /\ ~ raised
  /\ final.status = "completed" =>
       pc \in {"teardown", "publishing", "done"} /\ message = "complete" /\ ~ raised
  /\ pc = "teardown" /\ cancelled /\ ~ timedOut /\ ~ raised => final.status = "cancelled"
  /\ pc \in {"publishing", "done"} /\ cancelled /\ ~ timedOut /\ exit # "none" =>
       final.status = "cancelled"
  /\ exit # "none" => process = "reaped" /\ pc \in {"publishing", "done"}

\* An accepted cancel has marked the run.
Cancelling == call = Cancel \/ acks[Cancel] = "accepted" => cancelled

\* What is published is what was judged.
Published ==
  /\ pc = "done" =>
       /\ published.status = IF Final.status = ResultStatus THEN Final.status ELSE "failed"
       /\ published.delivery = Delivery
  /\ pc # "done" => published.status = "none" /\ published.delivery = "none"

Inv ==
  /\ Types /\ Commanding
  /\ \A s \in Steers : FateOf(s)
  /\ Telling /\ Evidence /\ Leaving /\ Judged /\ Cancelling /\ Published

-----------------------------------------------------------------------------
LEMMA Initially == Init => Inv
<1> SUFFICES ASSUME Init PROVE Inv
  OBVIOUS
<1>1. Types
  <2>1. wire \in Seq(Frames) /\ Len(wire) <= MaxWire /\ faults \in 0 .. MaxFaults
    BY WireAssumption DEF Init
  <2>2. IsFiniteSet(recorded) /\ checked \in 0 .. Cardinality(recorded)
    BY FS_EmptySet DEF Init
  <2>3. final \in [status : Statuses, error : Errors]
        /\ published \in [status : Statuses \cup {"none"}, error : Errors,
                          delivery : {"none", "unknown", "delivered"}]
    BY DEF Init, Statuses, Errors
  <2> QED
    BY <2>1, <2>2, <2>3 DEF Init, Types, TypeOK
<1>2. Commanding /\ (\A s \in Steers : FateOf(s)) /\ Telling /\ Evidence
  BY CommandsAssumption DEF Init, Commanding, FateOf, Telling, Evidence, Taken, Commands
<1>3. Leaving /\ Judged /\ Cancelling /\ Published
  BY CommandsAssumption DEF Init, Leaving, Judged, Cancelling, Published, Commands
<1> QED
  BY <1>1, <1>2, <1>3 DEF Inv

-----------------------------------------------------------------------------
(* Types.                                                                   *)

LEMMA FrameTypes ==
  ASSUME TypeOK, wire # <<>>
  PROVE  /\ Head(wire) = wire[1] /\ Head(wire) \in Frames
         /\ Tail(wire) \in Seq(Frames) /\ Len(Tail(wire)) = Len(wire) - 1
         /\ \A i \in 1 .. Len(Tail(wire)) : i + 1 \in 1 .. Len(wire) /\ Tail(wire)[i] = wire[i + 1]
  BY DEF TypeOK

\* Every frame is an event or a reply, never both.
LEMMA FrameKinds ==
  ASSUME NEW f \in Frames
  PROVE  /\ "event" \in DOMAIN f => f.event \in Events
         /\ "reply" \in DOMAIN f => f.reply \in {"queued", "refused"} /\ f.to \in Steers
  BY DEF Frames

LEMMA PutTypes ==
  ASSUME TypeOK, NEW f \in Frames, Put(f)
  PROVE  wire' \in Seq(Frames) /\ Len(wire') <= MaxWire
  BY WireAssumption DEF TypeOK, Put

\* What the host does keeps the types.
LEMMA HostTypes ==
  ASSUME Types, Host
  PROVE  Types'
<1> USE DEF Types, TypeOK, HostUnchanged, control, seen, steer, ruling
<1>1. CASE \E s \in Steers : HostQueues(s)
  BY <1>1 DEF HostQueues
<1>2. CASE \E s \in Steers : HostReplies(s)
  <2>1. PICK s \in Steers : HostReplies(s)
    BY <1>2
  <2>2. [reply |-> IF fate[s] = "refused" THEN "refused" ELSE "queued", to |-> s] \in Frames
    BY DEF Frames
  <2> QED
    BY <2>1, <2>2, PutTypes DEF HostReplies
<1>3. CASE \E e \in Events : HostCompletes(e)
  <2>1. PICK e \in Events : HostCompletes(e)
    BY <1>3
  <2>2. [event |-> e] \in Frames
    BY DEF Frames
  <2> QED
    BY <2>1, <2>2, PutTypes DEF HostCompletes
<1>4. CASE HostSettles
  <2>1. [event |-> "info"] \in Frames
    BY DEF Frames, Events
  <2> QED
    BY <1>4, <2>1, PutTypes DEF HostSettles
<1>5. CASE HostRequeues
  <2>1. [event |-> "start"] \in Frames
    BY DEF Frames, Events
  <2> QED
    BY <1>5, <2>1, PutTypes DEF HostRequeues, Become
<1>6. CASE HostConsumes \/ GatewayDies
  BY <1>6 DEF HostConsumes, GatewayDies, Become
<1> QED
  BY <1>1, <1>2, <1>3, <1>4, <1>5, <1>6 DEF Host

\* A correction that is recorded adds to what the receipts have to cover.
LEMMA RecordTypes ==
  ASSUME Types, NEW s \in Steers, Record(s), UNCHANGED checked
  PROVE  /\ recorded' \subseteq Steers /\ IsFiniteSet(recorded')
         /\ checked' \in 0 .. Cardinality(recorded') /\ proven' \in BOOLEAN
<1> DEFINE more == recorded \cup {s}
<1>1. IsFiniteSet(recorded) /\ checked \in 0 .. Cardinality(recorded) /\ recorded \subseteq Steers
  BY DEF Types, TypeOK
<1>2. Cardinality(recorded) \in Nat
  BY <1>1, FS_CardinalityType
<1>3. IsFiniteSet(more) /\ Cardinality(more) \in {Cardinality(recorded), Cardinality(recorded) + 1}
  BY <1>1, FS_AddElement
<1>4. recorded' = more /\ proven' \in BOOLEAN
  BY DEF Record
<1> QED
  BY <1>1, <1>2, <1>3, <1>4

LEMMA ReadingTypes ==
  ASSUME Types, ReadEvent \/ DropLateReply
  PROVE  Types'
<1>1. CASE ReadEvent
  <2>1. Head(wire) \in Frames /\ Head(wire).event \in Events
    BY <1>1, FrameTypes, FrameKinds DEF Types, ReadEvent
  <2>2. wire' \in Seq(Frames) /\ Len(wire') <= MaxWire
    BY <1>1, FrameTypes, WireAssumption DEF Types, TypeOK, ReadEvent
  <2>3. terminal' \in BOOLEAN
    BY <1>1, Zenon DEF Types, TypeOK, ReadEvent
  <2>4. settled' \in BOOLEAN
    BY <1>1, Zenon DEF Types, TypeOK, ReadEvent
  <2>5. followup' \in [started : BOOLEAN, completed : BOOLEAN]
    BY <1>1, Zenon DEF ReadEvent, Follows
  <2>6. message' \in {"none", "complete", "interrupted", "error"}
    BY <1>1, <2>1 DEF Types, TypeOK, ReadEvent, Events
  <2>7. UNCHANGED <<pc, call, control, steer, ruling, late, process, turn, fate, replied, faults>>
    BY <1>1 DEF ReadEvent
  <2> QED
    BY <2>2, <2>3, <2>4, <2>5, <2>6, <2>7 DEF Types, TypeOK, control, steer, ruling
<1>2. CASE DropLateReply
  <2>1. wire' \in Seq(Frames) /\ Len(wire') <= MaxWire
    BY <1>2, FrameTypes, WireAssumption DEF Types, TypeOK, DropLateReply
  <2> QED
    BY <1>2, <2>1 DEF Types, TypeOK, DropLateReply, control, seen, steer, ruling
<1> QED
  BY <1>1, <1>2

LEMMA FaultTypes ==
  ASSUME TypeOK, Broken \/ Fault
  PROVE  faults' \in 0 .. MaxFaults
  BY WireAssumption DEF TypeOK, Broken, Fault

LEMMA AckTypes ==
  ASSUME Types, NEW c \in Commands, NEW a \in {"accepted", "rejected", "delivery_unknown"},
         Ack(c, a)
  PROVE  /\ acks' \in [Commands -> {"none", "accepted", "rejected", "delivery_unknown"}]
         /\ pending' \subseteq Commands
  BY DEF Types, TypeOK, Ack

LEMMA CommandTypes ==
  ASSUME Types, NEW s \in Steers,
         RejectSettled(s) \/ RejectLate(s) \/ SendSteer(s) \/ TakeReply(s) \/ GiveUpSteer(s)
           \/ SteerFails(s)
  PROVE  Types'
<1> USE DEF Types, TypeOK, control, seen, steer, ruling, host
<1>0. s \in Commands
  BY DEF Commands
<1>1. CASE RejectSettled(s)
  BY <1>0, <1>1, AckTypes DEF RejectSettled
<1>2. CASE RejectLate(s)
  BY <1>0, <1>2, AckTypes DEF RejectLate, ReadBaseline
<1>3. CASE SendSteer(s)
  BY <1>3 DEF SendSteer, ReadBaseline
<1>4. CASE TakeReply(s)
  <2>1. wire' \in Seq(Frames) /\ Len(wire') <= MaxWire
    BY <1>4, FrameTypes, WireAssumption DEF TakeReply
  <2>2. /\ recorded' \subseteq Steers /\ IsFiniteSet(recorded')
        /\ checked' \in 0 .. Cardinality(recorded') /\ proven' \in BOOLEAN
    BY <1>4, RecordTypes DEF TakeReply
  <2>3. acks' \in [Commands -> {"none", "accepted", "rejected", "delivery_unknown"}]
        /\ pending' \subseteq Commands
    BY <1>0, <1>4, AckTypes DEF TakeReply
  <2> QED
    BY <1>4, <2>1, <2>2, <2>3 DEF TakeReply
<1>5. CASE GiveUpSteer(s)
  <2>1. /\ recorded' \subseteq Steers /\ IsFiniteSet(recorded')
        /\ checked' \in 0 .. Cardinality(recorded') /\ proven' \in BOOLEAN
    BY <1>5, RecordTypes DEF GiveUpSteer
  <2> QED
    BY <1>0, <1>5, <2>1, AckTypes DEF GiveUpSteer
<1>6. CASE SteerFails(s)
  BY <1>0, <1>6, AckTypes, FaultTypes DEF SteerFails, Raise
<1> QED
  BY <1>1, <1>2, <1>3, <1>4, <1>5, <1>6

LEMMA CancelTypes ==
  ASSUME Types, Interrupt \/ AcceptCancel \/ CancelUnmarked
  PROVE  Types'
<1> USE DEF Types, TypeOK, control, seen, steer, ruling, host
<1>0. Cancel \in Commands
  BY DEF Commands
<1>1. CASE Interrupt
  BY <1>0, <1>1 DEF Interrupt
<1>2. CASE AcceptCancel
  BY <1>0, <1>2, AckTypes DEF AcceptCancel
<1>3. CASE CancelUnmarked
  BY <1>0, <1>3, AckTypes, FaultTypes DEF CancelUnmarked
<1> QED
  BY <1>1, <1>2, <1>3

LEMMA CoordinatorTypes ==
  ASSUME Types, Coordinator
  PROVE  Types'
<1> USE DEF Types, TypeOK, control, seen, steer, ruling, host
<1>1. CASE Start
  BY <1>1 DEF Start
<1>12. CASE StartFails
  BY <1>12 DEF StartFails, Raise
<1>2. CASE ReadEvent \/ DropLateReply
  <2> HIDE DEF Types
  <2> QED
    BY <1>2, ReadingTypes
<1>3. CASE ReadFails
  BY <1>3, FaultTypes DEF ReadFails, Raise
<1>13. CASE CloseFails
  BY <1>13, FaultTypes DEF CloseFails, Raise
<1>4. ASSUME NEW s \in Steers,
             \/ RejectSettled(s) \/ RejectLate(s) \/ SendSteer(s)
             \/ TakeReply(s) \/ GiveUpSteer(s) \/ SteerFails(s)
      PROVE  Types'
  <2> HIDE DEF Types
  <2> QED
    BY <1>4, CommandTypes
<1>5. CASE Interrupt \/ AcceptCancel \/ CancelUnmarked
  <2> HIDE DEF Types
  <2> QED
    BY <1>5, CancelTypes
<1>6. CASE LeaveCancelled \/ TurnEnds \/ FollowupEnds
  BY <1>6 DEF LeaveCancelled, TurnEnds, FollowupEnds, Leave
<1>14. CASE TurnTimesOut
  BY <1>14 DEF TurnTimesOut
<1>15. CASE FollowupTimesOut
  BY <1>15 DEF FollowupTimesOut, Leave
<1>7. CASE VerifyDelivery
  <2>1. checked' \in 0 .. Cardinality(recorded')
    BY <1>7, FS_CardinalityType DEF VerifyDelivery
  <2>2. proven' \in BOOLEAN /\ timedOut' \in BOOLEAN
    BY <1>7, Zenon DEF VerifyDelivery
  <2> QED
    BY <1>7, <2>1, <2>2 DEF VerifyDelivery
<1>8. CASE FollowupUncertain
  BY <1>8 DEF FollowupUncertain, Leave, Statuses, Errors
<1>9. CASE Classify
  <2>1. final' \in [status : Statuses, error : Errors]
    BY <1>9 DEF Classify, Verdict, Statuses, Errors
  <2>2. cancelled' \in BOOLEAN
    BY <1>9 DEF Classify
  <2> QED
    BY <1>9, <2>1, <2>2 DEF Classify
<1>10. CASE Reap \/ ReapPending \/ NoProcess
  BY <1>10 DEF Reap, ReapPending, NoProcess, Judge, Statuses, Errors
<1>11. CASE Publish
  <2>1. Final \in [status : Statuses, error : Errors]
    BY DEF Final, Statuses, Errors
  <2>2. published' \in [status : Statuses \cup {"none"}, error : Errors,
                       delivery : {"none", "unknown", "delivered"}]
    BY <1>11, <2>1 DEF Publish, Delivery, Statuses, Errors
  <2> QED
    BY <1>11, <2>2 DEF Publish
<1> QED
  BY <1>1, <1>2, <1>3, <1>4, <1>5, <1>6, <1>7, <1>8, <1>9, <1>10, <1>11,
     <1>12, <1>13, <1>14, <1>15 DEF Coordinator

\* The inbox and the clock keep the types.
LEMMA TypeStep ==
  ASSUME Types, [Next]_vars
  PROVE  Types'
<1>1. CASE \E c \in Commands : CommandArrives(c)
  BY <1>1 DEF CommandArrives, Types, TypeOK, seen, steer, ruling, host
<1>2. CASE DeadlinePasses
  BY <1>2 DEF DeadlinePasses, Types, TypeOK, control, seen, steer, ruling, host
<1>3. CASE UNCHANGED vars
  BY <1>3 DEF vars, Types, TypeOK, control, seen, steer, ruling, host
<1> QED
  BY <1>1, <1>2, <1>3, HostTypes, CoordinatorTypes DEF Next

-----------------------------------------------------------------------------
(* What the host did with a correction, and what the pipe says of it.       *)

\* The host never takes back what it did.
Stands(s) ==
  /\ fate[s] \in Taken => fate'[s] \in Taken
  /\ fate[s] \in {"refused", "consumed", "requeued"} => fate'[s] = fate[s]
  /\ fate[s] = "none" /\ ~ SendSteer(s) => fate'[s] = "none"
  /\ fate'[s] = "none" => fate[s] = "none"

LEMMA FatesStand ==
  ASSUME Inv, [Next]_vars
  PROVE  \A s \in Steers : Stands(s)
<1> SUFFICES ASSUME NEW s \in Steers PROVE Stands(s)
  OBVIOUS
<1>0. fate \in [Steers -> {"none", "sent", "queued", "refused", "consumed", "requeued"}]
  BY DEF Inv, Types, TypeOK
<1>1. ASSUME NEW v \in Steers, HostQueues(v) PROVE Stands(s)
  BY <1>0, <1>1 DEF HostQueues, Stands, Taken
<1>2. CASE HostConsumes \/ HostRequeues
  BY <1>0, <1>2 DEF HostConsumes, HostRequeues, Become, Queued, Stands, Taken
<1>3. ASSUME NEW v \in Steers, SendSteer(v) PROVE Stands(s)
  <2>1. fate[v] = "none"
    BY <1>3, CommandsAssumption DEF Inv, Commanding, FateOf, SendSteer, Controlling, Commands
  <2> QED
    BY <1>0, <1>3, <2>1 DEF SendSteer, Stands, Taken
<1>4. CASE UNCHANGED fate
  BY <1>4 DEF Stands
<1>5. \/ \E v \in Steers : HostQueues(v) \/ SendSteer(v)
      \/ HostConsumes \/ HostRequeues
      \/ UNCHANGED fate
  BY DEF Next, vars, Coordinator, Host, HostReplies, HostCompletes, HostSettles, GatewayDies,
     CommandArrives, DeadlinePasses, Start, StartFails, ReadEvent, DropLateReply, ReadFails,
     RejectSettled, RejectLate, TakeReply, GiveUpSteer, SteerFails, Interrupt, AcceptCancel,
     CancelUnmarked, LeaveCancelled, TurnTimesOut, TurnEnds, VerifyDelivery, FollowupEnds,
     FollowupTimesOut, FollowupUncertain, CloseFails, Classify, Reap, ReapPending, NoProcess,
     Publish, host
<1> QED
  BY <1>1, <1>2, <1>3, <1>4, <1>5

\* The pipe grows at its end and is read from its front.
Pipe ==
  \/ \E f \in Frames : Put(f) /\ Tells(f)'
  \/ wire # <<>> /\ wire' = Tail(wire)
  \/ UNCHANGED wire

LEMMA Piped ==
  ASSUME Inv, [Next]_vars
  PROVE  Pipe
<1>0. TypeOK /\ (\A s \in Steers : Stands(s))
  BY FatesStand DEF Inv, Types
<1>1. ASSUME NEW s \in Steers, HostReplies(s) PROVE Pipe
  <2>1. PICK f \in Frames :
          /\ f = [reply |-> IF fate[s] = "refused" THEN "refused" ELSE "queued", to |-> s]
          /\ Put(f)
    BY <1>1 DEF Frames, HostReplies
  <2>2. fate' = fate /\ fate[s] \in Taken \cup {"refused"}
    BY <1>0, <1>1 DEF HostReplies, TypeOK, Taken
  <2>3. Tells(f)'
    BY <2>1, <2>2 DEF Tells, Taken
  <2> QED
    BY <2>1, <2>3 DEF Pipe
<1>2. ASSUME NEW e \in Events, HostCompletes(e) PROVE Pipe
  <2> DEFINE f == [event |-> e]
  <2>1. f \in Frames /\ Put(f) /\ e # "start"
    BY <1>2 DEF Frames, HostCompletes
  <2>2. Tells(f)'
    BY <2>1 DEF Tells
  <2> QED
    BY <2>1, <2>2 DEF Pipe
<1>3. CASE HostSettles
  <2> DEFINE f == [event |-> "info"]
  <2>1. f \in Frames /\ Put(f)
    BY <1>3 DEF Frames, Events, HostSettles
  <2>2. Tells(f)'
    BY DEF Tells
  <2> QED
    BY <2>1, <2>2 DEF Pipe
<1>4. CASE HostRequeues
  <2> DEFINE f == [event |-> "start"]
  <2>1. f \in Frames /\ Put(f)
    BY <1>4 DEF Frames, Events, HostRequeues
  <2>2. Requeued'
    BY <1>0, <1>4 DEF HostRequeues, Become, Queued, Requeued, TypeOK
  <2>3. Tells(f)'
    BY <2>2 DEF Tells
  <2> QED
    BY <2>1, <2>3 DEF Pipe
<1>5. CASE ReadEvent \/ DropLateReply \/ \E s \in Steers : TakeReply(s)
  BY <1>5 DEF ReadEvent, DropLateReply, TakeReply, Pipe
<1>6. CASE UNCHANGED wire
  BY <1>6 DEF Pipe
<1>7. \/ \E s \in Steers : HostReplies(s) \/ TakeReply(s)
      \/ \E e \in Events : HostCompletes(e)
      \/ HostSettles \/ HostRequeues \/ ReadEvent \/ DropLateReply
      \/ UNCHANGED wire
  BY DEF Next, vars, Coordinator, Host, HostQueues, HostConsumes, GatewayDies,
     CommandArrives, DeadlinePasses, Start, StartFails, ReadFails,
     RejectSettled, RejectLate, SendSteer, GiveUpSteer, SteerFails, Interrupt, AcceptCancel,
     CancelUnmarked, LeaveCancelled, TurnTimesOut, TurnEnds, VerifyDelivery, FollowupEnds,
     FollowupTimesOut, FollowupUncertain, CloseFails, Classify, Reap, ReapPending, NoProcess,
     Publish, host
<1> QED
  BY <1>1, <1>2, <1>3, <1>4, <1>5, <1>6, <1>7

\* What was true of a frame when it was put stays true until it is read.
LEMMA TellingStep ==
  ASSUME Inv, [Next]_vars
  PROVE  Telling'
<1>0. TypeOK /\ Telling
  BY DEF Inv, Types
<1>1. (\A s \in Steers : Stands(s)) /\ (Requeued => Requeued')
  BY FatesStand DEF Requeued, Stands
<1>2. \A f \in Frames : Tells(f) => Tells(f)'
  <2> SUFFICES ASSUME NEW f \in Frames, Tells(f) PROVE Tells(f)'
    OBVIOUS
  <2>1. "event" \in DOMAIN f => (f.event = "start" => Requeued')
    BY <1>1 DEF Tells
  <2>2. "reply" \in DOMAIN f => IF f.reply = "queued" THEN fate'[f.to] \in Taken
                                ELSE fate'[f.to] = "refused"
    BY <1>1, FrameKinds DEF Tells, Stands
  <2> QED
    BY <2>1, <2>2 DEF Tells
<1>3. \A i \in 1 .. Len(wire) : wire[i] \in Frames /\ Tells(wire[i])
  BY <1>0 DEF Telling, TypeOK
<1>4. SUFFICES ASSUME NEW i \in 1 .. Len(wire') PROVE wire'[i] \in Frames /\ Tells(wire[i])'
  BY DEF Telling
<1>5. (\E j \in 1 .. Len(wire) : wire'[i] = wire[j])
        \/ (\E f \in Frames : wire'[i] = f /\ Tells(f)')
  <2>1. CASE \E f \in Frames : Put(f) /\ Tells(f)'
    BY <1>0, <2>1 DEF Put, TypeOK
  <2>2. CASE wire # <<>> /\ wire' = Tail(wire)
    BY <1>0, <2>2, FrameTypes
  <2>3. CASE UNCHANGED wire
    BY <2>3
  <2> QED
    BY <2>1, <2>2, <2>3, Piped DEF Pipe
<1>6. CASE \E j \in 1 .. Len(wire) : wire'[i] = wire[j]
  <2>1. PICK j \in 1 .. Len(wire) : wire'[i] = wire[j]
    BY <1>6
  <2>2. PICK f \in Frames : f = wire[j] /\ Tells(f)
    BY <1>3, <2>1 DEF Tells
  <2> QED
    BY <1>2, <2>1, <2>2 DEF Tells
<1>7. CASE \E f \in Frames : wire'[i] = f /\ Tells(f)'
  BY <1>7 DEF Tells
<1> QED
  BY <1>5, <1>6, <1>7

LEMMA CommandingStep ==
  ASSUME Inv, [Next]_vars
  PROVE  Commanding'
<1> USE CommandsAssumption DEF Inv, Types, TypeOK, Commanding, Commands
<1>1. ASSUME NEW s \in Steers,
             \/ RejectSettled(s) \/ RejectLate(s) \/ SendSteer(s)
             \/ TakeReply(s) \/ GiveUpSteer(s) \/ SteerFails(s)
      PROVE  Commanding'
  BY <1>1 DEF RejectSettled, RejectLate, SendSteer, TakeReply, GiveUpSteer, SteerFails,
     Raise, Ack, Controlling, control
<1>2. CASE Interrupt \/ AcceptCancel \/ CancelUnmarked
  BY <1>2 DEF Interrupt, AcceptCancel, CancelUnmarked, Ack, Controlling, control
<1>3. CASE \E c \in Commands : CommandArrives(c)
  BY <1>3 DEF CommandArrives
<1>4. CASE UNCHANGED <<pending, acks, call>> /\ (pc' = pc \/ call = Nothing)
  BY <1>4
<1>5. CASE UNCHANGED <<pending, acks>> /\ call' = Nothing
  BY <1>5
<1>6. \/ \E s \in Steers : \/ RejectSettled(s) \/ RejectLate(s) \/ SendSteer(s)
                           \/ TakeReply(s) \/ GiveUpSteer(s) \/ SteerFails(s)
      \/ Interrupt \/ AcceptCancel \/ CancelUnmarked
      \/ \E c \in Commands : CommandArrives(c)
      \/ UNCHANGED <<pending, acks, call>> /\ (pc' = pc \/ call = Nothing)
      \/ UNCHANGED <<pending, acks>> /\ call' = Nothing
  BY DEF Next, vars, Coordinator, Host, HostQueues, HostReplies, HostConsumes, HostCompletes,
     HostSettles, HostRequeues, GatewayDies, HostUnchanged, DeadlinePasses, Start, StartFails,
     ReadEvent, DropLateReply, ReadFails, LeaveCancelled, TurnTimesOut, TurnEnds,
     VerifyDelivery, Leave, FollowupEnds, FollowupTimesOut, FollowupUncertain, CloseFails,
     Classify, Reap, ReapPending, NoProcess, Publish, Raise, control
<1> QED
  BY <1>1, <1>2, <1>3, <1>4, <1>5, <1>6

\* The reply that a call takes is true of the correction it sent.
LEMMA HeadTells ==
  ASSUME Inv, wire # <<>>
  PROVE  Head(wire) \in Frames /\ Tells(Head(wire))
BY FrameTypes DEF Inv, Types, TypeOK, Telling

LEMMA FateStep ==
  ASSUME Inv, [Next]_vars
  PROVE  \A s \in Steers : FateOf(s)'
<1> SUFFICES ASSUME NEW s \in Steers PROVE FateOf(s)'
  OBVIOUS
<1>0. /\ s \in Commands /\ s # Cancel /\ s # Nothing /\ Cancel # Nothing
      /\ FateOf(s) /\ Stands(s)
      /\ call \in Commands \cup {Nothing} /\ recorded \subseteq Steers
      /\ acks \in [Commands -> {"none", "accepted", "rejected", "delivery_unknown"}]
      /\ fate \in [Steers -> {"none", "sent", "queued", "refused", "consumed", "requeued"}]
  BY CommandsAssumption, FatesStand DEF Inv, Types, TypeOK, Commands
<1>8. \/ \E v \in Steers : \/ RejectSettled(v) \/ RejectLate(v) \/ SendSteer(v)
                           \/ TakeReply(v) \/ GiveUpSteer(v) \/ SteerFails(v)
      \/ Interrupt \/ AcceptCancel \/ CancelUnmarked
      \/ /\ UNCHANGED <<acks, recorded>> /\ (raised => raised')
         /\ call' = call \/ (call = Nothing /\ call' = Nothing)
         /\ \/ UNCHANGED fate
            \/ \E v \in Steers : HostQueues(v)
            \/ HostConsumes \/ HostRequeues
  <2>1. CASE Host
    <3>0. HostUnchanged
      BY <2>1 DEF Host, HostQueues, HostReplies, HostConsumes, HostCompletes, HostSettles,
         HostRequeues, GatewayDies
    <3>1. UNCHANGED <<acks, recorded, raised, call>>
      BY <3>0 DEF HostUnchanged, control, steer, ruling
    <3>2. \/ UNCHANGED fate
          \/ \E v \in Steers : HostQueues(v)
          \/ HostConsumes \/ HostRequeues
      BY <2>1 DEF Host, HostReplies, HostCompletes, HostSettles, GatewayDies
    <3> QED
      BY <3>1, <3>2
  <2>2. CASE StartFails \/ ReadFails \/ CloseFails
    <3>1. UNCHANGED control /\ UNCHANGED steer /\ UNCHANGED fate /\ Raise
      BY <2>2 DEF StartFails, ReadFails, CloseFails, host
    <3>2. call = Nothing
      BY <2>2 DEF Inv, Commanding, StartFails, ReadFails, CloseFails
    <3> QED
      BY <3>1, <3>2 DEF Raise, control, steer
  <2>3. CASE \/ Start \/ ReadEvent \/ DropLateReply \/ LeaveCancelled \/ TurnTimesOut \/ TurnEnds
             \/ VerifyDelivery \/ FollowupEnds \/ FollowupTimesOut \/ FollowupUncertain
             \/ Classify \/ Reap \/ ReapPending \/ NoProcess \/ Publish
    <3>1. UNCHANGED control /\ UNCHANGED recorded /\ UNCHANGED raised /\ UNCHANGED fate
      BY <2>3 DEF Start, ReadEvent, DropLateReply, LeaveCancelled, TurnTimesOut, TurnEnds,
         VerifyDelivery, FollowupEnds, FollowupTimesOut, FollowupUncertain, Classify,
         Reap, ReapPending, NoProcess, Publish, steer, ruling, host
    <3>2. UNCHANGED call
      BY <2>3 DEF Start, ReadEvent, DropLateReply, LeaveCancelled, TurnTimesOut, TurnEnds,
         VerifyDelivery, FollowupEnds, FollowupTimesOut, FollowupUncertain, Classify,
         Reap, ReapPending, NoProcess, Publish
    <3> QED
      BY <3>1, <3>2 DEF control
  <2>4. CASE (\E c \in Commands : CommandArrives(c)) \/ DeadlinePasses \/ UNCHANGED vars
    BY <2>4 DEF CommandArrives, DeadlinePasses, vars, control, steer, ruling, host
  <2> QED
    BY <2>1, <2>2, <2>3, <2>4 DEF Next, Coordinator
<1> USE <1>0 DEF FateOf, Stands, Taken, Commands
<1>1. ASSUME NEW v \in Steers, RejectSettled(v) \/ RejectLate(v) PROVE FateOf(s)'
  <2>1. acks[v] = "none" /\ call = Nothing
    BY <1>1 DEF Inv, Commanding, Controlling, RejectSettled, RejectLate
  <2>2. UNCHANGED <<call, fate, recorded, raised>> /\ Ack(v, "rejected")
    BY <1>1 DEF RejectSettled, RejectLate, steer, ruling, host
  <2> QED
    BY <2>1, <2>2 DEF Ack
<1>2. ASSUME NEW v \in Steers, SendSteer(v) PROVE FateOf(s)'
  <2>1. acks[v] = "none"
    BY <1>2 DEF Inv, Commanding, SendSteer
  <2> QED
    BY <1>2, <2>1 DEF SendSteer, Controlling, control, ruling
<1>3. ASSUME NEW v \in Steers, TakeReply(v) PROVE FateOf(s)'
  <2>1. CASE v = s
    <3>1. (Head(wire).reply = "queued" /\ fate[s] \in Taken) \/ fate[s] = "refused"
      BY <1>3, <2>1, HeadTells DEF TakeReply, Tells
    <3>2. CASE Head(wire).reply = "queued" /\ fate[s] \in Taken
      BY <1>3, <2>1, <3>2 DEF TakeReply, Ack, Record, ruling
    <3>3. CASE fate[s] = "refused"
      <4>1. Head(wire).reply # "queued"
        BY <1>3, <2>1, <3>3, HeadTells DEF TakeReply, Tells
      <4> QED
        BY <1>3, <2>1, <3>3, <4>1 DEF TakeReply, Ack, ruling
    <3> QED
      BY <3>1, <3>2, <3>3
  <2>2. CASE v # s
    BY <1>3, <2>2 DEF TakeReply, Ack, Record, ruling
  <2> QED
    BY <2>1, <2>2
<1>4. ASSUME NEW v \in Steers, GiveUpSteer(v) PROVE FateOf(s)'
  BY <1>4 DEF GiveUpSteer, Ack, Record, ruling, host
<1>5. ASSUME NEW v \in Steers, SteerFails(v) PROVE FateOf(s)'
  BY <1>5 DEF SteerFails, Ack, Raise, steer, host
<1>6. CASE Interrupt \/ AcceptCancel \/ CancelUnmarked
  <2>1. (call = s => call' = s) /\ (call' = s => call = s)
    BY <1>6 DEF Interrupt, AcceptCancel, CancelUnmarked, Controlling
  <2>2. UNCHANGED <<fate, recorded, raised>> /\ acks'[s] = acks[s]
    BY <1>6 DEF Interrupt, AcceptCancel, CancelUnmarked, Ack, control, steer, ruling, host
  <2> QED
    BY <2>1, <2>2
<1>7. ASSUME UNCHANGED <<acks, recorded>>, \A v \in Steers : ~ SendSteer(v), raised => raised',
             call' = call \/ (call = Nothing /\ call' = Nothing),
             \/ UNCHANGED fate
             \/ \E v \in Steers : HostQueues(v)
             \/ HostConsumes \/ HostRequeues
      PROVE  FateOf(s)'
  <2>1. fate'[s] \in {"sent"} \cup Taken => fate[s] \in {"sent"} \cup Taken
    BY <1>7 DEF HostQueues, HostConsumes, HostRequeues, Become, Queued
  <2> QED
    BY <1>7, <2>1
<1> QED
  BY <1>1, <1>2, <1>3, <1>4, <1>5, <1>6, <1>7, <1>8

-----------------------------------------------------------------------------
(* The evidence that a correction was acted on.                             *)

LEMMA EvidenceStep ==
  ASSUME Inv, [Next]_vars
  PROVE  Evidence'
<1>0. Evidence /\ (\A s \in Steers : Stands(s)) /\ recorded \subseteq Steers
  BY FatesStand DEF Inv, Types, TypeOK
<1>1. Requeued => Requeued'
  BY <1>0 DEF Requeued, Stands
<1>2. (followup.started \/ followup.completed => Requeued)'
  <2>1. CASE ReadEvent
    <3>1. Head(wire).event = "start" => Requeued
      BY <2>1, HeadTells DEF ReadEvent, Tells
    <3>2. followup' = Follows(Head(wire).event)
      BY <2>1 DEF ReadEvent
    <3> QED
      BY <1>0, <1>1, <3>1, <3>2, Zenon DEF Follows, Evidence
  <2>2. CASE UNCHANGED followup
    BY <1>0, <1>1, <2>2 DEF Evidence
  <2>3. ReadEvent \/ UNCHANGED followup
    BY DEF Next, vars, Coordinator, Host, HostQueues, HostReplies, HostConsumes, HostCompletes,
       HostSettles, HostRequeues, GatewayDies, HostUnchanged, CommandArrives, DeadlinePasses,
       Start, StartFails, DropLateReply, ReadFails, RejectSettled, RejectLate, SendSteer,
       TakeReply, GiveUpSteer, SteerFails, Interrupt, AcceptCancel, CancelUnmarked,
       LeaveCancelled, TurnTimesOut, TurnEnds, VerifyDelivery, FollowupEnds, FollowupTimesOut,
       FollowupUncertain, CloseFails, Classify, Reap, ReapPending, NoProcess, Publish, seen
  <2> QED
    BY <2>1, <2>2, <2>3
<1>3. (proven => \A s \in recorded : fate[s] = "consumed")'
  <2>1. CASE VerifyDelivery
    <3>1. proven' => \A s \in recorded : fate[s] = "consumed"
      BY <2>1, Zenon DEF VerifyDelivery
    <3>2. recorded' = recorded /\ fate' = fate
      BY <2>1 DEF VerifyDelivery, host
    <3> QED
      BY <3>1, <3>2
  <2>2. CASE ~ proven'
    BY <2>2
  <2>3. CASE UNCHANGED <<proven, recorded>>
    BY <1>0, <2>3 DEF Evidence, Stands
  <2>4. VerifyDelivery \/ ~ proven' \/ UNCHANGED <<proven, recorded>>
    BY DEF Next, vars, Coordinator, Host, HostQueues, HostReplies, HostConsumes, HostCompletes,
       HostSettles, HostRequeues, GatewayDies, HostUnchanged, CommandArrives, DeadlinePasses,
       Start, StartFails, ReadEvent, DropLateReply, ReadFails, RejectSettled, RejectLate,
       SendSteer, TakeReply, GiveUpSteer, SteerFails, Interrupt, AcceptCancel, CancelUnmarked,
       LeaveCancelled, TurnTimesOut, TurnEnds, FollowupEnds, FollowupTimesOut, Record,
       FollowupUncertain, CloseFails, Classify, Reap, ReapPending, NoProcess, Publish, steer
  <2> QED
    BY <2>1, <2>2, <2>3, <2>4
<1> QED
  BY <1>2, <1>3 DEF Evidence

\* Frames are read, and corrections recorded, before the run leaves its turn for good.
LEMMA WayOut ==
  ASSUME Inv, [Next]_vars, pc \notin {"turn", "followup"}
  PROVE  \/ pc = "closing" /\ recorded = {} /\ ReadEvent
         \/ UNCHANGED <<recorded, proven, followup, message, acks, call>>
<1>1. call = Nothing
  BY DEF Inv, Commanding
<1>2. CASE Host
  <2>1. HostUnchanged
    BY <1>2 DEF Host, HostQueues, HostReplies, HostConsumes, HostCompletes, HostSettles,
       HostRequeues, GatewayDies
  <2> QED
    BY <2>1 DEF HostUnchanged, control, seen, steer
<1>3. CASE ReadEvent
  BY <1>1, <1>3 DEF ReadEvent, Polling, Interrupting
<1>4. CASE StartFails \/ ReadFails \/ CloseFails
  <2>1. UNCHANGED control /\ UNCHANGED seen /\ UNCHANGED steer /\ call' = Nothing
    BY <1>4 DEF StartFails, ReadFails, CloseFails, Raise
  <2> QED
    BY <1>1, <2>1 DEF control, seen, steer
<1>5. CASE Start \/ DropLateReply \/ Classify \/ Reap \/ ReapPending \/ NoProcess \/ Publish
  <2>1. UNCHANGED control /\ UNCHANGED seen /\ UNCHANGED steer /\ UNCHANGED call
    BY <1>5 DEF Start, DropLateReply, Classify, Reap, ReapPending, NoProcess, Publish
  <2> QED
    BY <2>1 DEF control, seen, steer
<1>6. CASE (\E c \in Commands : CommandArrives(c)) \/ DeadlinePasses \/ UNCHANGED vars
  BY <1>6 DEF CommandArrives, DeadlinePasses, vars, control, seen, steer
<1> QED
  BY <1>1, <1>2, <1>3, <1>4, <1>5, <1>6, CommandsAssumption
  DEF Next, Coordinator, RejectSettled, RejectLate, SendSteer, TakeReply, GiveUpSteer, SteerFails,
      Interrupt, AcceptCancel, CancelUnmarked, Controlling, LeaveCancelled, TurnTimesOut,
      TurnEnds, VerifyDelivery, FollowupEnds, FollowupTimesOut, FollowupUncertain, Leave, Commands

\* The steps of the way out, from the end of the turn to the publication.
LEMMA Places ==
  ASSUME Inv, [Next]_vars
  PROVE  \/ UNCHANGED <<pc, cancelled, timedOut, raised, final, exit, process, published>>
         \/ /\ HostUnchanged /\ GatewayDies
         \/ Start \/ StartFails \/ ReadFails \/ (\E s \in Steers : RejectLate(s) \/ SteerFails(s))
         \/ Interrupt \/ CancelUnmarked \/ LeaveCancelled \/ TurnTimesOut \/ TurnEnds
         \/ VerifyDelivery \/ FollowupEnds \/ FollowupTimesOut \/ FollowupUncertain
         \/ CloseFails \/ Classify \/ Reap \/ ReapPending \/ NoProcess \/ Publish
BY DEF Next, vars, Coordinator, Host, HostQueues, HostReplies, HostConsumes, HostCompletes,
   HostSettles, HostRequeues, GatewayDies, HostUnchanged, CommandArrives, DeadlinePasses,
   ReadEvent, DropLateReply, RejectSettled, SendSteer, TakeReply, GiveUpSteer, AcceptCancel,
   ruling, host

LEMMA LeavingStep ==
  ASSUME Inv, [Next]_vars
  PROVE  Leaving'
<1> USE DEF Leaving
<1>0. Leaving /\ Judged /\ cancelled \in BOOLEAN /\ timedOut \in BOOLEAN
  BY DEF Inv, Types, TypeOK
<1>1. CASE FollowupEnds
  BY <1>0, <1>1 DEF FollowupEnds, Leave, FollowupResolved, Judged, steer, seen, ruling
<1>2. CASE FollowupTimesOut
  BY <1>0, <1>2 DEF FollowupTimesOut, Leave, Judged, steer, seen
<1>3. CASE FollowupUncertain
  BY <1>0, <1>3 DEF FollowupUncertain, Leave
<1>4. CASE LeaveCancelled
  BY <1>0, <1>4 DEF LeaveCancelled, Judged, ruling
<1>5. CASE Classify
  BY <1>0, <1>5 DEF Classify, Verdict, Interrupted, Judged, steer, seen
<1>6. CASE Reap \/ ReapPending \/ NoProcess
  BY <1>0, <1>6 DEF Reap, ReapPending, NoProcess, Judge, Judged, steer, seen
<1>7. CASE pc \in {"turn", "followup"} /\ final' = final /\ pc' # "closing"
  BY <1>0, <1>7 DEF Judged
<1>8. CASE /\ pc \notin {"turn", "followup"}
           /\ UNCHANGED <<final, cancelled, timedOut>>
           /\ pc' = "closing" => pc = "closing"
  <2>1. CASE recorded = {} /\ ReadEvent
    BY <2>1 DEF ReadEvent, steer
  <2>2. CASE UNCHANGED <<recorded, proven, followup, message, acks, call>>
    BY <1>0, <1>8, <2>2
  <2> QED
    BY <1>8, <2>1, <2>2, WayOut
<1>9. \/ FollowupEnds \/ FollowupTimesOut \/ FollowupUncertain \/ LeaveCancelled \/ Classify
      \/ Reap \/ ReapPending \/ NoProcess
      \/ pc \in {"turn", "followup"} /\ final' = final /\ pc' # "closing"
      \/ /\ pc \notin {"turn", "followup"}
         /\ UNCHANGED <<final, cancelled, timedOut>>
         /\ pc' = "closing" => pc = "closing"
  <2>1. CASE \/ UNCHANGED <<pc, cancelled, timedOut, raised, final, exit, process, published>>
             \/ HostUnchanged
    BY <2>1 DEF HostUnchanged, ruling
  <2>2. CASE \E s \in Steers : RejectLate(s) \/ SteerFails(s)
    BY <2>2, CommandsAssumption
    DEF RejectLate, SteerFails, Raise, Inv, Commanding, Controlling, Commands
  <2>3. CASE Interrupt \/ CancelUnmarked \/ TurnTimesOut \/ TurnEnds \/ VerifyDelivery
    BY <2>3 DEF Interrupt, CancelUnmarked, Controlling, TurnTimesOut, TurnEnds, VerifyDelivery,
       ruling
  <2>4. CASE Start \/ StartFails \/ ReadFails \/ CloseFails \/ Publish
    BY <2>4 DEF Start, StartFails, ReadFails, CloseFails, Raise, Publish, ruling
  <2> QED
    BY <2>1, <2>2, <2>3, <2>4, Places
<1> QED
  BY <1>1, <1>2, <1>3, <1>4, <1>5, <1>6, <1>7, <1>8, <1>9

LEMMA JudgedStep ==
  ASSUME Inv, [Next]_vars
  PROVE  Judged'
<1> USE DEF Judged
<1>0. Judged /\ Commanding /\ TypeOK
  BY DEF Inv, Types
<1>1. pc \in {"teardown", "publishing", "done"} => message' = message
  BY WayOut
<1>2. CASE UNCHANGED <<pc, cancelled, timedOut, raised, final, exit, process, published>>
  BY <1>0, <1>1, <1>2
<1>3. CASE HostUnchanged /\ GatewayDies
  BY <1>0, <1>3 DEF HostUnchanged, GatewayDies, HostAtWork, seen, ruling
<1>4. CASE Start \/ LeaveCancelled \/ TurnEnds \/ FollowupEnds
  BY <1>0, <1>4 DEF Start, LeaveCancelled, TurnEnds, FollowupEnds, Leave, ruling, host
<1>5. CASE StartFails
  BY <1>0, <1>5 DEF StartFails, Raise
<1>6. CASE ReadFails \/ CloseFails
  <2>1. pc \in {"turn", "followup", "closing"}
    BY <1>6 DEF ReadFails, CloseFails, Polling
  <2>2. Raise /\ UNCHANGED <<cancelled, timedOut, final, exit, process>>
    BY <1>6 DEF ReadFails, CloseFails, host
  <2> QED
    BY <1>0, <2>1, <2>2 DEF Raise
<1>7. ASSUME NEW s \in Steers, SteerFails(s) PROVE Judged'
  <2>1. pc \in {"turn", "followup"}
    BY <1>0, <1>7, CommandsAssumption DEF SteerFails, Commanding, Commands
  <2> QED
    BY <1>0, <1>7, <2>1 DEF SteerFails, Raise, host
<1>8. CASE \/ TurnTimesOut \/ FollowupTimesOut \/ VerifyDelivery
           \/ Interrupt \/ CancelUnmarked \/ (\E s \in Steers : RejectLate(s))
  <2>1. pc \in {"turn", "followup"} /\ pc' \in {"turn", "followup", "closing"}
    BY <1>8 DEF TurnTimesOut, FollowupTimesOut, Leave, VerifyDelivery, Interrupt,
       CancelUnmarked, RejectLate, Controlling
  <2>2. UNCHANGED <<raised, final, exit, process>>
    BY <1>8 DEF TurnTimesOut, FollowupTimesOut, VerifyDelivery, Interrupt,
       CancelUnmarked, RejectLate, host
  <2> QED
    BY <1>0, <2>1, <2>2
<1>9. CASE FollowupUncertain
  BY <1>0, <1>9 DEF FollowupUncertain, Leave, host
<1>10. CASE Classify
  BY <1>0, <1>10 DEF Classify, Verdict, Interrupted, seen, host
<1>11. CASE Reap
  BY <1>0, <1>11 DEF Reap, Judge, seen
<1>12. CASE ReapPending
  BY <1>0, <1>12 DEF ReapPending, Judge, seen, host
<1>13. CASE NoProcess
  BY <1>0, <1>13 DEF NoProcess, Judge, seen, host
<1>14. CASE Publish
  BY <1>0, <1>14 DEF Publish, seen, host
<1> QED
  BY <1>2, <1>3, <1>4, <1>5, <1>6, <1>7, <1>8, <1>9, <1>10, <1>11, <1>12, <1>13, <1>14, Places

LEMMA CancellingStep ==
  ASSUME Inv, [Next]_vars
  PROVE  Cancelling'
<1> USE DEF Cancelling
<1>0. Cancelling /\ Commanding /\ TypeOK /\ Cancel \in Commands /\ Cancel \notin Steers
      /\ Cancel # Nothing
  BY CommandsAssumption DEF Inv, Types, Commands
<1>1. cancelled => cancelled'
  BY <1>0, Places, Zenon
  DEF Start, StartFails, ReadFails, RejectLate, SteerFails, Interrupt, CancelUnmarked,
      LeaveCancelled, TurnTimesOut, TurnEnds, VerifyDelivery, FollowupEnds, FollowupTimesOut,
      FollowupUncertain, CloseFails, Classify, Reap, ReapPending, NoProcess, Publish,
      HostUnchanged, ruling
<1>2. call' \in {call, Nothing} \cup Steers \/ Interrupt
  BY DEF Next, vars, Coordinator, Host, HostQueues, HostReplies, HostConsumes, HostCompletes,
     HostSettles, HostRequeues, GatewayDies, HostUnchanged, CommandArrives, DeadlinePasses,
     Start, StartFails, ReadEvent, DropLateReply, ReadFails, RejectSettled, RejectLate, SendSteer,
     TakeReply, GiveUpSteer, SteerFails, AcceptCancel, CancelUnmarked, LeaveCancelled,
     TurnTimesOut, TurnEnds, VerifyDelivery, FollowupEnds, FollowupTimesOut, FollowupUncertain,
     CloseFails, Classify, Reap, ReapPending, NoProcess, Publish, Raise
<1>3. ASSUME NEW s \in Steers, NEW a \in {"accepted", "rejected", "delivery_unknown"}, Ack(s, a)
      PROVE  acks'[Cancel] = acks[Cancel]
  BY <1>0, <1>3 DEF Ack, TypeOK
<1>4. \/ UNCHANGED acks
      \/ \E s \in Steers, a \in {"accepted", "rejected", "delivery_unknown"} : Ack(s, a)
      \/ AcceptCancel \/ CancelUnmarked
  BY DEF Next, vars, Coordinator, Host, HostQueues, HostReplies, HostConsumes, HostCompletes,
     HostSettles, HostRequeues, GatewayDies, HostUnchanged, CommandArrives, DeadlinePasses,
     Start, StartFails, ReadEvent, DropLateReply, ReadFails, RejectSettled, RejectLate, SendSteer,
     TakeReply, GiveUpSteer, SteerFails, Interrupt, LeaveCancelled,
     TurnTimesOut, TurnEnds, VerifyDelivery, FollowupEnds, FollowupTimesOut, FollowupUncertain,
     CloseFails, Classify, Reap, ReapPending, NoProcess, Publish, control
<1>5. acks'[Cancel] = "accepted" => acks[Cancel] = "accepted" \/ call = Cancel
  BY <1>0, <1>3, <1>4 DEF AcceptCancel, CancelUnmarked, Ack, TypeOK
<1>6. call' = Cancel => call = Cancel \/ cancelled'
  BY <1>0, <1>2 DEF Interrupt
<1> QED
  BY <1>0, <1>1, <1>5, <1>6

\* A published run takes no further step.
LEMMA PublishedStep ==
  ASSUME Inv, [Next]_vars
  PROVE  Published'
<1> USE DEF Published
<1>0. Published /\ Judged /\ Commanding
  BY DEF Inv
<1>1. CASE Publish
  BY <1>1 DEF Publish, Final, ResultStatus, Delivery, steer
<1>2. CASE UNCHANGED vars
  BY <1>0, <1>2 DEF vars, Final, ResultStatus, Delivery, steer, ruling
<1>3. CASE Next /\ ~ Publish
  <2>1. pc # "done"
    BY <1>0, <1>3, CommandsAssumption
    DEF Next, Coordinator, Host, HostQueues, HostReplies, HostConsumes, HostCompletes, HostAtWork,
     HostSettles, HostRequeues, GatewayDies, CommandArrives, DeadlinePasses, Commanding, Commands,
     Start, StartFails, ReadEvent, DropLateReply, ReadFails, RejectSettled, RejectLate, SendSteer,
     TakeReply, GiveUpSteer, SteerFails, Interrupt, AcceptCancel, CancelUnmarked, LeaveCancelled,
     TurnTimesOut, TurnEnds, VerifyDelivery, FollowupEnds, FollowupTimesOut, FollowupUncertain,
     Leave, CloseFails, Classify, Reap, ReapPending, NoProcess, Polling, Interrupting, Controlling
  <2>2. UNCHANGED published /\ pc' # "done"
    BY <1>3, <2>1, Places
    DEF Start, StartFails, ReadFails, RejectLate, SteerFails, Interrupt, CancelUnmarked,
      LeaveCancelled, TurnTimesOut, TurnEnds, VerifyDelivery, FollowupEnds, FollowupTimesOut,
      FollowupUncertain, Leave, CloseFails, Classify, Reap, ReapPending, NoProcess,
      Raise, HostUnchanged, ruling
  <2> QED
    BY <1>0, <2>1, <2>2
<1> QED
  BY <1>1, <1>2, <1>3

-----------------------------------------------------------------------------
\* Of every run: the types, and what the coordinator knows at each place.
THEOREM Invariance == Spec => []Inv
<1>1. Inv /\ [Next]_vars => Inv'
  BY TypeStep, CommandingStep, FateStep, TellingStep, EvidenceStep, LeavingStep, JudgedStep,
     CancellingStep, PublishedStep DEF Inv
<1> QED
  BY <1>1, Initially, PTL DEF Spec

\* What the inbox and the result say of a correction is true.
THEOREM ReceiptsHold == Spec => []ReceiptsAreTrue
<1>1. Inv => ReceiptsAreTrue
  BY DEF Inv, FateOf, Taken, Evidence, Published, Delivery, ReceiptsAreTrue
<1> QED
  BY <1>1, Invariance, PTL

\* The follow-up of corrections (tui_runner.py): behind a completed run that was
\* corrected, the host has consumed or requeued at least one correction.
THEOREM SuccessFollowsACorrection == Spec => []SilenceIsNoSuccess
<1>1. Inv => SilenceIsNoSuccess
  <2> SUFFICES ASSUME Inv, published.status = "completed", recorded # {}
               PROVE  \E s \in recorded : fate[s] \in {"consumed", "requeued"}
    BY DEF SilenceIsNoSuccess
  <2>1. Final.status = "completed"
    BY DEF Inv, Published
  <2>2. final.status = "completed"
    BY <2>1 DEF Final
  <2>3. (\A s \in recorded : fate[s] = "consumed") \/ Requeued
    BY <2>2 DEF Inv, Leaving, Evidence
  <2>4. \A s \in Steers : fate[s] = "requeued" => s \in recorded
    BY <2>2, CommandsAssumption DEF Inv, FateOf, Taken, Judged, Commanding, Commands
  <2> QED
    BY <2>3, <2>4 DEF Requeued
<1> QED
  BY <1>1, Invariance, PTL

\* Success is earned, and an accepted cancel decides.
THEOREM VerdictsAreEarned == Spec => []VerdictIsEarned
<1>1. Inv => VerdictIsEarned
  <2> SUFFICES ASSUME Inv PROVE VerdictIsEarned
    OBVIOUS
  <2>1. ASSUME published.status = "completed"
        PROVE  /\ message = "complete" /\ exit = "zero" /\ process = "reaped"
               /\ ~ timedOut /\ ~ raised /\ acks[Cancel] # "accepted"
    <3>1. pc = "done" /\ Final.status = "completed" /\ ResultStatus = "completed"
      BY <2>1 DEF Inv, Published
    <3>2. ~ timedOut /\ ~ cancelled /\ exit = "zero" /\ final.status = "completed"
      BY <3>1 DEF Final, ResultStatus
    <3> QED
      BY <3>2 DEF Inv, Judged, Cancelling
  <2>2. ASSUME pc = "done", acks[Cancel] = "accepted", ~ timedOut, exit # "none"
        PROVE  published.status = "cancelled"
    BY <2>2 DEF Inv, Judged, Cancelling, Published, Final, ResultStatus
  <2> QED
    BY <2>1, <2>2 DEF VerdictIsEarned
<1> QED
  BY <1>1, Invariance, PTL
=============================================================================
