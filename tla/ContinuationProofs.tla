------------------------- MODULE ContinuationProofs -------------------------
(***************************************************************************)
(* Proofs about one run and about the conversation of several, for any     *)
(* sessions, envelopes, attempts and number of runs.  SimpleRun comes      *)
(* first: an accepted cancel is followed through the reports and the       *)
(* verdict by what the pc says of the child and of stop.  What a run keeps *)
(* every run of a conversation keeps; and the charter is kept because each *)
(* run takes it from one record, and leaves one.                           *)
(***************************************************************************)
EXTENDS Continuation, LineageProofs, TLAPS

-----------------------------------------------------------------------------
(* A simple run: what its Spec keeps.                                      *)

\* Where the child is, by what the runner is doing.
ChildOf ==
  /\ pc = "attempt" => child \in {"none", "reaped"}
  /\ pc = "looping" => child \in {"running", "exited"}
  /\ pc \in {"reporting", "deciding", "resting"} => child = "reaped"
  /\ pc \in {"publishing", "failing", "done"} => child \in {"none", "reaped"}

\* A cancel is accepted by a report, after the stop that it caused.
AcceptedBy ==
  cancel = "accepted" =>
    \/ pc \in {"deciding", "publishing"} /\ stop = "cancelled"
    \/ pc = "failing"
    \/ pc = "done" /\ (verdict = "cancelled" \/ (verdict = "failed" /\ faults > 0))

\* Only a failing write makes the handler publish.
FailingBy == pc = "failing" => faults > 0

\* What a rest follows.
RestingAfter ==
  pc = "resting" =>
    outcome = "transient" /\ stop = "exited" /\ ~ unsound /\ attempt <= MaxResumes

Inv == TypeOK /\ ChildOf /\ AcceptedBy /\ FailingBy /\ RestingAfter

LEMMA Initially == Init => Inv
<1> SUFFICES ASSUME Init PROVE Inv
  OBVIOUS
<1>1. attempt \in 1..MaxResumes + 1 /\ faults \in 0..MaxFaults
  BY ResumesAssumption, FaultsAssumption DEF Init
<1>2. TypeOK
  BY <1>1 DEF Init, TypeOK, Outcomes, StopReasons
<1>3. ChildOf /\ AcceptedBy /\ FailingBy /\ RestingAfter
  BY DEF Init, ChildOf, AcceptedBy, FailingBy, RestingAfter
<1> QED
  BY <1>2, <1>3 DEF Inv

\* Every action keeps types.
LEMMA TypeStep == Inv /\ [Next]_vars => TypeOK'
<1> SUFFICES ASSUME Inv, [Next]_vars PROVE TypeOK'
  OBVIOUS
<1> USE ResumesAssumption, FaultsAssumption
    DEF Inv, TypeOK, Outcomes, StopReasons, World, Process, Ruling, Fault
<1>0. /\ pipes' \in BOOLEAN /\ identity' \in BOOLEAN
      /\ expired' \in BOOLEAN /\ unsound' \in BOOLEAN
      /\ interrupt' \in BOOLEAN /\ late' \in BOOLEAN
  BY Zenon
  DEF Next, vars, Runner, Environment, CancelArrives, ParentInterrupts, DeadlinePasses,
      ChildExits, PipesClose, IdentityLost, StartChild, NoTimeLeft, CheckoutChanged,
      StartFails, StopInterrupted, StopCancelled, StopTimedOut, StopExited, Leave,
      RejectCancel, RejectFails, Reap, Report, ReportFails, StopTrying, Rest, Observed,
      RestInterrupted, RestCancelled, RestTimedOut, RestEnds, Resume, Publish,
      PublishFailure, Conclude
<1>1. CASE CancelArrives \/ ParentInterrupts \/ DeadlinePasses
  BY <1>0, <1>1 DEF CancelArrives, ParentInterrupts, DeadlinePasses
<1>2. CASE ChildExits \/ PipesClose \/ IdentityLost
  BY <1>0, <1>2 DEF ChildExits, PipesClose, IdentityLost
<1>3. CASE StartChild \/ NoTimeLeft \/ CheckoutChanged \/ StartFails
  BY <1>0, <1>3 DEF StartChild, NoTimeLeft, CheckoutChanged, StartFails
<1>4. CASE StopInterrupted \/ StopCancelled \/ StopTimedOut \/ StopExited
  BY <1>0, <1>4 DEF StopInterrupted, StopCancelled, StopTimedOut, StopExited, Leave
<1>5. CASE RejectCancel \/ RejectFails
  BY <1>0, <1>5 DEF RejectCancel, RejectFails
<1>6. CASE Reap
  BY <1>0, <1>6 DEF Reap
<1>7. CASE Report \/ ReportFails
  BY <1>0, <1>7 DEF Report, ReportFails
<1>8. CASE StopTrying \/ Rest
  BY <1>0, <1>8 DEF StopTrying, Rest, Observed
<1>9. CASE RestInterrupted \/ RestCancelled \/ RestTimedOut
  BY <1>0, <1>9 DEF RestInterrupted, RestCancelled, RestTimedOut, RestEnds
<1>10. CASE Resume
  BY <1>0, <1>10 DEF Resume, RestingAfter
<1>11. CASE Publish \/ PublishFailure
  BY <1>0, <1>11 DEF Publish, PublishFailure, Conclude
<1>12. CASE UNCHANGED vars
  BY <1>0, <1>12 DEF vars
<1> QED
  BY <1>1, <1>2, <1>3, <1>4, <1>5, <1>6, <1>7, <1>8, <1>9, <1>10, <1>11, <1>12
  DEF Next, Runner, Environment

\* Every action keeps the child where the pc says, and the reasons with it.
LEMMA RestStep ==
  Inv /\ [Next]_vars => (ChildOf /\ AcceptedBy /\ FailingBy /\ RestingAfter)'
<1> SUFFICES ASSUME Inv, [Next]_vars
             PROVE  (ChildOf /\ AcceptedBy /\ FailingBy /\ RestingAfter)'
  OBVIOUS
<1> USE ResumesAssumption, FaultsAssumption
    DEF Inv, TypeOK, ChildOf, AcceptedBy, FailingBy, RestingAfter,
        World, Process, Ruling, Fault
<1>1. CASE CancelArrives \/ ParentInterrupts \/ DeadlinePasses
  BY <1>1 DEF CancelArrives, ParentInterrupts, DeadlinePasses
<1>2. CASE ChildExits \/ PipesClose \/ IdentityLost
  BY <1>2 DEF ChildExits, PipesClose, IdentityLost
<1>3. CASE StartChild \/ NoTimeLeft \/ CheckoutChanged \/ StartFails
  BY <1>3 DEF StartChild, NoTimeLeft, CheckoutChanged, StartFails
<1>4. CASE StopInterrupted \/ StopCancelled \/ StopTimedOut \/ StopExited
  BY <1>4 DEF StopInterrupted, StopCancelled, StopTimedOut, StopExited, Leave
<1>5. CASE RejectCancel \/ RejectFails
  BY <1>5 DEF RejectCancel, RejectFails
<1>6. CASE Reap
  BY <1>6 DEF Reap
<1>7. CASE Report \/ ReportFails
  BY <1>7 DEF Report, ReportFails
<1>8. CASE StopTrying \/ Rest
  BY <1>8 DEF StopTrying, Rest, Observed, Transient
<1>9. CASE RestInterrupted \/ RestCancelled \/ RestTimedOut
  BY <1>9 DEF RestInterrupted, RestCancelled, RestTimedOut, RestEnds
<1>10. CASE Resume
  BY <1>10 DEF Resume
<1>11. CASE Publish \/ PublishFailure
  BY <1>11 DEF Publish, PublishFailure, Conclude, Stopped
<1>12. CASE UNCHANGED vars
  BY <1>12 DEF vars
<1> QED
  BY <1>1, <1>2, <1>3, <1>4, <1>5, <1>6, <1>7, <1>8, <1>9, <1>10, <1>11, <1>12
  DEF Next, Runner, Environment

\* What holds of a run in every state, whatever arrives, fails or expires.
THEOREM Invariance == Spec => []Inv
<1>1. Inv /\ [Next]_vars => Inv'
  BY TypeStep, RestStep DEF Inv
<1> QED
  BY <1>1, Initially, PTL DEF Spec

\* The invariant is about accepted cancels and reaped children.
LEMMA Consequences == Inv => AcceptedEndsCancelled /\ ReapedFirst
  BY DEF Inv, TypeOK, ChildOf, AcceptedBy, AcceptedEndsCancelled, ReapedFirst

\* An accepted cancel is the verdict of _execute_delegate_run, unless a write failed.
THEOREM CancelIsHonoured == Spec => []AcceptedEndsCancelled
  BY Invariance, Consequences, PTL

\* run_capped_subprocess reaps before anything is accepted, published or resumed.
THEOREM ReapsFirst == Spec => []ReapedFirst
  BY Invariance, Consequences, PTL

\* The attempt loop repeats work only after a transient failure.
THEOREM ResumesTransients == Spec => OnlyTransientsResume
<1>1. Inv /\ [Next]_vars =>
        [attempt' # attempt =>
           outcome = "transient" /\ stop = "exited" /\ child = "reaped" /\ ~ unsound]_vars
  <2> SUFFICES ASSUME Inv, Next, attempt' # attempt
               PROVE  outcome = "transient" /\ stop = "exited" /\ child = "reaped" /\ ~ unsound
    OBVIOUS
  <2>1. Resume
    BY DEF Next, Runner, Environment, CancelArrives, ParentInterrupts, DeadlinePasses,
       ChildExits, PipesClose, IdentityLost, StartChild, NoTimeLeft, CheckoutChanged,
       StartFails, StopInterrupted, StopCancelled, StopTimedOut, StopExited, Leave,
       RejectCancel, RejectFails, Reap, Report, ReportFails, StopTrying, Rest,
       RestInterrupted, RestCancelled, RestTimedOut, RestEnds, Publish, PublishFailure,
       Conclude
  <2> QED
    BY <2>1 DEF Resume, Inv, ChildOf, RestingAfter
<1> QED
  BY <1>1, Invariance, PTL DEF Spec, OnlyTransientsResume

-----------------------------------------------------------------------------
(* A conversation: what each of its runs keeps.                            *)

\* A step of the conversation is a step of its run, or another run's start.
LEMMA StepsOfRuns == KNext => [Next]_vars \/ Renew
<1> SUFFICES ASSUME KNext PROVE [Next]_vars \/ Renew
  OBVIOUS
<1>1. CASE Worker
  <2>1. CASE PersistIntent \/ GitAdds \/ Prepared \/ PrepareFails
    BY <2>1 DEF PersistIntent, GitAdds, Prepared, PrepareFails, Preparing
  <2>2. CASE BeginAttempt \/ RefuseAttempt
    BY <2>2 DEF BeginAttempt, RefuseAttempt, Within, Next, Runner
  <2>3. CASE Within(NoTimeLeft \/ StopInterrupted \/ StopCancelled \/ RejectCancel \/ StopTimedOut
            \/ StopExited \/ Reap \/ Report \/ RestInterrupted \/ RestCancelled
            \/ RestTimedOut \/ Resume)
    BY <2>3 DEF Within, Next, Runner
  <2>4. CASE \E f \in Footers : Decide(f)
    BY <2>4 DEF Decide, Next, Runner
  <2>5. CASE SimpleEnds
    BY <2>5 DEF SimpleEnds, Next, Runner
  <2>6. CASE TuiStarts \/ TuiFollows \/ TuiEnds
    BY <2>6 DEF TuiStarts, TuiFollows, TuiEnds, Outline
  <2> QED
    BY <1>1, <2>1, <2>2, <2>3, <2>4, <2>5, <2>6 DEF Worker
<1>2. CASE Mishaps
  BY <1>2 DEF Mishaps, Upsetting, PrepareIsLost, Preparing, Next, Runner
<1>3. CASE Surroundings
  BY <1>3 DEF Surroundings, Upsetting, Within, HostOpens, ChildCompresses, ChildBranches,
     TableIsBlurred, SessionStrays, CheckoutIsTouched, OperatorEdits, RecordIsDamaged,
     RecordIsPruned, Around, Kept, Next, Environment
<1>4. CASE Clock
  BY <1>4 DEF Clock, Within, Next, Environment
<1>5. CASE Callers
  BY <1>5 DEF Callers, AdmitNew, AdmitResume
<1> QED
  BY <1>1, <1>2, <1>3, <1>4, <1>5 DEF KNext

\* A new run starts where the first did.
LEMMA Renewed == Inv /\ Renew => Inv'
<1> SUFFICES ASSUME Inv, Renew PROVE Inv'
  OBVIOUS
<1>1. attempt' \in 1..MaxResumes + 1 /\ faults' \in 0..MaxFaults
  BY ResumesAssumption, FaultsAssumption DEF Renew, Inv, TypeOK
<1>2. TypeOK'
  BY <1>1 DEF Renew, TypeOK, Outcomes, StopReasons
<1>3. (ChildOf /\ AcceptedBy /\ FailingBy /\ RestingAfter)'
  BY DEF Renew, ChildOf, AcceptedBy, FailingBy, RestingAfter
<1> QED
  BY <1>2, <1>3 DEF Inv

\* Every step of a conversation keeps what a run keeps.
LEMMA RunsKeepOn == Inv /\ [KNext]_kvars => Inv'
<1> SUFFICES ASSUME Inv, [KNext]_kvars PROVE Inv'
  OBVIOUS
<1>1. CASE [Next]_vars
  BY <1>1, TypeStep, RestStep DEF Inv
<1>2. CASE Renew
  BY <1>2, Renewed
<1>3. CASE UNCHANGED kvars
  BY <1>1, <1>3 DEF kvars
<1> QED
  BY <1>1, <1>2, <1>3, StepsOfRuns

\* Every run of a conversation honours its cancel and reaps before it reports.
THEOREM RunsAreSimpleRuns == KSpec => [](AcceptedEndsCancelled /\ ReapedFirst)
<1>1. KInit => Inv
  BY Initially DEF KInit
<1> QED
  BY <1>1, RunsKeepOn, Consequences, PTL DEF KSpec

-----------------------------------------------------------------------------
(* What the conversation keeps.                                             *)

\* The history of the conversation, as far as a run's request is concerned.
account == <<records, request, charter, admitted, stage>>

Chartered(q) == [managed |-> q.managed, envelope |-> q.envelope] = charter

\* A record of a run that had its charter.
Faithful(r) ==
  \E q, c, f, w, l :
    /\ r = [request |-> q, child |-> c, failed |-> f, witnessed |-> w, lost |-> l]
    /\ Chartered(q)

\* The inductive invariant of the conversation.
KeepsCharter ==
  /\ charter.managed \in BOOLEAN
  /\ admitted \in Nat
  /\ \E S : records \in Seq(S) /\ \A r \in S : Faithful(r)
  /\ admitted = 0 => records = <<>> /\ stage = "idle"
  /\ admitted > 0 => Chartered(request)

LEMMA CharterInitially == KInit => KeepsCharter
<1> SUFFICES ASSUME KInit PROVE KeepsCharter
  OBVIOUS
<1>1. records \in Seq({}) /\ \A r \in {} : Faithful(r)
  BY DEF KInit
<1> QED
  BY <1>1 DEF KInit, KeepsCharter

\* Steps that are no concern of the account.
LEMMA AccountSteps ==
  ASSUME KNext
  PROVE  \/ UNCHANGED <<records, request, charter, admitted>> /\ stage # "idle"
         \/ UNCHANGED account
         \/ \E t \in {"simple", "tui"}, managed \in BOOLEAN : AdmitNew(t, managed)
         \/ \E t \in {"simple", "tui"}, s \in Known : AdmitResume(t, s)
         \/ \E c, f, w : Finish(c, f, w) /\ stage # "idle"
         \/ RecordIsDamaged
         \/ RecordIsPruned
<1>1. CASE Worker
  <2>1. CASE PersistIntent \/ GitAdds \/ Prepared
    BY <2>1 DEF PersistIntent, GitAdds, Prepared, Go, past
  <2>2. CASE PrepareFails
    BY <2>2 DEF PrepareFails
  <2>3. CASE BeginAttempt \/ RefuseAttempt
    BY <2>3 DEF BeginAttempt, RefuseAttempt, Within, local, past, account
  <2>4. CASE Within(NoTimeLeft \/ StopInterrupted \/ StopCancelled \/ RejectCancel \/ StopTimedOut
            \/ StopExited \/ Reap \/ Report \/ RestInterrupted \/ RestCancelled
            \/ RestTimedOut \/ Resume)
    BY <2>4 DEF Within, local, past, account
  <2>5. CASE \E f \in Footers : Decide(f)
    BY <2>5 DEF Decide, past, account
  <2>6. CASE SimpleEnds
    BY <2>6 DEF SimpleEnds, Simple
  <2>7. CASE TuiStarts \/ TuiFollows
    BY <2>7 DEF TuiStarts, TuiFollows, past, account
  <2>8. CASE TuiEnds
    BY <2>8 DEF TuiEnds, Tui
  <2> QED
    BY <1>1, <2>1, <2>2, <2>3, <2>4, <2>5, <2>6, <2>7, <2>8 DEF Worker
<1>2. CASE Mishaps
  BY <1>2 DEF Mishaps, Upsetting, PrepareIsLost, local, past, account
<1>3. CASE Surroundings
  BY <1>3 DEF Surroundings, Upsetting, Within, HostOpens, ChildCompresses, ChildBranches,
     TableIsBlurred, SessionStrays, CheckoutIsTouched, OperatorEdits, Around, local, past,
     account
<1>4. CASE Clock
  BY <1>4 DEF Clock, Within, local, past, account
<1>5. CASE Callers
  BY <1>5 DEF Callers
<1> QED
  BY <1>1, <1>2, <1>3, <1>4, <1>5 DEF KNext

\* A resume is granted the charter, by any record that speaks for its session.
LEMMA GrantedAsChartered ==
  ASSUME KeepsCharter, NEW s, Admissible(s)
  PROVE  /\ Retained(s) # {} <=> charter.managed
         /\ (CHOOSE e \in Envelopes(s) : TRUE) = charter.envelope
<1>1. \A r \in Runs : r.request.managed = charter.managed /\ r.request.envelope = charter.envelope
  <2>1. PICK S : records \in Seq(S) /\ \A r \in S : Faithful(r)
    BY DEF KeepsCharter
  <2>2. Runs \subseteq S
    BY <2>1 DEF Runs
  <2> QED
    BY <2>1, <2>2 DEF Faithful, Chartered
<1>2. PICK e : Envelopes(s) = {e}
  BY DEF Admissible
<1>3. PICK r \in Evidence(s) : e = r.request.envelope
  BY <1>2 DEF Envelopes
<1>4. Evidence(s) \subseteq Runs
  BY DEF Evidence
<1>5. Retained(s) # {} <=> charter.managed
  BY <1>1, <1>3, <1>4 DEF Retained, KeepsCharter
<1> QED
  BY <1>1, <1>2, <1>3, <1>4, <1>5

\* The record that a run leaves, a damaged one and a pruned one keep the charter.
LEMMA LedgerStep ==
  ASSUME KeepsCharter,
         \/ \E c, f, w : Finish(c, f, w) /\ stage # "idle"
         \/ RecordIsDamaged
         \/ RecordIsPruned
  PROVE  KeepsCharter'
<1>1. PICK S : records \in Seq(S) /\ \A r \in S : Faithful(r)
  BY DEF KeepsCharter
<1>2. ASSUME NEW T, records' \in Seq(T), \A r \in T : Faithful(r),
             admitted = 0 => records' = <<>> /\ stage' = "idle",
             charter' = charter, admitted' = admitted, request' = request
      PROVE  KeepsCharter'
  <2>1. \A r \in T : Faithful(r)'
    BY <1>2 DEF Faithful, Chartered
  <2> QED
    BY <1>2, <2>1 DEF KeepsCharter, Chartered
<1>3. ASSUME NEW c, NEW f, NEW w, Finish(c, f, w), stage # "idle"
      PROVE  KeepsCharter'
  <2> DEFINE r == [request |-> request, child |-> c, failed |-> f, witnessed |-> w,
                   lost |-> "nothing"]
  <2>1. admitted > 0
    BY <1>3 DEF KeepsCharter
  <2>2. Faithful(r)
    BY <2>1 DEF KeepsCharter, Faithful
  <2>3. records' \in Seq(S \cup {r})
    BY <1>1, <1>3 DEF Finish
  <2> QED
    BY <1>1, <1>2, <1>3, <2>1, <2>2, <2>3 DEF Finish
<1>4. CASE RecordIsDamaged
  <2>1. PICK n \in DOMAIN records, half \in {"request", "status"} :
          records' = [records EXCEPT ![n].lost = half]
    BY <1>4 DEF RecordIsDamaged
  <2> DEFINE r == [records[n] EXCEPT !.lost = half]
  <2>2. records[n] \in S
    BY <1>1, <2>1
  <2>3. Faithful(r)
    <3>1. PICK q, c, f, w, l :
            /\ records[n] = [request |-> q, child |-> c, failed |-> f, witnessed |-> w, lost |-> l]
            /\ Chartered(q)
      BY <1>1, <2>2 DEF Faithful
    <3>2. r = [request |-> q, child |-> c, failed |-> f, witnessed |-> w, lost |-> half]
      BY <3>1
    <3> QED
      BY <3>1, <3>2 DEF Faithful
  <2>4. records' = [records EXCEPT ![n] = r]
    BY <2>1
  <2>5. records' \in Seq(S \cup {r})
    BY <1>1, <2>1, <2>4
  <2>6. admitted > 0
    BY <1>1, <2>1 DEF KeepsCharter
  <2> QED
    BY <1>1, <1>2, <1>4, <2>3, <2>5, <2>6 DEF RecordIsDamaged, Kept, local
<1>5. CASE RecordIsPruned
  <2>1. records' \in Seq(S)
    BY <1>1, <1>5 DEF RecordIsPruned
  <2>2. admitted > 0
    BY <1>5 DEF KeepsCharter, RecordIsPruned
  <2> QED
    BY <1>1, <1>2, <1>5, <2>1, <2>2 DEF RecordIsPruned, Kept, local
<1> QED
  BY <1>3, <1>4, <1>5

LEMMA CharterStep == KeepsCharter /\ [KNext]_kvars => KeepsCharter'
<1> SUFFICES ASSUME KeepsCharter, [KNext]_kvars PROVE KeepsCharter'
  OBVIOUS
<1>1. ASSUME UNCHANGED <<records, charter>>, admitted' \in Nat, admitted' > 0, Chartered(request)'
      PROVE  KeepsCharter'
  BY <1>1 DEF KeepsCharter, Faithful, Chartered
<1>2. ASSUME NEW t, NEW managed \in BOOLEAN, AdmitNew(t, managed)
      PROVE  KeepsCharter'
  <2>1. records' = <<>> /\ admitted' = 1
    BY <1>2 DEF AdmitNew, Renew, KeepsCharter
  <2>2. Chartered(request)' /\ charter'.managed \in BOOLEAN
    BY <1>2 DEF AdmitNew, Chartered
  <2>3. records' \in Seq({}) /\ \A r \in {} : Faithful(r)'
    BY <2>1
  <2> QED
    BY <2>1, <2>2, <2>3 DEF KeepsCharter
<1>3. ASSUME NEW t, NEW s, AdmitResume(t, s)
      PROVE  KeepsCharter'
  <2>1. /\ Retained(s) # {} <=> charter.managed
        /\ (CHOOSE e \in Envelopes(s) : TRUE) = charter.envelope
    BY <1>3, GrantedAsChartered DEF AdmitResume
  <2>2. Chartered(request)'
    BY <1>3, <2>1 DEF AdmitResume, Chartered, KeepsCharter
  <2> QED
    BY <1>1, <1>3, <2>2 DEF AdmitResume, Renew, KeepsCharter
<1>4. CASE UNCHANGED <<records, request, charter, admitted>> /\ (stage' = stage \/ stage # "idle")
  BY <1>4 DEF KeepsCharter, Faithful, Chartered
<1> QED
  BY <1>2, <1>3, <1>4, LedgerStep, AccountSteps
  DEF kvars, past, local, account

\* Under whatever id a conversation is resumed, after whatever was damaged, pruned
\* or reconfigured, its runs have the checkout and the approval it was opened with.
THEOREM CharterKept == KSpec => []CharterIsKept
<1>1. KeepsCharter => CharterIsKept
  <2> SUFFICES ASSUME KeepsCharter PROVE CharterIsKept
    OBVIOUS
  <2>1. PICK S : records \in Seq(S) /\ \A r \in S : Faithful(r)
    BY DEF KeepsCharter
  <2>2. \A r \in Runs : Chartered(r.request)
    BY <2>1 DEF Runs, Faithful
  <2>3. admitted > 0 => \A r \in Runs \cup {[request |-> request]} : Chartered(r.request)
    BY <2>2 DEF KeepsCharter
  <2>4. \A s \in Known : Admissible(s) => (Retained(s) # {} <=> charter.managed)
    BY GrantedAsChartered
  <2> QED
    BY <2>3, <2>4 DEF CharterIsKept, Chartered
<1> QED
  BY <1>1, CharterInitially, CharterStep, PTL DEF KSpec

-----------------------------------------------------------------------------
(* What is on record of the checkout.                                       *)

Prepares == stage \in {"planning", "adding", "added"}

\* retained names what is, or may be, at the destination: from before Git is
\* asked, and as created before the run it was made for leaves a session.
NamesCheckout ==
  /\ admitted = 0 => checkout = "absent"
  /\ Prepares => records = <<>>
  /\ stage \in {"adding", "added"} => retained # "nothing"
  /\ checkout # "absent" => retained # "nothing"
  /\ stage = "running" /\ request.managed => retained = "created"
  /\ \A r \in Runs : r.child # None /\ r.request.managed => retained = "created"

Placed == KeepsCharter /\ NamesCheckout

LEMMA PlacedInitially == KInit => Placed
  BY CharterInitially DEF KInit, Placed, NamesCheckout, Prepares, Runs

\* The record that a run appends is one more.
LEMMA RunsAfterFinish ==
  ASSUME KeepsCharter, NEW c, NEW f, NEW w, Finish(c, f, w)
  PROVE  /\ \A r \in Runs' : r \in Runs \/ (r.child = c /\ r.request = request)
         /\ stage' = "idle" /\ admitted' = admitted /\ request' = request
<1>1. PICK S : records \in Seq(S)
  BY DEF KeepsCharter
<1> QED
  BY <1>1 DEF Finish, Runs

\* A run without a child speaks for no session.
LEMMA NoChildIsNoEvidence ==
  ASSUME NEW s, Admissible(s)
  PROVE  /\ \A r \in Retained(s) : r \in Runs /\ r.child # None /\ r.request.managed
         /\ Runs # {}
  BY DEF Admissible, Envelopes, Retained, Evidence, Names

LEMMA PlacedStep == Placed /\ [KNext]_kvars => Placed'
<1> SUFFICES ASSUME Placed, [KNext]_kvars PROVE NamesCheckout'
  BY CharterStep DEF Placed
<1> USE DEF Placed, NamesCheckout, Prepares
<1>1. ASSUME UNCHANGED <<stage, request, records, admitted, retained>>,
             checkout' # "absent" => checkout # "absent"
      PROVE  NamesCheckout'
  BY <1>1 DEF Runs
<1>2. CASE Worker
  <2>1. CASE PersistIntent
    BY <2>1 DEF PersistIntent, Go, past, Preparing, Runs, KeepsCharter
  <2>2. CASE GitAdds
    BY <2>2 DEF GitAdds, Go, past, Preparing, Runs, KeepsCharter
  <2>3. CASE Prepared
    BY <2>3 DEF Prepared, Seen, Go, past, Preparing, Runs, KeepsCharter
  <2>4. CASE PrepareFails
    <3>1. Runs = {}
      BY <2>4 DEF PrepareFails, Runs
    <3>2. \A r \in Runs' : r.child = None
      BY <2>4, <3>1, RunsAfterFinish DEF PrepareFails
    <3> QED
      BY <2>4, <3>2 DEF PrepareFails, Finish, Seen, Preparing, KeepsCharter
  <2>5. CASE BeginAttempt \/ RefuseAttempt
    BY <2>5, <1>1 DEF BeginAttempt, RefuseAttempt, Within, local, past, ground
  <2>6. CASE Within(NoTimeLeft \/ StopInterrupted \/ StopCancelled \/ RejectCancel \/ StopTimedOut
            \/ StopExited \/ Reap \/ Report \/ RestInterrupted \/ RestCancelled
            \/ RestTimedOut \/ Resume)
    BY <2>6, <1>1 DEF Within, local, past, ground
  <2>7. CASE \E f \in Footers : Decide(f)
    BY <2>7, <1>1 DEF Decide, past, ground
  <2>8. ASSUME NEW c, NEW f, NEW w, Finish(c, f, w), stage = "running",
               UNCHANGED <<retained, checkout>>
        PROVE  NamesCheckout'
    BY <2>8, RunsAfterFinish
  <2>9. CASE SimpleEnds
    BY <2>9, <2>8 DEF SimpleEnds, Simple, ground
  <2>10. CASE TuiStarts \/ TuiFollows
    BY <2>10, <1>1 DEF TuiStarts, TuiFollows, Outline, past, ground
  <2>11. CASE TuiEnds
    BY <2>11, <2>8 DEF TuiEnds, Tui, Outline, ground
  <2> QED
    BY <1>2, <2>1, <2>2, <2>3, <2>4, <2>5, <2>6, <2>7, <2>9, <2>10, <2>11 DEF Worker
<1>3. CASE Mishaps
  <2>1. CASE PrepareIsLost
    <3>1. Runs = {}
      BY <2>1 DEF PrepareIsLost, Runs
    <3>2. \A r \in Runs' : r.child = None
      BY <2>1, <3>1, RunsAfterFinish DEF PrepareIsLost
    <3> QED
      BY <2>1, <3>2 DEF PrepareIsLost, Finish, Preparing, KeepsCharter
  <2> QED
    BY <1>3, <2>1, <1>1 DEF Mishaps, Upsetting, local, past, ground
<1>4. CASE Surroundings
  <2>1. CASE RecordIsDamaged
    <3>1. PICK n \in DOMAIN records, half \in {"request", "status"} :
            records' = [records EXCEPT ![n].lost = half]
      BY <2>1 DEF RecordIsDamaged
    <3>2. PICK S : records \in Seq(S) /\ \A r \in S : Faithful(r)
      BY DEF KeepsCharter
    <3>3. \A k \in DOMAIN records : records'[k].child = records[k].child
                                    /\ records'[k].request = records[k].request
      <4>1. PICK q, c, f, w, l :
              records[n] = [request |-> q, child |-> c, failed |-> f, witnessed |-> w, lost |-> l]
        BY <3>1, <3>2 DEF Faithful
      <4> QED
        BY <3>1, <4>1
    <3>4. DOMAIN records' = DOMAIN records
      BY <3>1
    <3>5. \A r \in Runs' : r.child # None /\ r.request.managed => retained = "created"
      BY <3>3, <3>4 DEF Runs
    <3> QED
      BY <2>1, <3>5 DEF RecordIsDamaged, Kept, local, ground
  <2>2. CASE RecordIsPruned
    <3>1. PICK S : records \in Seq(S)
      BY DEF KeepsCharter
    <3>2. Runs' \subseteq Runs
      BY <2>2, <3>1 DEF RecordIsPruned, Runs
    <3> QED
      BY <2>2, <3>2 DEF RecordIsPruned, Kept, local, ground
  <2>3. CASE HostOpens \/ ChildCompresses \/ ChildBranches \/ TableIsBlurred \/ SessionStrays
    BY <2>3, <1>1 DEF HostOpens, ChildCompresses, ChildBranches, TableIsBlurred, SessionStrays,
       Around, local, past, ground
  <2>4. CASE CheckoutIsTouched \/ OperatorEdits
    BY <2>4, <1>1 DEF CheckoutIsTouched, OperatorEdits, Around, local, past
  <2>5. CASE Upsetting(ParentInterrupts \/ IdentityLost \/ (ChildExits /\ pipes'))
             \/ Within(CancelArrives \/ (ChildExits /\ ~ pipes') \/ PipesClose)
    BY <2>5, <1>1 DEF Upsetting, Within, local, past, ground
  <2> QED
    BY <1>4, <2>1, <2>2, <2>3, <2>4, <2>5 DEF Surroundings
<1>5. CASE Clock
  BY <1>5, <1>1 DEF Clock, Within, local, past, ground
<1>6. CASE Callers
  <2>1. ASSUME NEW t, NEW managed, AdmitNew(t, managed)
        PROVE  NamesCheckout'
    BY <2>1 DEF AdmitNew, Renew, KeepsCharter, ground, Runs
  <2>2. ASSUME NEW t, NEW s, AdmitResume(t, s)
        PROVE  NamesCheckout'
    <3>1. Retained(s) # {} => retained = "created"
      BY <2>2, NoChildIsNoEvidence DEF AdmitResume
    <3>2. Runs' = Runs
      BY <2>2 DEF AdmitResume, Runs
    <3>3. admitted > 0 /\ admitted' > 0
      BY <2>2, ContinuationAssumption DEF AdmitResume, Renew
    <3>4. /\ stage' = "running" /\ retained' = retained /\ checkout' = checkout
          /\ request'.managed => Retained(s) # {}
      BY <2>2 DEF AdmitResume, ground
    <3>5. \A r \in Runs' : r.child # None /\ r.request.managed => retained' = "created"
      BY <3>2, <3>4
    <3> QED
      BY <3>1, <3>3, <3>4, <3>5
  <2> QED
    BY <1>6, <2>1, <2>2 DEF Callers
<1>7. CASE UNCHANGED kvars
  BY <1>7, <1>1 DEF kvars, local, past, ground
<1> QED
  BY <1>2, <1>3, <1>4, <1>5, <1>6, <1>7 DEF KNext

\* worktrees.prepare leaves no checkout without a request on disk that names it, and
\* no managed run starts without one that was seen, whatever failed or was resumed.
THEOREM CheckoutRecorded == KSpec => []CheckoutIsOnRecord
<1>1. Placed => CheckoutIsOnRecord
  BY DEF Placed, NamesCheckout, CheckoutIsOnRecord
<1> QED
  BY <1>1, PlacedInitially, PlacedStep, PTL DEF KSpec

-----------------------------------------------------------------------------
(* Where the conversation goes.                                             *)

\* What happens to the session table in a conversation, all in its own lane.
Happening ==
  \/ Begin(Lane)
  \/ Compress(tip, Lane) \/ StartCompressing(tip) \/ Depart(tip, "branch")
  \/ \E s \in Known : Blur(s, db[s].mark)

LEMMA Happenings == [KNext]_kvars => Happening \/ UNCHANGED lineage
<1> SUFFICES ASSUME [KNext]_kvars PROVE Happening \/ UNCHANGED lineage
  OBVIOUS
<1>1. CASE Worker
  <2>1. CASE PersistIntent \/ GitAdds \/ Prepared \/ PrepareFails
    BY <2>1 DEF PersistIntent, GitAdds, Prepared, PrepareFails, Preparing
  <2>2. CASE BeginAttempt \/ RefuseAttempt
    BY <2>2 DEF BeginAttempt, RefuseAttempt, Within
  <2>3. CASE Within(NoTimeLeft \/ StopInterrupted \/ StopCancelled \/ RejectCancel \/ StopTimedOut
            \/ StopExited \/ Reap \/ Report \/ RestInterrupted \/ RestCancelled
            \/ RestTimedOut \/ Resume)
    BY <2>3 DEF Within
  <2>4. CASE \E f \in Footers : Decide(f)
    BY <2>4 DEF Decide
  <2>5. CASE SimpleEnds
    BY <2>5 DEF SimpleEnds
  <2>6. CASE TuiStarts \/ TuiFollows \/ TuiEnds
    BY <2>6 DEF TuiStarts, TuiFollows, TuiEnds, Happening
  <2> QED
    BY <1>1, <2>1, <2>2, <2>3, <2>4, <2>5, <2>6 DEF Worker
<1>2. CASE Mishaps
  BY <1>2 DEF Mishaps, Upsetting, PrepareIsLost, Preparing
<1>3. CASE Surroundings
  <2>1. CASE HostOpens \/ ChildCompresses \/ ChildBranches \/ TableIsBlurred
    BY <2>1 DEF HostOpens, ChildCompresses, ChildBranches, TableIsBlurred, Happening
  <2>2. CASE SessionStrays \/ CheckoutIsTouched \/ OperatorEdits
    BY <2>2 DEF SessionStrays, CheckoutIsTouched, OperatorEdits
  <2>3. CASE RecordIsDamaged \/ RecordIsPruned
    BY <2>3 DEF RecordIsDamaged, RecordIsPruned, Kept
  <2>4. CASE Upsetting(ParentInterrupts \/ IdentityLost \/ (ChildExits /\ pipes'))
             \/ Within(CancelArrives \/ (ChildExits /\ ~ pipes') \/ PipesClose)
    BY <2>4 DEF Upsetting, Within
  <2> QED
    BY <1>3, <2>1, <2>2, <2>3, <2>4 DEF Surroundings
<1>4. CASE Clock
  BY <1>4 DEF Clock, Within
<1>5. CASE Callers
  BY <1>5 DEF Callers, AdmitNew, AdmitResume
<1>6. CASE UNCHANGED kvars
  BY <1>6 DEF kvars
<1> QED
  BY <1>1, <1>2, <1>3, <1>4, <1>5, <1>6 DEF KNext

\* The session table changes as the host changes it, or not at all.
LEMMA HostSteps == LineageInv /\ [KNext]_kvars => HostStep \/ UNCHANGED lineage
<1> SUFFICES ASSUME LineageInv, Happening PROVE HostStep
  BY Happenings
<1>1. \A s \in Known : s \in Sessions
  BY DEF LineageInv, LineageTypeOK
<1>2. Lane \in Lanes
  BY ContinuationAssumption
<1>3. CASE Compress(tip, Lane)
  BY <1>1, <1>2, <1>3 DEF Compress, HostStep
<1>4. CASE StartCompressing(tip)
  BY <1>1, <1>4 DEF StartCompressing, HostStep
<1>5. CASE Depart(tip, "branch")
  <2>1. tip \in Sessions /\ "branch" \in Kinds
    BY <1>1, <1>5 DEF Depart, Kinds
  <2> QED
    BY <1>5, <2>1 DEF HostStep
<1> QED
  BY <1>2, <1>3, <1>4, <1>5 DEF Happening, HostStep

\* The table is kept as the host keeps it, in every conversation.
THEOREM TableKept == KSpec => []LineageInv
  BY TableInitially, HostSteps, HostKeeps, PTL DEF KSpec, KInit

\* compression_continuation accepts a later session of the same conversation only,
\* never a branch, a delegate or the past, in a table of any size.
THEOREM ProvenIsKept == KSpec => []ProvenIsTheConversation
  BY TableKept, ProvenFollows, PTL

\* The compressed tip of a session is a later session of its conversation.
LEMMA EffectiveFollows ==
  ASSUME LineageInv, NEW s \in Known
  PROVE  Effective(s) \in Known /\ Follows(s, Effective(s))
<1>1. PICK k \in 0..MaxSessions : Walk(s)[k] # 0 /\ Effective(s) = Walk(s)[k]
  BY WalkEnds DEF Effective
<1> QED
  BY <1>1, WalkFollows

\* A run keeps to its conversation if what it works in follows what it was asked for.
Keeps(s, c) == s # None /\ c # None => Follows(s, c)

\* The inductive invariant: what the run, its child and the records name is in the
\* table, and a resumed run knows its session from the start.
Course ==
  /\ {request.id, stable, observed, tip} \subseteq Known \cup {None}
  /\ request.id # None => stable # None
  /\ Keeps(request.id, stable) /\ Keeps(request.id, observed)
  /\ \A r \in Runs : /\ {r.request.id, r.child} \subseteq Known \cup {None}
                     /\ Keeps(r.request.id, r.child)

OnCourse == KeepsCharter /\ LineageInv /\ Course

LEMMA CourseInitially == KInit => OnCourse
<1> SUFFICES ASSUME KInit PROVE Course
  BY CharterInitially, TableInitially DEF KInit, OnCourse
<1> QED
  BY DEF KInit, Course, Runs, Keeps

\* What follows goes on following, as the table grows.
LEMMA KeepsOn ==
  ASSUME LineageInv, HostStep \/ UNCHANGED lineage,
         NEW s \in Known \cup {None}, NEW c \in Known \cup {None}, Keeps(s, c)
  PROVE  Keeps(s, c)'
  BY TableGrows DEF Keeps, Follows

\* A step that leaves the run and the records alone.
LEMMA SameCourse ==
  ASSUME OnCourse, HostStep \/ UNCHANGED lineage,
         UNCHANGED <<request, stable, observed, records>>, tip' \in Known' \cup {None}
  PROVE  Course'
<1>1. Known \subseteq Known'
  BY TableGrows DEF OnCourse
<1>2. Keeps(request.id, stable)' /\ Keeps(request.id, observed)'
  BY KeepsOn DEF OnCourse, Course, Keeps
<1>3. ASSUME NEW r \in Runs
      PROVE  /\ {r.request.id, r.child} \subseteq Known' \cup {None}
             /\ Keeps(r.request.id, r.child)'
  <2>1. /\ r.request.id \in Known \cup {None} /\ r.child \in Known \cup {None}
        /\ Keeps(r.request.id, r.child)
    BY <1>3 DEF OnCourse, Course
  <2> QED
    BY <1>1, <2>1, KeepsOn DEF OnCourse
<1>4. Runs' = Runs
  BY DEF Runs
<1> QED
  BY <1>1, <1>2, <1>3, <1>4 DEF OnCourse, Course

\* A run leaves a record of the session that it kept to, or of none.
LEMMA FinishedCourse ==
  ASSUME OnCourse, UNCHANGED lineage, NEW c \in Known \cup {None}, NEW f, NEW w, Finish(c, f, w),
         Keeps(request.id, c)
  PROVE  Course'
<1>1. \A r \in Runs' : r \in Runs \/ (r.child = c /\ r.request = request)
  BY RunsAfterFinish DEF OnCourse
<1>2. UNCHANGED <<request, stable, observed, tip>>
  BY DEF Finish
<1>3. Known' = Known /\ \A s, e : Keeps(s, e)' <=> Keeps(s, e)
  BY DEF lineage, Known, Keeps, Follows
<1> QED
  BY <1>1, <1>2, <1>3 DEF OnCourse, Course

\* Footers name the session or a proven continuation of it.
LEMMA ObservedCourse ==
  ASSUME OnCourse, NEW f \in Footers, Decide(f)
  PROVE  Course'
<1>1. /\ UNCHANGED <<request, tip, records>> /\ UNCHANGED lineage
      /\ Observe(f)
  BY DEF Decide, past
<1>2. Known' = Known /\ Runs' = Runs /\ \A s, e : Keeps(s, e)' <=> Keeps(s, e)
  BY <1>1 DEF lineage, Known, Runs, Keeps, Follows
<1>3. CASE f # None /\ ~ Mismatch(f)
  <2>1. f = tip /\ stable' = f /\ observed' = f
    BY <1>1, <1>3 DEF Observe, Footers, Mismatch
  <2>2. f \in Known
    BY <1>3, <2>1 DEF OnCourse, Course
  <2>3. CASE request.id # None
    <3>1. stable \in Known /\ request.id \in Known /\ Follows(request.id, stable)
      BY <2>3, KnownAreNumbers DEF OnCourse, Course, Keeps
    <3>2. Follows(stable, f)
      <4>1. CASE f = stable
        BY <3>1, <4>1, FollowsSelf DEF OnCourse
      <4>2. CASE f # stable
        <5>1. stable # None
          BY <2>3 DEF OnCourse, Course
        <5>2. Continues(stable, f, FALSE)
          BY <1>3, <4>2, <5>1 DEF Mismatch
        <5> QED
          BY <5>2, ContinuesFollows DEF OnCourse
      <4> QED
        BY <4>1, <4>2
    <3>3. Follows(request.id, f)
      BY <2>2, <3>1, <3>2, FollowsTransitive DEF OnCourse
    <3>4. request' = request /\ stable' = f /\ observed' = f /\ conversation' = conversation
      BY <1>1, <2>1 DEF lineage
    <3>5. Keeps(request.id, stable)' /\ Keeps(request.id, observed)'
      BY <3>3, <3>4 DEF Keeps, Follows
    <3> QED
      BY <1>1, <1>2, <1>3, <2>1, <2>2, <2>3, <3>5 DEF OnCourse, Course
  <2>4. CASE request.id = None
    BY <1>1, <1>2, <2>1, <2>2, <2>4 DEF OnCourse, Course, Keeps
  <2> QED
    BY <2>3, <2>4
<1>4. CASE f = None \/ Mismatch(f)
  <2>1. stable' = stable /\ observed' = observed
    BY <1>1, <1>4 DEF Observe
  <2> QED
    BY <1>1, <1>2, <2>1 DEF OnCourse, Course
<1> QED
  BY <1>3, <1>4

\* The child of an interactive run is bound to the session the host resumes, and
\* follows its proven continuations.
LEMMA TuiCourse ==
  ASSUME OnCourse, TuiStarts \/ TuiFollows
  PROVE  Course'
<1> USE SessionLineageAssumption
<1>0. LineageInv
  BY DEF OnCourse
<1>1. CASE TuiStarts /\ request.id = None
  <2>1. Begin(Lane) /\ tip' = Fresh /\ observed' = Fresh /\ UNCHANGED <<request, stable, records>>
    BY <1>1 DEF TuiStarts, past
  <2>2. HostStep
    BY <2>1, ContinuationAssumption DEF HostStep
  <2>3. Fresh \in Known'
    <3>1. DOMAIN db = Known /\ Insert(db, Opened(0, Lane, NoMark), Fresh)
      BY <2>1 DEF Begin, Known
    <3> QED
      BY <1>0, <3>1, Inserted
  <2>4. Known \subseteq Known'
    BY <1>0, <2>2, TableGrows
  <2>5. ASSUME NEW r \in Runs
        PROVE  /\ {r.request.id, r.child} \subseteq Known' \cup {None}
               /\ Keeps(r.request.id, r.child)'
    <3>1. /\ r.request.id \in Known \cup {None} /\ r.child \in Known \cup {None}
          /\ Keeps(r.request.id, r.child)
      BY <2>5 DEF OnCourse, Course
    <3> QED
      BY <1>0, <2>2, <2>4, <3>1, KeepsOn
  <2>6. Runs' = Runs
    BY <2>1 DEF Runs
  <2>7. stable \in Known \cup {None}
    BY DEF OnCourse, Course
  <2> QED
    BY <1>1, <2>1, <2>3, <2>4, <2>5, <2>6, <2>7 DEF Course, Keeps
<1>2. CASE TuiStarts /\ request.id # None
  <2>1. /\ UNCHANGED <<request, stable, records>> /\ UNCHANGED lineage
        /\ tip' = Effective(request.id) /\ observed' = tip'
    BY <1>2 DEF TuiStarts, past
  <2>2. request.id \in Known
    BY <1>2 DEF OnCourse, Course
  <2>3. observed' \in Known /\ Follows(request.id, observed')
    BY <1>0, <2>1, <2>2, EffectiveFollows
  <2>4. Known' = Known /\ Runs' = Runs /\ \A s, e : Keeps(s, e)' <=> Keeps(s, e)
    BY <2>1 DEF lineage, Known, Runs, Keeps, Follows
  <2>5. Keeps(request.id, observed')
    BY <2>3 DEF Keeps
  <2>6. PICK e : e = observed'
    OBVIOUS
  <2>7. Keeps(request.id, observed)'
    BY <2>1, <2>4, <2>5, <2>6 DEF Keeps, Follows, lineage
  <2> QED
    BY <2>1, <2>3, <2>4, <2>7 DEF OnCourse, Course
<1>3. CASE TuiFollows
  <2>1. /\ UNCHANGED <<request, stable, records, tip>> /\ UNCHANGED lineage
        /\ observed' = tip /\ observed # None /\ Continues(observed, tip, TRUE)
    BY <1>3 DEF TuiFollows, past
  <2>2. observed \in Known /\ tip \in Known /\ Follows(observed, tip)
    BY <1>0, <2>1, ContinuesFollows
  <2>3. Keeps(request.id, tip)
    <3>1. CASE request.id = None
      BY <3>1 DEF Keeps
    <3>2. CASE request.id # None
      <4>1. request.id \in Known /\ Follows(request.id, observed)
        BY <2>1, <3>2 DEF OnCourse, Course, Keeps
      <4>2. Follows(request.id, tip)
        BY <1>0, <2>2, <4>1, FollowsTransitive
      <4> QED
        BY <4>2 DEF Keeps
    <3> QED
      BY <3>1, <3>2
  <2>4. Known' = Known /\ Runs' = Runs /\ \A s, e : Keeps(s, e)' <=> Keeps(s, e)
    BY <2>1 DEF lineage, Known, Runs, Keeps, Follows
  <2>5. Keeps(request.id, observed)'
    BY <2>1, <2>3 DEF Keeps, Follows, lineage
  <2> QED
    BY <2>1, <2>2, <2>4, <2>5 DEF OnCourse, Course
<1> QED
  BY <1>1, <1>2, <1>3

\* A record that is damaged names what it named; a pruned one nothing.
LEMMA RecordsKeepCourse ==
  ASSUME OnCourse, RecordIsDamaged \/ RecordIsPruned
  PROVE  Course'
<1>1. /\ UNCHANGED <<request, stable, observed, tip>> /\ UNCHANGED lineage
  BY DEF RecordIsDamaged, RecordIsPruned, Kept, local
<1>2. \A r \in Runs' : \E o \in Runs : r.child = o.child /\ r.request = o.request
  <2>1. PICK S : records \in Seq(S) /\ \A r \in S : Faithful(r)
    BY DEF OnCourse, KeepsCharter
  <2>2. CASE RecordIsDamaged
    <3>1. PICK n \in DOMAIN records, half \in {"request", "status"} :
            records' = [records EXCEPT ![n].lost = half]
      BY <2>2 DEF RecordIsDamaged
    <3>2. \A k \in DOMAIN records : records'[k].child = records[k].child
                                    /\ records'[k].request = records[k].request
      <4>1. PICK q, c, f, w, l :
              records[n] = [request |-> q, child |-> c, failed |-> f, witnessed |-> w, lost |-> l]
        BY <2>1, <3>1 DEF Faithful
      <4> QED
        BY <3>1, <4>1
    <3>3. DOMAIN records' = DOMAIN records
      BY <3>1
    <3> QED
      BY <3>2, <3>3 DEF Runs
  <2>3. CASE RecordIsPruned
    <3>1. Runs' \subseteq Runs
      BY <2>1, <2>3 DEF RecordIsPruned, Runs
    <3> QED
      BY <3>1
  <2> QED
    BY <2>2, <2>3
<1>3. Known' = Known /\ \A s, e : Keeps(s, e)' <=> Keeps(s, e)
  BY <1>1 DEF lineage, Known, Keeps, Follows
<1> QED
  BY <1>1, <1>2, <1>3 DEF OnCourse, Course

LEMMA CourseStep == OnCourse /\ [KNext]_kvars => OnCourse'
<1> SUFFICES ASSUME OnCourse, [KNext]_kvars PROVE Course'
  BY CharterStep, HostSteps, HostKeeps DEF OnCourse
<1>0. HostStep \/ UNCHANGED lineage
  BY HostSteps DEF OnCourse
<1>1. ASSUME UNCHANGED <<request, stable, observed, records>>,
             tip' \in Known' \cup {None} \/ (tip' \in Known \cup {None} /\ UNCHANGED lineage) \/ tip' = tip
      PROVE  Course'
  <2>1. Known \subseteq Known'
    BY <1>0, TableGrows DEF OnCourse
  <2>2. tip \in Known \cup {None}
    BY DEF OnCourse, Course
  <2>3. tip' \in Known' \cup {None}
    BY <1>1, <2>1, <2>2 DEF lineage, Known
  <2> QED
    BY <1>0, <1>1, <2>3, SameCourse
<1>2. CASE Worker
  <2>1. CASE PersistIntent \/ GitAdds \/ Prepared
    BY <2>1, <1>1 DEF PersistIntent, GitAdds, Prepared, Go, past
  <2>2. CASE PrepareFails
    BY <2>2, FinishedCourse DEF PrepareFails, Preparing, Keeps
  <2>3. CASE BeginAttempt
    <3>1. ResumeId \in Known \cup {None}
      BY DEF OnCourse, Course, ResumeId
    <3>2. tip' \in Known \cup {None}
      BY <2>3, <3>1, EffectiveFollows DEF BeginAttempt, OnCourse
    <3> QED
      BY <2>3, <3>2, <1>1 DEF BeginAttempt, local, past
  <2>4. CASE RefuseAttempt
    BY <2>4, <1>1 DEF RefuseAttempt, Within, local, past
  <2>5. CASE Within(NoTimeLeft \/ StopInterrupted \/ StopCancelled \/ RejectCancel \/ StopTimedOut
            \/ StopExited \/ Reap \/ Report \/ RestInterrupted \/ RestCancelled
            \/ RestTimedOut \/ Resume)
    BY <2>5, <1>1 DEF Within, local, past
  <2>6. CASE \E f \in Footers : Decide(f)
    BY <2>6, ObservedCourse
  <2>7. CASE SimpleEnds
    <3>1. observed \in Known \cup {None} /\ Keeps(request.id, observed) /\ Keeps(request.id, None)
      BY DEF OnCourse, Course, Keeps
    <3> QED
      BY <2>7, <3>1, FinishedCourse DEF SimpleEnds
  <2>8. CASE TuiStarts \/ TuiFollows
    BY <2>8, TuiCourse
  <2>9. CASE TuiEnds
    <3>1. observed \in Known \cup {None} /\ Keeps(request.id, observed) /\ Keeps(request.id, None)
      BY DEF OnCourse, Course, Keeps
    <3> QED
      BY <2>9, <3>1, FinishedCourse DEF TuiEnds
  <2> QED
    BY <1>2, <2>1, <2>2, <2>3, <2>4, <2>5, <2>6, <2>7, <2>8, <2>9 DEF Worker
<1>3. CASE Mishaps
  <2>1. CASE PrepareIsLost
    BY <2>1, FinishedCourse DEF PrepareIsLost, Preparing, Keeps
  <2> QED
    BY <1>3, <2>1, <1>1 DEF Mishaps, Upsetting, local, past
<1>4. CASE Surroundings
  <2>1. ASSUME NEW table, NEW row, NEW of, DOMAIN table = Known, Insert(table, row, of)
        PROVE  Fresh \in Known'
    BY <2>1, Inserted DEF OnCourse
  <2>2. CASE HostOpens
    <3>1. Fresh \in Known'
      BY <2>1, <2>2 DEF HostOpens, Begin, Known
    <3> QED
      BY <2>2, <3>1, <1>1 DEF HostOpens, Around, local, past
  <2>3. CASE ChildCompresses
    <3>1. Compress(tip, Lane) => Fresh \in Known'
      <4>1. DOMAIN Marked(tip, "compression") = Known
        BY DEF OnCourse, LineageInv, LineageTypeOK, Marked
      <4> QED
        BY <2>1, <4>1 DEF Compress
    <3>2. tip' = tip \/ tip' \in Known'
      BY <2>3, <3>1 DEF ChildCompresses
    <3> QED
      BY <2>3, <3>2, <1>1 DEF ChildCompresses, Around, local, past
  <2>4. CASE ChildBranches
    <3>1. Fresh \in Known'
      BY <2>1, <2>4 DEF ChildBranches, Depart, Known
    <3> QED
      BY <2>4, <3>1, <1>1 DEF ChildBranches, Around, local, past
  <2>5. CASE TableIsBlurred \/ SessionStrays
    BY <2>5, <1>1 DEF TableIsBlurred, SessionStrays, Around, local, past
  <2>6. CASE CheckoutIsTouched \/ OperatorEdits
    BY <2>6, <1>1 DEF CheckoutIsTouched, OperatorEdits, Around, local, past
  <2>7. CASE RecordIsDamaged \/ RecordIsPruned
    BY <2>7, RecordsKeepCourse
  <2>8. CASE Upsetting(ParentInterrupts \/ IdentityLost \/ (ChildExits /\ pipes'))
             \/ Within(CancelArrives \/ (ChildExits /\ ~ pipes') \/ PipesClose)
    BY <2>8, <1>1 DEF Upsetting, Within, local, past
  <2> QED
    BY <1>4, <2>2, <2>3, <2>4, <2>5, <2>6, <2>7, <2>8 DEF Surroundings
<1>5. CASE Clock
  BY <1>5, <1>1 DEF Clock, Within, local, past
<1>6. CASE Callers
  <2>1. ASSUME NEW s \in Known \cup {None}, request'.id = s, stable' = s, observed' = None,
               tip' = None, records' = records, UNCHANGED lineage
        PROVE  Course'
    <3>1. Known' = Known /\ Runs' = Runs /\ \A q, e : Keeps(q, e)' <=> Keeps(q, e)
      BY <2>1 DEF lineage, Known, Runs, Keeps, Follows
    <3>2. Keeps(request.id, stable)'
      <4>1. s # None => Follows(s, s)
        BY FollowsSelf DEF OnCourse
      <4> QED
        BY <2>1, <4>1 DEF Keeps, Follows, lineage
    <3>3. Keeps(request.id, observed)'
      BY <2>1 DEF Keeps
    <3> QED
      BY <2>1, <3>1, <3>2, <3>3 DEF OnCourse, Course
  <2>2. ASSUME NEW t, NEW managed, AdmitNew(t, managed) PROVE Course'
    BY <2>1, <2>2 DEF AdmitNew, Renew
  <2>3. ASSUME NEW t, NEW s \in Known, AdmitResume(t, s) PROVE Course'
    BY <2>1, <2>3 DEF AdmitResume, Renew
  <2> QED
    BY <1>6, <2>2, <2>3 DEF Callers
<1>7. CASE UNCHANGED kvars
  BY <1>7, <1>1 DEF kvars, local, past
<1> QED
  BY <1>2, <1>3, <1>4, <1>5, <1>6, <1>7 DEF KNext

\* Every attempt of a resumed run, and what it records of itself, is in the session
\* it was asked for or in a later one of the same conversation.
THEOREM RunsKeepCourse == KSpec => []RunsKeepToTheConversation
<1>1. OnCourse => RunsKeepToTheConversation
  BY DEF OnCourse, Course, Keeps, RunsKeepToTheConversation
<1> QED
  BY <1>1, CourseInitially, CourseStep, PTL DEF KSpec

-----------------------------------------------------------------------------
(* The types of a conversation                                              *)

\* What Inv, LineageInv and Course leave open of them.
Furnished ==
  /\ stage \in {"idle", "planning", "adding", "added", "running"}
  /\ request \in Request
  /\ retained \in {"nothing", "planned", "unknown", "created"}
  /\ witnessed \in BOOLEAN
  /\ records \in Seq(Record)
  /\ checkout \in {"absent", "ours", "unfit"}
  /\ astray \subseteq Known
  /\ policy \in Policies /\ charter \in Grant
  /\ admitted \in 0..MaxRuns /\ upsets \in 0..MaxUpsets

LEMMA KnownAreIds == ASSUME LineageInv PROVE Known \cup {None} \subseteq Ids
  BY SessionLineageAssumption DEF LineageInv, LineageTypeOK, Sessions, Ids, None

LEMMA FurnishedInitially == KInit => Furnished
<1> SUFFICES ASSUME KInit PROVE Furnished
  OBVIOUS
<1>1. policy \in Policies
  BY ContinuationAssumption DEF KInit
<1>2. 0 \in Ids /\ 0 \in 0..MaxRuns /\ 0 \in 0..MaxUpsets
  BY ContinuationAssumption, SessionLineageAssumption DEF Ids
<1>3. request \in Request /\ charter \in Grant
  BY <1>1, <1>2 DEF KInit, Request, Grant, None
<1>4. records \in Seq(Record) /\ astray \subseteq Known
  BY DEF KInit
<1>5. /\ stage = "idle" /\ retained = "nothing" /\ witnessed = FALSE /\ checkout = "absent"
      /\ admitted = 0 /\ upsets = 0
  BY DEF KInit
<1> QED
  BY <1>1, <1>2, <1>3, <1>4, <1>5 DEF Furnished

\* A run leaves a proper record, and is over.
LEMMA FinishedRecord ==
  ASSUME Furnished, NEW c \in Ids, NEW f \in BOOLEAN, NEW w \in BOOLEAN, Finish(c, f, w)
  PROVE  /\ records' \in Seq(Record) /\ stage' = "idle"
         /\ UNCHANGED <<request, witnessed, charter, admitted>>
<1> DEFINE r == [request |-> request, child |-> c, failed |-> f, witnessed |-> w, lost |-> "nothing"]
<1>1. r \in Record
  BY DEF Furnished, Record
<1>2. records' = Append(records, r)
  BY DEF Finish
<1> QED
  BY <1>1, <1>2 DEF Finish, Furnished

\* A step that is no concern of the run's, but for an upset and a session gone astray.
LEMMA StaysFurnished ==
  ASSUME Furnished, Known \subseteq Known',
         UNCHANGED <<stage, request, retained, witnessed, records, checkout, policy, charter, admitted>>,
         astray' \subseteq astray \cup Known', upsets' = upsets \/ Upset
  PROVE  Furnished'
<1>1. upsets' \in 0..MaxUpsets
  BY ContinuationAssumption DEF Furnished, Upset
<1>2. astray' \subseteq Known'
  BY DEF Furnished
<1> QED
  BY <1>1, <1>2 DEF Furnished

LEMMA AdmissionFurnishes ==
  ASSUME Furnished, OnCourse, NEW t \in {"simple", "tui"},
         (\E managed \in BOOLEAN : AdmitNew(t, managed)) \/ (\E s \in Known : AdmitResume(t, s))
  PROVE  Furnished'
<1>0. Known \cup {None} \subseteq Ids
  BY KnownAreIds DEF OnCourse
<1>1. ASSUME NEW managed \in BOOLEAN, AdmitNew(t, managed) PROVE Furnished'
  <2>1. request' \in Request /\ charter' \in Grant
    BY <1>0, <1>1 DEF AdmitNew, Request, Grant, Furnished
  <2>2. admitted' \in 0..MaxRuns /\ witnessed' = FALSE
    BY <1>1, ContinuationAssumption DEF AdmitNew, Renew
  <2>3. stage' \in {"planning", "running"} /\ Known' = Known
    BY <1>1 DEF AdmitNew, lineage, Known
  <2> QED
    BY <1>1, <2>1, <2>2, <2>3 DEF AdmitNew, ground, Furnished
<1>2. ASSUME NEW s \in Known, AdmitResume(t, s) PROVE Furnished'
  <2>1. (CHOOSE e \in Envelopes(s) : TRUE) = charter.envelope /\ charter.envelope \in Policies
    BY <1>2, GrantedAsChartered DEF OnCourse, AdmitResume, Furnished, Grant
  <2>2. request' \in Request
    BY <1>0, <1>2, <2>1 DEF AdmitResume, Request
  <2>3. admitted' \in 0..MaxRuns /\ witnessed' = FALSE
    BY <1>2, ContinuationAssumption DEF AdmitResume, Renew
  <2>4. Known' = Known
    BY <1>2 DEF AdmitResume, lineage, Known
  <2> QED
    BY <1>2, <2>2, <2>3, <2>4 DEF AdmitResume, ground, Furnished
<1> QED
  BY <1>1, <1>2

LEMMA WorkerFurnishes == ASSUME Furnished, OnCourse, Worker \/ PrepareIsLost PROVE Furnished'
<1>0. Known \cup {None} \subseteq Ids /\ observed \in Ids /\ None \in Ids
  BY KnownAreIds DEF OnCourse, Course
<1>1. CASE PersistIntent \/ GitAdds \/ Prepared
  <2>1. UNCHANGED <<request, witnessed, records, charter, admitted, astray, policy, upsets>> /\ Known' = Known
    BY <1>1 DEF PersistIntent, GitAdds, Prepared, Go, Preparing, past, lineage, Known
  <2>2. /\ stage' \in {"adding", "added", "running"}
        /\ retained' \in {"nothing", "planned", "unknown", "created"}
        /\ checkout' \in {"absent", "ours", "unfit"}
    BY <1>1 DEF PersistIntent, GitAdds, Prepared, Go, Seen, Furnished
  <2> QED
    BY <2>1, <2>2 DEF Furnished
<1>2. ASSUME NEW c \in Ids, NEW f \in BOOLEAN, NEW w \in BOOLEAN, Finish(c, f, w),
             UNCHANGED <<lineage, checkout, astray, policy>>, upsets' = upsets \/ Upset,
             retained' \in {"nothing", "planned", "unknown", "created"}
      PROVE  Furnished'
  <2>1. /\ records' \in Seq(Record) /\ stage' = "idle"
        /\ UNCHANGED <<request, witnessed, charter, admitted>>
    BY <1>2, FinishedRecord
  <2>2. upsets' \in 0..MaxUpsets /\ Known' = Known
    BY <1>2, ContinuationAssumption DEF Furnished, Upset, lineage, Known
  <2> QED
    BY <1>2, <2>1, <2>2 DEF Furnished
<1>3. CASE PrepareFails \/ PrepareIsLost
  <2>1. /\ Finish(None, TRUE, FALSE) /\ UNCHANGED <<lineage, checkout, astray, policy>>
        /\ upsets' = upsets \/ Upset
        /\ retained' \in {"nothing", "planned", "unknown", "created"}
    BY <1>3 DEF PrepareFails, PrepareIsLost, Preparing, Seen, Furnished
  <2> QED
    BY <1>0, <1>2, <2>1
<1>4. CASE SimpleEnds \/ TuiEnds
  <2>1. UNCHANGED <<lineage, checkout, astray, policy, upsets, retained>>
    BY <1>4 DEF SimpleEnds, TuiEnds, Outline, ground
  <2>2. \E c \in Ids, f, w \in BOOLEAN : Finish(c, f, w)
    <3>1. CASE SimpleEnds
      <4>1. witnessed \in BOOLEAN /\ (verdict' # "completed") \in BOOLEAN
        BY DEF Furnished
      <4> QED
        BY <1>0, <3>1, <4>1, Zenon DEF SimpleEnds
    <3>2. CASE TuiEnds
      BY <1>0, <3>2, Zenon DEF TuiEnds
    <3> QED
      BY <1>4, <3>1, <3>2
  <2>3. retained \in {"nothing", "planned", "unknown", "created"}
    BY DEF Furnished
  <2> QED
    BY <1>2, <2>1, <2>2, <2>3
<1>5. CASE BeginAttempt \/ RefuseAttempt
           \/ Within(NoTimeLeft \/ StopInterrupted \/ StopCancelled \/ RejectCancel \/ StopTimedOut
                     \/ StopExited \/ Reap \/ Report \/ RestInterrupted \/ RestCancelled
                     \/ RestTimedOut \/ Resume)
  <2>1. /\ UNCHANGED <<stage, request, retained, witnessed, records, checkout, astray, policy, charter, admitted>>
        /\ UNCHANGED lineage /\ (upsets' = upsets \/ Upset)
    BY <1>5 DEF BeginAttempt, RefuseAttempt, Within, local, ground, past
  <2> QED
    BY <2>1, StaysFurnished DEF lineage, Known
<1>6. ASSUME NEW f \in Footers, Decide(f) PROVE Furnished'
  <2>1. UNCHANGED <<stage, request, retained, lineage, records, checkout, astray, policy, charter, admitted>>
    BY <1>6 DEF Decide, ground, past
  <2>2. upsets' \in 0..MaxUpsets
    BY <1>6, ContinuationAssumption DEF Decide, Upset, Furnished
  <2>3. witnessed' \in BOOLEAN
    BY <1>6, Zenon DEF Decide, Observe
  <2> QED
    BY <2>1, <2>2, <2>3 DEF Furnished, lineage, Known
<1>7. CASE TuiStarts \/ TuiFollows
  <2>1. UNCHANGED <<stage, request, retained, witnessed, records, checkout, astray, policy, charter, admitted, upsets>>
    BY <1>7 DEF TuiStarts, TuiFollows, Outline, ground, past
  <2>2. Known \subseteq Known'
    BY <1>7, HostSteps, TableGrows DEF OnCourse, KNext, Worker
  <2> QED
    BY <2>1, <2>2, StaysFurnished
<1> QED
  BY <1>1, <1>3, <1>4, <1>5, <1>6, <1>7 DEF Worker

LEMMA WorldFurnishes == ASSUME Furnished, OnCourse, Surroundings PROVE Furnished'
<1>0. Known \subseteq Known'
  BY HostSteps, TableGrows DEF OnCourse, KNext
<1>1. ASSUME NEW table, NEW row, NEW of, DOMAIN table = Known, Insert(table, row, of)
      PROVE  Fresh \in Known'
  BY <1>1, Inserted DEF OnCourse
<1>2. CASE HostOpens \/ TableIsBlurred \/ SessionStrays
  <2>1. /\ UNCHANGED <<stage, request, retained, witnessed, records, checkout, policy, charter, admitted>>
        /\ upsets' = upsets \/ Upset
        /\ astray' \subseteq astray \cup Known
    BY <1>2 DEF HostOpens, TableIsBlurred, SessionStrays, Around, local, past, ground
  <2> QED
    BY <1>0, <2>1, StaysFurnished
<1>3. CASE ChildCompresses \/ ChildBranches
  <2>1. /\ UNCHANGED <<stage, request, retained, witnessed, records, checkout, policy, charter, admitted>>
        /\ Upset
    BY <1>3 DEF ChildCompresses, ChildBranches, Around, local, past
  <2>2. Compress(tip, Lane) => Fresh \in Known'
    <3>1. DOMAIN Marked(tip, "compression") = Known
      BY DEF OnCourse, LineageInv, LineageTypeOK, Marked
    <3> QED
      BY <1>1, <3>1 DEF Compress
  <2>3. Depart(tip, "branch") => Fresh \in Known'
    BY <1>1 DEF Depart, Known
  <2>4. astray' \subseteq astray \cup Known'
    BY <1>3, <2>2, <2>3 DEF ChildCompresses, ChildBranches, Inherit
  <2> QED
    BY <1>0, <2>1, <2>4, StaysFurnished
<1>4. CASE CheckoutIsTouched \/ OperatorEdits
  <2>1. /\ UNCHANGED <<stage, request, retained, witnessed, records, charter, admitted, astray>>
        /\ Upset /\ Known' = Known
    BY <1>4 DEF CheckoutIsTouched, OperatorEdits, Around, local, past, lineage, Known
  <2>2. checkout' \in {"absent", "ours", "unfit"} /\ policy' \in Policies
    BY <1>4 DEF CheckoutIsTouched, OperatorEdits, Furnished
  <2>3. upsets' \in 0..MaxUpsets
    BY <2>1, ContinuationAssumption DEF Upset, Furnished
  <2> QED
    BY <2>1, <2>2, <2>3 DEF Furnished
<1>5. CASE RecordIsDamaged \/ RecordIsPruned
  <2>1. /\ UNCHANGED <<stage, request, retained, witnessed, charter, admitted, astray, checkout, policy>>
        /\ Upset /\ Known' = Known
    BY <1>5 DEF RecordIsDamaged, RecordIsPruned, Kept, local, ground, lineage, Known
  <2>2. upsets' \in 0..MaxUpsets
    BY <2>1, ContinuationAssumption DEF Upset, Furnished
  <2>3. records \in Seq(Record)
    BY DEF Furnished
  <2>4. CASE RecordIsDamaged
    <3>1. PICK n \in DOMAIN records, half \in {"request", "status"} :
            records' = [records EXCEPT ![n].lost = half]
      BY <2>4 DEF RecordIsDamaged
    <3> DEFINE r == [records[n] EXCEPT !.lost = half]
    <3>2. r \in Record
      <4>1. records[n] \in Record
        BY <2>3, <3>1
      <4>2. r = [request |-> records[n].request, child |-> records[n].child, failed |-> records[n].failed,
                 witnessed |-> records[n].witnessed, lost |-> half]
        BY <4>1 DEF Record
      <4>3. half \in {"nothing", "request", "status"}
        BY <3>1
      <4> HIDE DEF r
      <4> QED
        BY <4>1, <4>2, <4>3 DEF Record
    <3>3. records' = [records EXCEPT ![n] = r]
      BY <3>1
    <3>4. records' \in Seq(Record)
      BY <2>3, <3>1, <3>2, <3>3
    <3> QED
      BY <2>1, <2>2, <3>4 DEF Furnished
  <2>5. CASE RecordIsPruned
    <3>1. records' \in Seq(Record)
      BY <2>3, <2>5 DEF RecordIsPruned
    <3> QED
      BY <2>1, <2>2, <3>1 DEF Furnished
  <2> QED
    BY <1>5, <2>4, <2>5
<1>6. CASE Upsetting(ParentInterrupts \/ IdentityLost \/ (ChildExits /\ pipes'))
           \/ Within(CancelArrives \/ (ChildExits /\ ~ pipes') \/ PipesClose)
  <2>1. /\ UNCHANGED <<stage, request, retained, witnessed, records, checkout, astray, policy, charter, admitted>>
        /\ upsets' = upsets \/ Upset
    BY <1>6 DEF Upsetting, Within, local, past, ground
  <2> QED
    BY <1>0, <2>1, StaysFurnished
<1> QED
  BY <1>2, <1>3, <1>4, <1>5, <1>6 DEF Surroundings

LEMMA FurnishedStep == Furnished /\ OnCourse /\ [KNext]_kvars => Furnished'
<1> SUFFICES ASSUME Furnished, OnCourse, [KNext]_kvars PROVE Furnished'
  OBVIOUS
<1>1. CASE UNCHANGED kvars \/ Clock \/ Upsetting(RejectFails \/ ReportFails \/ (MayContinue(request, stable) /\ StartFails))
  <2>1. /\ UNCHANGED <<stage, request, retained, witnessed, records, checkout, astray, policy, charter, admitted>>
        /\ UNCHANGED lineage /\ (upsets' = upsets \/ Upset)
    BY <1>1 DEF kvars, Clock, Upsetting, Within, local, past, ground
  <2> QED
    BY <2>1, StaysFurnished DEF lineage, Known
<1> QED
  BY <1>1, WorkerFurnishes, WorldFurnishes, AdmissionFurnishes DEF KNext, Mishaps, Callers

\* The conversation, its runs and the records they leave keep to their types, within the
\* bounds on runs and upsets.
THEOREM ConversationTypesCorrect == KSpec => []ContinuationTypeOK
<1>1. KInit => Inv /\ OnCourse /\ Furnished
  BY Initially, CourseInitially, FurnishedInitially DEF KInit
<1>2. Inv /\ OnCourse /\ Furnished => ContinuationTypeOK
  <2> SUFFICES ASSUME Inv, OnCourse, Furnished PROVE ContinuationTypeOK
    OBVIOUS
  <2>1. TypeOK /\ LineageTypeOK
    BY DEF Inv, OnCourse, LineageInv
  <2>2. {stable, observed, tip} \subseteq Ids
    BY KnownAreIds DEF OnCourse, Course
  <2> QED
    BY <2>1, <2>2 DEF ContinuationTypeOK, Furnished
<1> QED
  BY <1>1, <1>2, RunsKeepOn, CourseStep, FurnishedStep, PTL DEF KSpec

-----------------------------------------------------------------------------
(* The conversation is not lost.                                            *)

\* One chain of sessions in one lane, and envelopes that the policy once had.
Unbroken ==
  /\ Chained
  /\ \A s \in Known : db[s].lane = Lane
  /\ policy \in Policies /\ charter.envelope \in Policies

Resumable == OnCourse /\ Unbroken

LEMMA UnbrokenInitially == KInit => Unbroken
<1> SUFFICES ASSUME KInit PROVE Unbroken
  OBVIOUS
<1>1. policy \in Policies
  BY ContinuationAssumption DEF KInit
<1>2. Chained
  BY ChainInitially DEF KInit
<1> QED
  BY <1>1, <1>2 DEF KInit, Unbroken, LineageInit, Known

\* Sessions stay in the lane.
LEMMA LaneStep ==
  ASSUME LineageInv, \A s \in Known : db[s].lane = Lane, Happening \/ UNCHANGED lineage
  PROVE  \A s \in Known' : db'[s].lane = Lane
<1>0. db \in [Known -> Row] /\ DOMAIN db = Known
  BY DEF LineageInv, LineageTypeOK
<1>1. ASSUME NEW table, DOMAIN table = Known, NEW row, NEW of, Insert(table, row, of),
             row.lane = Lane, \A s \in Known : table[s].lane = Lane
      PROVE  \A s \in Known' : db'[s].lane = Lane
  BY <1>1, Inserted
<1>2. CASE Begin(Lane)
  <2> DEFINE row == Opened(0, Lane, NoMark)
  <2>1. Insert(db, row, Fresh) /\ row.lane = Lane
    BY <1>2 DEF Begin, Opened
  <2> HIDE DEF row
  <2> QED
    BY <1>0, <1>1, <2>1
<1>3. CASE Compress(tip, Lane)
  <2> DEFINE table == Marked(tip, "compression")
             row == Opened(tip, Lane, db[tip].mark)
  <2>1. Insert(table, row, conversation[tip]) /\ row.lane = Lane
    BY <1>3 DEF Compress, Opened
  <2>2. DOMAIN table = Known /\ \A s \in Known : table[s].lane = Lane
    BY <1>0 DEF Marked, Row
  <2> HIDE DEF table, row
  <2> QED
    BY <1>1, <2>1, <2>2
<1>4. CASE StartCompressing(tip)
  <2>1. Known' = Known
    BY <1>0, <1>4 DEF StartCompressing, Marked, Known
  <2> QED
    BY <1>0, <1>4, <2>1 DEF StartCompressing, Marked, Row
<1>5. ASSUME NEW s \in Known, NEW mark, Insert(db, Opened(s, db[s].lane, mark), Fresh)
      PROVE  \A e \in Known' : db'[e].lane = Lane
  <2> DEFINE row == Opened(s, db[s].lane, mark)
  <2>1. row.lane = Lane /\ Insert(db, row, Fresh)
    BY <1>5 DEF Opened
  <2> HIDE DEF row
  <2> QED
    BY <1>0, <1>1, <2>1
<1>6. CASE Depart(tip, "branch")
  BY <1>5, <1>6 DEF Depart
<1>7. CASE \E s \in Known : Blur(s, db[s].mark)
  BY <1>5, <1>7 DEF Blur
<1>8. CASE UNCHANGED lineage
  BY <1>8 DEF lineage, Known
<1> QED
  BY <1>2, <1>3, <1>4, <1>6, <1>7, <1>8 DEF Happening

LEMMA PolicyStep ==
  ASSUME policy \in Policies, charter.envelope \in Policies, [KNext]_kvars
  PROVE  policy' \in Policies /\ charter'.envelope \in Policies
<1>1. CASE UNCHANGED <<policy, charter>>
  BY <1>1
<1>2. CASE OperatorEdits
  BY <1>2 DEF OperatorEdits, Around, past
<1>3. CASE \E t \in {"simple", "tui"}, managed \in BOOLEAN : AdmitNew(t, managed)
  BY <1>3 DEF AdmitNew, ground
<1>4. CASE Worker
  <2>1. CASE PersistIntent \/ GitAdds \/ Prepared \/ PrepareFails
    BY <1>1, <2>1
    DEF PersistIntent, GitAdds, Prepared, PrepareFails, Preparing, Go, Finish, past
  <2>2. CASE BeginAttempt \/ RefuseAttempt
    BY <1>1, <2>2 DEF BeginAttempt, RefuseAttempt, Within, past, ground
  <2>3. CASE Within(NoTimeLeft \/ StopInterrupted \/ StopCancelled \/ RejectCancel \/ StopTimedOut
            \/ StopExited \/ Reap \/ Report \/ RestInterrupted \/ RestCancelled
            \/ RestTimedOut \/ Resume)
    BY <1>1, <2>3 DEF Within, past, ground
  <2>4. CASE \E f \in Footers : Decide(f)
    BY <1>1, <2>4 DEF Decide, past, ground
  <2>5. CASE SimpleEnds
    BY <1>1, <2>5 DEF SimpleEnds, Finish, ground
  <2>6. CASE TuiStarts \/ TuiFollows
    BY <1>1, <2>6 DEF TuiStarts, TuiFollows, Outline, past, ground
  <2>7. CASE TuiEnds
    BY <1>1, <2>7 DEF TuiEnds, Outline, Finish, ground
  <2> QED
    BY <1>4, <2>1, <2>2, <2>3, <2>4, <2>5, <2>6, <2>7 DEF Worker
<1>5. CASE Mishaps
  BY <1>1, <1>5 DEF Mishaps, Upsetting, PrepareIsLost, Preparing, Finish, past, ground
<1>6. CASE Surroundings
  <2>1. CASE HostOpens \/ ChildCompresses \/ ChildBranches \/ TableIsBlurred
    BY <1>1, <2>1
    DEF HostOpens, ChildCompresses, ChildBranches, TableIsBlurred, Around, past, ground
  <2>2. CASE SessionStrays \/ CheckoutIsTouched
    BY <1>1, <2>2 DEF SessionStrays, CheckoutIsTouched, Around, past
  <2>3. CASE RecordIsDamaged \/ RecordIsPruned
    BY <1>1, <2>3 DEF RecordIsDamaged, RecordIsPruned, Kept, ground
  <2>4. CASE Upsetting(ParentInterrupts \/ IdentityLost \/ (ChildExits /\ pipes'))
             \/ Within(CancelArrives \/ (ChildExits /\ ~ pipes') \/ PipesClose)
    BY <1>1, <2>4 DEF Upsetting, Within, past, ground
  <2> QED
    BY <1>2, <1>6, <2>1, <2>2, <2>3, <2>4 DEF Surroundings
<1>7. CASE Clock
  BY <1>1, <1>7 DEF Clock, Within, past, ground
<1>8. CASE \E t \in {"simple", "tui"}, s \in Known : AdmitResume(t, s)
  BY <1>1, <1>8 DEF AdmitResume, ground
<1>9. CASE UNCHANGED kvars
  BY <1>1, <1>9 DEF kvars, past, ground
<1> QED
  BY <1>3, <1>4, <1>5, <1>6, <1>7, <1>8, <1>9 DEF KNext, Callers

LEMMA ResumableStep == Resumable /\ [KNext]_kvars => Resumable'
<1> SUFFICES ASSUME Resumable, [KNext]_kvars PROVE Unbroken'
  BY CourseStep DEF Resumable
<1>1. Chained'
  BY HostSteps, HostKeepsChain DEF Resumable, OnCourse, Unbroken
<1>2. \A s \in Known' : db'[s].lane = Lane
  BY Happenings, LaneStep DEF Resumable, OnCourse, Unbroken
<1>3. policy' \in Policies /\ charter'.envelope \in Policies
  BY PolicyStep DEF Resumable, Unbroken
<1> QED
  BY <1>1, <1>2, <1>3 DEF Unbroken

\* A record of the conversation speaks for every later session of it.
LEMMA ResumableAdmits == Resumable => ResumeStaysPossible
<1> SUFFICES ASSUME Resumable, NEW r \in Runs, NEW s \in Known, r.child # None,
                    Follows(r.child, s), Untroubled(s),
                    r.failed /\ s = r.request.id => r.witnessed
             PROVE  Admissible(s)
  BY DEF ResumeStaysPossible
<1>1. \A o \in Runs : o.lost = "nothing"
  BY DEF Untroubled
<1>2. \A o \in Runs : ~ Obscures(o, s)
  BY <1>1 DEF Obscures
<1>3. Names(r, s)
  <2>1. r.child \in Known
    BY DEF Resumable, OnCourse, Course
  <2>2. ASSUME s # r.child PROVE Continues(r.child, s, FALSE)
    <3>1. conversation[r.child] = conversation[s] /\ conversation[r.child] \notin blurred
      BY DEF Follows, Untroubled
    <3>2. \A k \in Known : conversation[k] = conversation[r.child] =>
            db[k].end # "compressing" /\ (FALSE \/ db[k].lane = db[r.child].lane)
      BY <2>1, <3>1 DEF Untroubled, Resumable, Unbroken
    <3> QED
      BY <2>1, <3>1, <3>2, FollowersContinue DEF Resumable, OnCourse, Unbroken
  <2> QED
    BY <1>1, <2>2 DEF Names
<1>4. \A o \in Runs : o.request.managed = charter.managed /\ o.request.envelope = charter.envelope
  <2>1. PICK S : records \in Seq(S) /\ \A o \in S : Faithful(o)
    BY DEF Resumable, OnCourse, KeepsCharter
  <2>2. Runs \subseteq S
    BY <2>1 DEF Runs
  <2> QED
    BY <2>1, <2>2 DEF Faithful, Chartered
<1>5. Envelopes(s) = {charter.envelope} /\ charter.envelope \in Policies
  BY <1>3, <1>4 DEF Envelopes, Evidence, Resumable, Unbroken
<1>6. Retained(s) # {} => Intact(s)
  BY <1>4 DEF Retained, Evidence, Untroubled, Intact
<1> QED
  BY <1>2, <1>5, <1>6 DEF Admissible

\* A session that a run recorded, and every session that continues it, stays
\* admissible to resume_native_approval and to before_continue.
THEOREM ResumeIsPossible == KSpec => []ResumeStaysPossible
<1>1. KInit => Resumable
  BY CourseInitially, UnbrokenInitially DEF Resumable
<1> QED
  BY <1>1, ResumableStep, ResumableAdmits, PTL DEF KSpec
=============================================================================
