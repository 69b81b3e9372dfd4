---------------------------- MODULE Continuation ----------------------------
(***************************************************************************)
(* One delegated conversation over several runs: the first opens a session, *)
(* perhaps in a Git checkout prepared for it, and later ones resume it by   *)
(* an id that native compression may have given it since.  What the first   *)
(* run was given, its checkout and its frozen approval, is found again in   *)
(* the records of the runs directory.  A run is a SimpleRun, whose attempts *)
(* and footers are played out here, or an interactive one in outline.       *)
(***************************************************************************)
EXTENDS SimpleRun, SessionLineage, Sequences

CONSTANTS
  Lane,       \* the lane of every session: a CLI child has none of its own
  Policies,   \* approval envelopes
  MaxRuns,    \* runs of the conversation
  MaxUpsets   \* bound on what the world does to a run or to its session

ASSUME ContinuationAssumption ==
  /\ Lane \in Lanes /\ Policies # {}
  /\ MaxRuns \in Nat /\ MaxUpsets \in Nat

VARIABLES
  stage,     \* what the current run is doing; "idle" between runs
  request,   \* its request
  retained,  \* preparation_state of the workspace, as request.json has it
  stable,    \* stable_session_id
  observed,  \* observed_session_id; child_session_id of an interactive run
  witnessed, \* recovery_history has a clean exit in the requested session
  records,   \* the runs that are over, as the runs directory has them
  tip,       \* the session the child is in
  checkout,  \* what is at the destination of the workspace
  astray,    \* sessions whose native cwd is another directory
  policy,    \* what the operator's configuration grants today
  charter,   \* history: what the conversation was opened with
  admitted,  \* runs admitted so far
  upsets     \* against MaxUpsets

local  == <<stage, request, retained, stable, observed, witnessed>>
ground == <<checkout, astray, policy>>
past   == <<records, charter, admitted>>
kvars  == <<vars, lineage, local, tip, ground, past, upsets>>

None      == 0
Ambiguous == MaxSessions + 1      \* a footer that names no one session
Ids       == 0..MaxSessions

Grant   == [managed : BOOLEAN, envelope : Policies]
Request == [transport : {"simple", "tui"}, id : Ids, managed : BOOLEAN, envelope : Policies]
Record  == [request : Request, child : Ids, failed : BOOLEAN, witnessed : BOOLEAN,
            lost : {"nothing", "request", "status"}]

ContinuationTypeOK ==
  /\ TypeOK /\ LineageTypeOK
  /\ stage \in {"idle", "planning", "adding", "added", "running"}
  /\ request \in Request
  /\ retained \in {"nothing", "planned", "unknown", "created"}
  /\ {stable, observed, tip} \subseteq Ids
  /\ witnessed \in BOOLEAN
  /\ records \in Seq(Record)
  /\ checkout \in {"absent", "ours", "unfit"}
  /\ astray \subseteq Known
  /\ policy \in Policies
  /\ charter \in Grant
  /\ admitted \in 0..MaxRuns /\ upsets \in 0..MaxUpsets

KInit ==
  /\ Init /\ LineageInit
  /\ stage = "idle"
  /\ policy = CHOOSE e \in Policies : TRUE
  /\ request = [transport |-> "simple", id |-> None, managed |-> FALSE, envelope |-> policy]
  /\ charter = [managed |-> FALSE, envelope |-> policy]
  /\ retained = "nothing"
  /\ stable = None /\ observed = None /\ tip = None
  /\ witnessed = FALSE
  /\ records = <<>>
  /\ checkout = "absent" /\ astray = {}
  /\ admitted = 0 /\ upsets = 0

Upset == upsets < MaxUpsets /\ upsets' = upsets + 1

Runs   == {records[n] : n \in DOMAIN records}
Simple == stage = "running" /\ request.transport = "simple"
Tui    == stage = "running" /\ request.transport = "tui"

\* A child is at work in a session.
AtWork == tip # None /\ ((Simple /\ child = "running") \/ (Tui /\ observed # None))

-----------------------------------------------------------------------------
(* The session and the checkout: worktrees.py                               *)

\* resolve_resume_session_id: the host resumes a session at its compressed tip.
Effective(s) ==
  LET at == Walk(s) IN at[CHOOSE n \in 0..MaxSessions :
                            /\ at[n] # 0
                            /\ \A m \in 0..MaxSessions : at[m] # 0 => m <= n]

\* verify and native_cwd
Intact(s) == checkout = "ours" /\ Effective(s) \notin astray

\* before_continue
MayContinue(r, s) == r.managed /\ s # None => Intact(s)

-----------------------------------------------------------------------------
(* Admission: matching_resume_records, resume_native_approval, resume       *)

\* Mutant: compression is not followed.
ExactlyNames(r, s) ==
  /\ r.lost = "nothing" /\ r.child # None
  /\ s = r.child /\ (s = r.request.id /\ r.failed => r.witnessed)

\* _resume_record_matches.  A run that failed in the session it was asked for is
\* evidence of it only if the child was seen there.
Names(r, s) ==
  /\ r.lost = "nothing" /\ r.child # None
  /\ IF s = r.child THEN s = r.request.id /\ r.failed => r.witnessed
                    ELSE Continues(r.child, s, FALSE)

\* A record that cannot be read, and whose other half names the session.
Obscures(r, s) ==
  \/ r.lost = "request" /\ s = r.child
  \/ r.lost = "status" /\ s = r.request.id

Evidence(s) == {r \in Runs : Names(r, s)}

\* Mutant: a checkout is looked for under the exact id.
RetainedExactly(s) == {r \in Runs : ExactlyNames(r, s) /\ r.request.managed}

Retained(s) == {r \in Evidence(s) : r.request.managed}

Envelopes(s) == {r.request.envelope : r \in Evidence(s)}

\* What admit asks of a resume before a run is created.
Admissible(s) ==
  /\ \A r \in Runs : ~ Obscures(r, s)
  /\ \E e \in Policies : Envelopes(s) = {e}
  /\ Retained(s) # {} => Intact(s)

\* A new worker starts with nothing.
Renew ==
  /\ pc' = "attempt" /\ attempt' = 1
  /\ child' = "none" /\ pipes' = FALSE /\ identity' = FALSE /\ outcome' = "none"
  /\ stop' = "exited" /\ expired' = FALSE /\ unsound' = FALSE
  /\ cancel' = "none" /\ interrupt' = FALSE /\ late' = FALSE
  /\ verdict' = "none"
  /\ UNCHANGED faults
  /\ observed' = None /\ witnessed' = FALSE /\ tip' = None
  /\ admitted' = admitted + 1

AdmitNew(t, managed) ==
  /\ admitted = 0 /\ MaxRuns > 0
  /\ request' = [transport |-> t, id |-> None, managed |-> managed, envelope |-> policy]
  /\ charter' = [managed |-> managed, envelope |-> policy]
  /\ stage' = IF managed THEN "planning" ELSE "running"
  /\ stable' = None
  /\ Renew
  /\ UNCHANGED <<lineage, retained, ground, records, upsets>>

\* Mutant: a resume is granted what a new session would be.
AdmitAnew(t, s) ==
  /\ stage = "idle" /\ admitted \in 1..MaxRuns - 1
  /\ Admissible(s)
  /\ request' = [transport |-> t, id |-> s, managed |-> Retained(s) # {}, envelope |-> policy]
  /\ stage' = "running"
  /\ stable' = s
  /\ Renew
  /\ UNCHANGED <<lineage, retained, ground, records, charter, upsets>>

\* A resume is granted what the records say, whatever the policy is today.
AdmitResume(t, s) ==
  /\ stage = "idle" /\ admitted \in 1..MaxRuns - 1
  /\ Admissible(s)
  /\ request' = [transport |-> t, id |-> s, managed |-> Retained(s) # {},
                 envelope |-> CHOOSE e \in Envelopes(s) : TRUE]
  /\ stage' = "running"
  /\ stable' = s
  /\ Renew
  /\ UNCHANGED <<lineage, retained, ground, records, charter, upsets>>

\* The run is over; finish_run leaves its record.
Finish(c, f, w) ==
  /\ stage' = "idle"
  /\ records' = Append(records, [request |-> request, child |-> c, failed |-> f,
                                 witnessed |-> w, lost |-> "nothing"])
  /\ UNCHANGED <<request, stable, observed, witnessed, tip, charter, admitted>>

-----------------------------------------------------------------------------
(* The checkout of a new session: prepare and create                        *)

Preparing == UNCHANGED <<vars, lineage, astray, policy>>

Go(s) == stage' = s /\ UNCHANGED <<request, stable, observed, witnessed, tip, past>>

\* Mutant: Git is asked first.
SkipIntent ==
  /\ stage = "planning"
  /\ Go("adding")
  /\ Preparing /\ UNCHANGED <<retained, checkout, upsets>>

\* The destination is named on disk before Git is asked for it.
PersistIntent ==
  /\ stage = "planning"
  /\ retained' = "planned"
  /\ Go("adding")
  /\ Preparing /\ UNCHANGED <<checkout, upsets>>

\* Git makes the checkout, or half of it, or none; its exit code does not tell.
GitAdds ==
  /\ stage = "adding"
  /\ checkout' \in {"absent", "ours", "unfit"}
  /\ Go("added")
  /\ Preparing /\ UNCHANGED <<retained, upsets>>

\* observe_creation looks; request.json has what it saw.
Seen == IF checkout = "ours" THEN "created" ELSE "unknown"

Prepared ==
  /\ stage = "added" /\ checkout = "ours"
  /\ retained' = Seen
  /\ Go("running")
  /\ Preparing /\ UNCHANGED <<checkout, upsets>>

\* A filter, a policy, a guard, an occupied destination, or Git's exit code.
PrepareFails ==
  /\ \/ stage = "adding" /\ retained' \in {"planned", "unknown"}
     \/ stage = "added" /\ retained' = Seen
  /\ Finish(None, TRUE, FALSE)
  /\ Preparing /\ UNCHANGED <<checkout, upsets>>

\* A write fails, or the process dies; somebody repairs the run later.
PrepareIsLost ==
  /\ stage \in {"planning", "adding", "added"}
  /\ Upset
  /\ Finish(None, TRUE, FALSE)
  /\ Preparing /\ UNCHANGED <<retained, checkout>>

-----------------------------------------------------------------------------
(* A simple run                                                             *)

\* Steps of SimpleRun that are no concern of the conversation's.
Within(A) == Simple /\ A /\ UNCHANGED <<lineage, local, tip, ground, past, upsets>>

Upsetting(A) == Simple /\ A /\ Upset /\ UNCHANGED <<lineage, local, tip, ground, past>>

\* build_child_command: the session that is resumed, or none.
ResumeId == IF attempt > 1 THEN stable ELSE request.id

BeginAttempt ==
  /\ Simple /\ MayContinue(request, stable)
  /\ StartChild
  /\ IF identity' THEN UNCHANGED upsets ELSE Upset
  /\ tip' = IF ResumeId = None THEN None ELSE Effective(ResumeId)
  /\ UNCHANGED <<lineage, local, ground, past>>

RefuseAttempt == ~ MayContinue(request, stable) /\ Within(CheckoutChanged)

\* Mutant: a footer is believed.
NoMismatch(f) == f = Ambiguous

\* A footer must name the session, or a proven continuation of it.
Mismatch(f) ==
  \/ f = Ambiguous
  \/ f \notin {None, stable} /\ stable # None /\ ~ Continues(stable, f, FALSE)

\* observe_attempt, and the history's new item
Observe(f) ==
  /\ LET named == f # None /\ ~ Mismatch(f) IN
       /\ stable' = IF named THEN f ELSE stable
       /\ observed' = IF named THEN f ELSE observed
  /\ witnessed' = (witnessed \/ (request.id # None /\ stable' = request.id /\ outcome = "clean"))

Footers == {None, tip, Ambiguous}

\* A transient failure is resumed in a known session, if there is time left.
Decide(f) ==
  /\ Simple
  /\ Observe(f)
  /\ \/ Rest /\ ~ unsound' /\ ~ Mismatch(f) /\ stable' # None
     \/ /\ StopTrying
        /\ unsound' = \/ Mismatch(f)
                      \/ outcome = "transient" /\ stop = "exited" /\ attempt <= MaxResumes
  /\ IF f = Ambiguous THEN Upset ELSE UNCHANGED upsets
  /\ UNCHANGED <<stage, request, retained, lineage, tip, ground, past>>

SimpleEnds ==
  /\ Simple
  /\ \/ Publish /\ Finish(observed, verdict' # "completed", witnessed)
     \/ PublishFailure /\ Finish(None, TRUE, FALSE)
  /\ UNCHANGED <<retained, lineage, ground, upsets>>

-----------------------------------------------------------------------------
(* An interactive run in outline; ChildSession and InteractiveRun have it.  *)

Outline == UNCHANGED <<vars, retained, ground>>

\* The child is bound to the session the host answers with.
TuiStarts ==
  /\ Tui /\ observed = None
  /\ MayContinue(request, request.id)
  /\ IF request.id = None
     THEN Begin(Lane) /\ tip' = Fresh /\ UNCHANGED blurred
     ELSE tip' = Effective(request.id) /\ UNCHANGED lineage
  /\ observed' = tip'
  /\ Outline /\ UNCHANGED <<stage, request, stable, witnessed, past, upsets>>

TuiFollows ==
  /\ Tui /\ observed \notin {None, tip}
  /\ Continues(observed, tip, TRUE)
  /\ observed' = tip
  /\ Outline /\ UNCHANGED <<stage, request, stable, witnessed, lineage, tip, past, upsets>>

\* Completed, or failed, with or without a sight of the child after a cancel.
TuiEnds ==
  /\ Tui
  /\ \/ observed # None /\ \E f, w \in BOOLEAN : (w => f) /\ Finish(observed, f, w)
     \/ observed = None /\ Finish(None, TRUE, FALSE)
  /\ Outline /\ UNCHANGED <<lineage, upsets>>

-----------------------------------------------------------------------------
(* The host, the operator and the rest of the world                         *)

Around == UNCHANGED <<vars, local, past>>

\* The first prompt opens the session.
HostOpens ==
  /\ Simple /\ child = "running" /\ tip = None
  /\ Begin(Lane)
  /\ tip' = Fresh
  /\ Around /\ UNCHANGED <<ground, upsets>>

Inherit(s) == astray' = IF s \in astray THEN astray \cup {Fresh} ELSE astray

\* Native compression gives the conversation a new session, or is caught half way.
ChildCompresses ==
  /\ AtWork /\ Upset
  /\ \/ Compress(tip, Lane) /\ tip' = Fresh /\ Inherit(tip)
     \/ StartCompressing(tip) /\ UNCHANGED <<tip, astray>>
  /\ Around /\ UNCHANGED <<checkout, policy>>

\* The child leaves for a branch of its own.
ChildBranches ==
  /\ AtWork /\ Upset
  /\ Depart(tip, "branch")
  /\ tip' = Fresh
  /\ Inherit(tip)
  /\ Around /\ UNCHANGED <<checkout, policy>>

\* The table gets a row it should not have.
TableIsBlurred ==
  /\ Upset
  /\ \E s \in Known : Blur(s, db[s].mark)
  /\ Around /\ UNCHANGED <<tip, ground>>

\* The session changes its directory, which only a managed run looks at.
SessionStrays ==
  /\ Upset /\ charter.managed
  /\ \E s \in Known \ astray : astray' = astray \cup {s}
  /\ Around /\ UNCHANGED <<lineage, tip, checkout, policy>>

\* Somebody removes or replaces the checkout, or it is no longer allowed; the same
\* checkout may be recovered.
CheckoutIsTouched ==
  /\ Upset /\ checkout # "absent" /\ stage \notin {"planning", "adding", "added"}
  /\ checkout' = IF checkout = "ours" THEN "unfit" ELSE "ours"
  /\ Around /\ UNCHANGED <<lineage, tip, astray, policy>>

\* The policy and the records are read by an admission only: they change between runs.
OperatorEdits ==
  /\ Upset /\ stage = "idle" /\ admitted > 0
  /\ policy' \in Policies \ {policy}
  /\ Around /\ UNCHANGED <<lineage, tip, checkout, astray>>

Kept == UNCHANGED <<vars, lineage, local, tip, ground, charter, admitted>>

\* Half of a record cannot be read any more.
RecordIsDamaged ==
  /\ Upset /\ stage = "idle"
  /\ \E n \in DOMAIN records, half \in {"request", "status"} :
       /\ records[n].lost = "nothing"
       /\ records' = [records EXCEPT ![n].lost = half]
  /\ Kept

\* The oldest run is pruned.
RecordIsPruned ==
  /\ Upset /\ stage = "idle" /\ records # <<>>
  /\ records' = Tail(records)
  /\ Kept

-----------------------------------------------------------------------------
Worker ==
  \/ PersistIntent \/ GitAdds \/ Prepared \/ PrepareFails
  \/ BeginAttempt \/ RefuseAttempt
  \/ Within(NoTimeLeft \/ StopInterrupted \/ StopCancelled \/ RejectCancel \/ StopTimedOut
            \/ StopExited \/ Reap \/ Report \/ RestInterrupted \/ RestCancelled
            \/ RestTimedOut \/ Resume)
  \/ \E f \in Footers : Decide(f)
  \/ SimpleEnds
  \/ TuiStarts \/ TuiFollows \/ TuiEnds

Mishaps ==
  \/ Upsetting(RejectFails \/ ReportFails \/ (MayContinue(request, stable) /\ StartFails))
  \/ PrepareIsLost

Surroundings ==
  \/ Upsetting(ParentInterrupts \/ IdentityLost \/ (ChildExits /\ pipes'))
  \/ Within(CancelArrives \/ (ChildExits /\ ~ pipes') \/ PipesClose)
  \/ HostOpens \/ ChildCompresses \/ ChildBranches \/ TableIsBlurred \/ SessionStrays
  \/ CheckoutIsTouched \/ OperatorEdits \/ RecordIsDamaged \/ RecordIsPruned

Clock == Within(DeadlinePasses)

Callers ==
  \E t \in {"simple", "tui"} :
    \/ \E managed \in BOOLEAN : AdmitNew(t, managed)
    \/ \E s \in Known : AdmitResume(t, s)

KNext == Worker \/ Mishaps \/ Surroundings \/ Clock \/ Callers

KSpec == KInit /\ [][KNext]_kvars

\* The worker goes on and the clock advances; nothing is asked of the child or of
\* those who delegate.
KFairSpec == KSpec /\ WF_kvars(Worker) /\ WF_kvars(Clock)

-----------------------------------------------------------------------------
(* Safety *)

\* Every run of the conversation works under the approval and in the kind of place
\* it was opened with, under whatever id it is resumed, after whatever failed and
\* was pruned, damaged or reconfigured since.
CharterIsKept ==
  /\ admitted > 0 =>
       \A r \in Runs \cup {[request |-> request]} :
         [managed |-> r.request.managed, envelope |-> r.request.envelope] = charter
  /\ stage = "idle" =>
       \A s \in Known : Admissible(s) => (Retained(s) # {} <=> charter.managed)

\* A resumed run acts in the session it was asked for or in a later one of the same
\* conversation, in every attempt and in what it records of itself.
RunsKeepToTheConversation ==
  \A r \in Runs \cup {[request |-> request, child |-> stable]} :
    r.request.id # None /\ r.child # None => Follows(r.request.id, r.child)

\* The conversation is not lost: a session that a run recorded, and every session
\* that continues it, can be resumed while the world has kept to its rules.
Untroubled(s) ==
  /\ conversation[s] \notin blurred
  /\ \A k \in Known : conversation[k] = conversation[s] => db[k].end # "compressing"
  /\ \A r \in Runs : r.lost = "nothing"
  /\ charter.managed => checkout = "ours" /\ astray = {}

ResumeStaysPossible ==
  stage = "idle" =>
    \A r \in Runs, s \in Known :
      /\ r.child # None /\ Follows(r.child, s) /\ Untroubled(s)
      /\ r.failed /\ s = r.request.id => r.witnessed
      => Admissible(s)

\* A checkout that Git made, or half made, is named by a request on disk, whatever
\* failed between the two.
CheckoutIsOnRecord ==
  /\ checkout # "absent" => retained # "nothing"
  /\ stage = "running" /\ request.managed => retained = "created"

(* Liveness *)

\* Every run is over some day, with its failure on record if it has one.
EveryRunIsOver == stage # "idle" ~> stage = "idle"
=============================================================================
