----------------------------- MODULE GrantProofs -----------------------------
(***************************************************************************)
(* Proofs about what a delegated run is granted: a permit to have a child, *)
(* and an envelope of authority to act under.                              *)
(*                                                                         *)
(* Permits, for any workers and any number of slots and of deaths: a permit *)
(* is followed from the worker that took it to the reaper that may inherit *)
(* it, by what pc and reaper say of its child.                             *)
(*                                                                         *)
(* NativeApproval, for any homes, patterns, grants and any number of runs, *)
(* nested as deep as they like.  To be no wider is transitive: it is enough *)
(* that a run is no wider than the one that delegated it, which snapshot   *)
(* and admit_resume see to.                                                *)
(***************************************************************************)
EXTENDS Permits, FiniteSetTheorems, TLAPS

CONSTANTS Homes, Globs, Grants

VARIABLES config, runs

A == INSTANCE NativeApproval

-----------------------------------------------------------------------------
(* Permits                                                                  *)

Holds(w) == \E k \in Slots : slot[k] = w

\* Who answers for a child is in one of these places, and has a permit there.
PermitOf(w) ==
  /\ pc[w] \in {"holding", "running", "leaving"} => Holds(w)
  /\ reaper[w] = "waiting" => Holds(w) /\ pc[w] \in {"reaping", "publishing"}
  /\ pc[w] = "reaping" => reaper[w] = "waiting"

\* A living child is with its worker, or with the reaper that was handed it.
ChildOf(w) ==
  child[w] = "live" /\ pc[w] # "dead" =>
    \/ pc[w] \in {"running", "leaving"}
    \/ reaper[w] = "waiting" /\ kind[w] = "interactive"

\* Only what is left by an interactive run can outlive its turn.
LeavingOf(w) == pc[w] \in {"leaving", "reaping"} => kind[w] = "interactive"

\* What a terminal record says was true when it was written.
RecordOf(w) ==
  w \in terminal =>
    /\ pc[w] \in {"publishing", "ended", "dead"}
    /\ child[w] = "live" /\ pc[w] # "dead" => said[w]

Inv == TypeOK /\ \A w \in Workers : PermitOf(w) /\ ChildOf(w) /\ LeavingOf(w) /\ RecordOf(w)

-----------------------------------------------------------------------------
LEMMA Initially == Init => Inv
  BY PermitsAssumption DEF Init, Inv, TypeOK, PermitOf, ChildOf, LeavingOf, RecordOf, Slots

\* A release takes no permit but the worker's own, and no slot that is taken is
\* taken again.
LEMMA OthersKeepTheirs ==
  ASSUME NEW w \in Workers, NEW v \in Workers \ {w},
         Release(w) \/ TakeSlot(w) \/ UNCHANGED slot, TypeOK, Holds(v)
  PROVE  Holds(v)'
  BY FreeAssumption DEF Release, TakeSlot, Holds, TypeOK, Slots

\* Every step is one worker's.
Steps(w) == WorkerStep(w) \/ ChildExits(w) \/ WorkerDies(w) \/ Repair(w)

LEMMA TypeStep == ASSUME TypeOK, NEW w \in Workers, Steps(w) PROVE TypeOK'
<1> USE DEF TypeOK, Goto
<1>1. CASE Acquire(w)
  <2>1. CASE TakeSlot(w) \/ LimitReached(w)
    BY <2>1 DEF TakeSlot, LimitReached
  <2>2. CASE NextSlot(w)
    <3>1. tried' \in [Workers -> 0 .. MaxConcurrent]
      BY <2>2, PermitsAssumption DEF NextSlot
    <3> QED
      BY <2>2, <3>1 DEF NextSlot
  <2> QED
    BY <1>1, <2>1, <2>2 DEF Acquire
<1>2. CASE Spawn(w) \/ Retry(w) \/ Teardown(w) \/ HandOver(w) \/ ReapInline(w)
  BY <1>2 DEF Spawn, Retry, Teardown, HandOver, ReapInline
<1>3. CASE LaunchFails(w) \/ FinishSimple(w) \/ GiveBack(w)
  BY <1>3 DEF LaunchFails, FinishSimple, GiveBack, Release
<1>4. CASE Reaped(w)
  <2>1. slot' \in [Slots -> Workers \cup {Free}] /\ pc' \in [Workers -> {"trying", "holding",
           "running", "leaving", "reaping", "publishing", "ended", "dead"}]
    BY <1>4 DEF Reaped, Release
  <2>2. said' \in [Workers -> BOOLEAN]
    BY <1>4 DEF Reaped
  <2> QED
    BY <1>4, <2>1, <2>2 DEF Reaped
<1>5. CASE Publish(w) \/ Repair(w)
  <2>1. said' \in [Workers -> BOOLEAN]
    BY <1>5 DEF Publish, Repair
  <2> QED
    BY <1>5, <2>1 DEF Publish, Repair
<1>6. CASE Exit(w) \/ ChildExits(w)
  BY <1>6 DEF Exit, ChildExits
<1>7. CASE WorkerDies(w)
  BY <1>7, PermitsAssumption DEF WorkerDies, Release
<1> QED
  BY <1>1, <1>2, <1>3, <1>4, <1>5, <1>6, <1>7 DEF Steps, WorkerStep, Finish

\* The others notice nothing.
LEMMA OthersStand ==
  ASSUME Inv, NEW w \in Workers, Steps(w), NEW v \in Workers \ {w}
  PROVE  PermitOf(v)' /\ ChildOf(v)' /\ LeavingOf(v)' /\ RecordOf(v)'
<1>1. /\ kind' = kind
      /\ pc'[v] = pc[v] /\ child'[v] = child[v] /\ reaper'[v] = reaper[v]
      /\ said'[v] = said[v] /\ (v \in terminal' <=> v \in terminal)
  BY DEF Inv, TypeOK, Steps, WorkerStep, Acquire, Finish, TakeSlot, NextSlot, LimitReached,
     Spawn, LaunchFails, ChildExits, Retry, FinishSimple, Teardown, GiveBack, HandOver,
     ReapInline, Reaped, Publish, Exit, WorkerDies, Repair, Goto
<1>2. Release(w) \/ TakeSlot(w) \/ UNCHANGED slot
  BY DEF Steps, WorkerStep, Acquire, Finish, NextSlot, LimitReached,
     Spawn, LaunchFails, ChildExits, Retry, FinishSimple, Teardown, GiveBack, HandOver,
     ReapInline, Reaped, Publish, Exit, WorkerDies, Repair
<1>3. Holds(v) => Holds(v)'
  BY <1>2, OthersKeepTheirs DEF Inv
<1> QED
  BY <1>1, <1>3 DEF Inv, PermitOf, ChildOf, LeavingOf, RecordOf

\* The worker whose step it is.
LEMMA OneStep ==
  ASSUME Inv, NEW w \in Workers, Steps(w)
  PROVE  PermitOf(w)' /\ ChildOf(w)' /\ LeavingOf(w)' /\ RecordOf(w)'
<1> USE DEF Inv, TypeOK, PermitOf, ChildOf, LeavingOf, RecordOf, Goto
<1>1. CASE TakeSlot(w)
  <2>1. tried[w] + 1 \in Slots /\ slot'[tried[w] + 1] = w
    BY <1>1, PermitsAssumption DEF TakeSlot, Slots
  <2>2. Holds(w)'
    BY <2>1 DEF Holds, Slots
  <2> QED
    BY <1>1, <2>2 DEF TakeSlot
<1>2. CASE NextSlot(w) \/ LimitReached(w)
  BY <1>2 DEF NextSlot, LimitReached, Holds
<1>3. CASE Spawn(w) \/ Retry(w)
  BY <1>3 DEF Spawn, Retry, Holds
<1>4. CASE LaunchFails(w) \/ FinishSimple(w) \/ GiveBack(w)
  BY <1>4 DEF LaunchFails, FinishSimple, GiveBack
<1>5. CASE Teardown(w) \/ HandOver(w) \/ ReapInline(w)
  BY <1>5 DEF Teardown, HandOver, ReapInline, Holds
<1>6. CASE Reaped(w)
  BY <1>6 DEF Reaped
<1>7. CASE Publish(w)
  <2>1. child[w] = "live" => kind[w] = "interactive"
    BY <1>7 DEF Publish
  <2>2. child[w] = "live" => said'[w]
    BY <1>7, <2>1, Zenon DEF Publish
  <2> QED
    BY <1>7, <2>2 DEF Publish, Holds
<1>10. CASE Repair(w)
  BY <1>10 DEF Repair, Holds
<1>9. CASE Exit(w) \/ ChildExits(w)
  BY <1>9 DEF Exit, ChildExits, Holds
<1>8. CASE WorkerDies(w)
  BY <1>8 DEF WorkerDies
<1> QED
  BY <1>1, <1>2, <1>3, <1>4, <1>5, <1>6, <1>7, <1>8, <1>9, <1>10 DEF Steps, WorkerStep, Acquire, Finish

\* Permits are handed on as Inv says, for ever.
THEOREM Invariance == Spec => []Inv
<1>1. Inv /\ [Next]_vars => Inv'
  <2> SUFFICES ASSUME Inv, [Next]_vars PROVE Inv'
    OBVIOUS
  <2>1. CASE UNCHANGED vars
    BY <2>1 DEF vars, Inv, TypeOK, PermitOf, ChildOf, LeavingOf, RecordOf, Holds
  <2>2. ASSUME NEW w \in Workers, Steps(w) PROVE Inv'
    BY <2>2, TypeStep, OthersStand, OneStep DEF Inv
  <2> QED
    BY <2>1, <2>2 DEF Next, Steps
<1> QED
  BY <1>1, Initially, PTL DEF Spec

-----------------------------------------------------------------------------
\* No child of a living worker runs without a permit, through retries, bounded
\* teardowns, reapers and deaths; and what its worker published of it is true.
THEOREM ChildrenAreAccountedFor == Spec => []LivingChildIsAccountedFor
<1>1. Inv => LivingChildIsAccountedFor
  BY DEF Inv, PermitOf, ChildOf, RecordOf, LivingChildIsAccountedFor, Holds
<1> QED
  BY <1>1, Invariance, PTL

\* What permits are for: living workers never have more children than there are
\* permits, as no two of them share one.
WithinPermits ==
  LET Live == {w \in Workers : child[w] = "live" /\ pc[w] # "dead"}
  IN IsFiniteSet(Live) /\ Cardinality(Live) <= MaxConcurrent

THEOREM PermitsBoundChildren == Spec => []WithinPermits
<1>1. LivingChildIsAccountedFor => WithinPermits
  <2> SUFFICES ASSUME LivingChildIsAccountedFor PROVE WithinPermits
    OBVIOUS
  <2> DEFINE Live == {w \in Workers : child[w] = "live" /\ pc[w] # "dead"}
             permit == [w \in Live |-> CHOOSE k \in Slots : slot[k] = w]
  <2>1. \A w \in Live : permit[w] \in Slots /\ slot[permit[w]] = w
    BY DEF LivingChildIsAccountedFor
  <2>2. permit \in [Live -> Slots] /\ IsInjective(permit)
    <3>1. \A a, b \in Live : permit[a] = permit[b] => a = b
      BY <2>1
    <3> QED
      BY <2>1, <3>1 DEF IsInjective
  <2>3. IsFiniteSet(Slots) /\ Cardinality(Slots) = MaxConcurrent
    BY FS_Interval, PermitsAssumption DEF Slots
  <2> QED
    BY <2>2, <2>3, FS_Injection DEF WithinPermits, Injection
<1> QED
  BY <1>1, ChildrenAreAccountedFor, PTL

-----------------------------------------------------------------------------
(* Native approval                                                          *)

ApprovalInv == A!TypeOK /\ A!EveryEnvelopeIsValid /\ A!AuthorityNarrows

LEMMA NoWiderTransitive ==
  ASSUME NEW e \in A!Envelope, NEW a \in A!Envelope, NEW b \in A!Envelope,
         A!NoWider(e, a), A!NoWider(a, b)
  PROVE  A!NoWider(e, b)
  BY DEF A!NoWider

\* What the operator's own selection yields is an envelope that validate accepts.
LEMMA GrantedIsValid ==
  ASSUME NEW mode \in A!Modes, NEW source \in A!Config, NEW target \in Homes, NEW yolo \in BOOLEAN,
         config \in [Homes -> A!Config]
  PROVE  LET e == A!Granted(mode, source, target, yolo) IN e \in A!Envelope /\ A!Valid(e)
<1>1. config[target] \in A!Config
  OBVIOUS
<1>2. [source EXCEPT !.deny = @ \cup config[target].deny] \in A!Config
  BY <1>1 DEF A!Config
<1>3. A!Narrowed([source EXCEPT !.deny = @ \cup config[target].deny], mode) \in A!Config
  BY <1>2 DEF A!Narrowed, A!Config, A!Strict, A!Postures
<1>4. A!Granted(mode, source, target, yolo).bypass \in BOOLEAN
  BY DEF A!Granted
<1> QED
  BY <1>2, <1>3, <1>4 DEF A!Granted, A!Envelope, A!Valid, A!Narrowed, A!Config

\* What a nested selection yields is valid and no wider than its ancestor.
LEMMA InheritedIsNarrow ==
  ASSUME NEW mode \in A!Modes, NEW a \in A!Envelope, NEW target \in Homes,
         config \in [Homes -> A!Config], A!Valid(a), A!Allowed(mode, a)
  PROVE  LET e == A!Inherited(mode, a, target) IN e \in A!Envelope /\ A!Valid(e) /\ A!NoWider(e, a)
<1> DEFINE base == [a.native EXCEPT !.deny = @ \cup config[target].deny]
           e == A!Inherited(mode, a, target)
<1>1. a.native \in A!Config /\ config[target] \in A!Config /\ a.bypass \in BOOLEAN
  BY DEF A!Envelope
<1>2. /\ base \in A!Config
      /\ base.grants = a.native.grants /\ base.posture = a.native.posture
      /\ a.native.deny \subseteq base.deny
  BY <1>1 DEF A!Config
<1>3. /\ A!Narrowed(base, mode) \in A!Config
      /\ A!Narrowed(base, mode).grants = a.native.grants
      /\ a.native.deny \subseteq A!Narrowed(base, mode).deny
      /\ A!Narrowed(base, mode).posture = IF mode = "deny" THEN A!Strict ELSE a.native.posture
  BY <1>2 DEF A!Narrowed, A!Config, A!Strict, A!Postures
<1>4. e.bypass \in BOOLEAN /\ (e.bypass => a.bypass) /\ (mode = "deny" => ~ e.bypass)
  BY <1>1 DEF A!Inherited
<1>5. e.effective = mode /\ e.target = target /\ e.native = A!Narrowed(base, mode)
  BY DEF A!Inherited
<1>6. e \in A!Envelope
  BY <1>3, <1>4, <1>5 DEF A!Inherited, A!Envelope
<1>7. A!Valid(e)
  BY <1>3, <1>4, <1>5 DEF A!Valid
<1>8. a.effective = "deny" => mode = "deny"
  BY DEF A!Allowed
<1> QED
  BY <1>3, <1>4, <1>5, <1>6, <1>7, <1>8 DEF A!NoWider

\* An old envelope that admit_resume lets pass is no wider than the ancestor.
LEMMA CompatibleIsNarrow ==
  ASSUME NEW e \in A!Envelope, NEW a \in A!Envelope, A!Compatible(e, a)
  PROVE  A!NoWider(e, a)
  BY DEF A!Compatible, A!NoWider

\* A run that is no wider than the one above it is no wider than all above.
LEMMA AdmittedBelow ==
  ASSUME ApprovalInv, NEW r \in runs, NEW e \in A!Envelope, A!Valid(e), A!NoWider(e, r.envelope),
         A!Admit(e, A!Below(r))
  PROVE  ApprovalInv'
<1> DEFINE n == [envelope |-> e, above |-> A!Below(r)]
<1>1. r \in A!Run /\ r.envelope \in A!Envelope /\ r.above \subseteq A!Envelope
  BY DEF ApprovalInv, A!TypeOK, A!Run
<1>2. n \in A!Run
  BY <1>1 DEF A!Run, A!Below
<1>3. runs' = runs \cup {n} /\ config' = config
  BY DEF A!Admit
<1>4. \A a \in A!Below(r) : A!NoWider(e, a)
  <2> TAKE a \in A!Below(r)
  <2>1. CASE a = r.envelope
    BY <2>1
  <2>2. CASE a \in r.above
    <3>1. A!NoWider(r.envelope, a)
      BY <2>2 DEF ApprovalInv, A!AuthorityNarrows
    <3> QED
      BY <1>1, <2>2, <3>1, NoWiderTransitive
  <2> QED
    BY <2>1, <2>2 DEF A!Below
<1>5. A!TypeOK'
  BY <1>2, <1>3 DEF ApprovalInv, A!TypeOK
<1>6. A!EveryEnvelopeIsValid' /\ A!AuthorityNarrows'
  BY <1>3, <1>4 DEF ApprovalInv, A!EveryEnvelopeIsValid, A!AuthorityNarrows
<1> QED
  BY <1>5, <1>6 DEF ApprovalInv

\* A run of the operator's own has nothing above it.
LEMMA AdmittedOnTop ==
  ASSUME ApprovalInv, NEW e \in A!Envelope, A!Valid(e), A!Admit(e, {})
  PROVE  ApprovalInv'
<1> DEFINE n == [envelope |-> e, above |-> {}]
<1>1. n \in A!Run
  BY DEF A!Run
<1>2. runs' = runs \cup {n} /\ config' = config
  BY DEF A!Admit
<1>3. A!TypeOK'
  BY <1>1, <1>2 DEF ApprovalInv, A!TypeOK
<1>4. A!EveryEnvelopeIsValid' /\ A!AuthorityNarrows'
  BY <1>2 DEF ApprovalInv, A!EveryEnvelopeIsValid, A!AuthorityNarrows
<1> QED
  BY <1>3, <1>4 DEF ApprovalInv

\* The invariant of every delegation tree, through nesting, resumes and edits.
THEOREM ApprovalInvariance == A!Spec => []ApprovalInv
<1>1. A!Init => ApprovalInv
  BY DEF A!Init, ApprovalInv, A!TypeOK, A!EveryEnvelopeIsValid, A!AuthorityNarrows
<1>2. ApprovalInv /\ [A!Next]_(A!vars) => ApprovalInv'
  <2> SUFFICES ASSUME ApprovalInv, [A!Next]_(A!vars) PROVE ApprovalInv'
    OBVIOUS
  <2>1. ASSUME NEW home \in Homes, NEW target \in Homes, NEW mode \in A!Modes, NEW yolo \in BOOLEAN,
               A!Delegate(home, target, mode, yolo)
        PROVE  ApprovalInv'
    <3>1. (IF mode = "inherit" THEN config[home] ELSE config[target]) \in A!Config
      BY DEF ApprovalInv, A!TypeOK
    <3> QED
      BY <2>1, <3>1, GrantedIsValid, AdmittedOnTop DEF A!Delegate, ApprovalInv, A!TypeOK
  <2>2. ASSUME NEW r \in runs, NEW target \in Homes, NEW mode \in A!Modes,
               A!DelegateNested(r, target, mode)
        PROVE  ApprovalInv'
    <3>1. r.envelope \in A!Envelope
      BY DEF ApprovalInv, A!TypeOK, A!Run
    <3> QED
      BY <2>2, <3>1, InheritedIsNarrow, AdmittedBelow DEF A!DelegateNested, ApprovalInv, A!TypeOK
  <2>3. ASSUME NEW s \in runs, A!Resume(s)
        PROVE  ApprovalInv'
    <3>1. s.envelope \in A!Envelope
      BY DEF ApprovalInv, A!TypeOK, A!Run
    <3> QED
      BY <2>3, <3>1, AdmittedOnTop DEF A!Resume
  <2>4. ASSUME NEW r \in runs, NEW s \in runs, A!ResumeNested(r, s)
        PROVE  ApprovalInv'
    <3>1. r.envelope \in A!Envelope /\ s.envelope \in A!Envelope /\ A!Valid(s.envelope)
      BY DEF ApprovalInv, A!TypeOK, A!Run, A!EveryEnvelopeIsValid
    <3> QED
      BY <2>4, <3>1, CompatibleIsNarrow, AdmittedBelow DEF A!ResumeNested
  <2>5. CASE A!OperatorEdits
    BY <2>5 DEF A!OperatorEdits, ApprovalInv, A!TypeOK, A!EveryEnvelopeIsValid, A!AuthorityNarrows
  <2>6. CASE UNCHANGED A!vars
    BY <2>6 DEF A!vars, ApprovalInv, A!TypeOK, A!EveryEnvelopeIsValid, A!AuthorityNarrows
  <2> QED
    BY <2>1, <2>2, <2>3, <2>4, <2>5, <2>6 DEF A!Next
<1> QED
  BY <1>1, <1>2, PTL DEF A!Spec

\* snapshot and admit_resume never let a run have what a run above it lacks.
THEOREM NestingNeverWidens == A!Spec => []A!AuthorityNarrows
  BY ApprovalInvariance, PTL DEF ApprovalInv

\* validate accepts every envelope that snapshot froze, under any later configuration.
THEOREM FrozenEnvelopesAreAccepted == A!Spec => []A!EveryEnvelopeIsValid
  BY ApprovalInvariance, PTL DEF ApprovalInv
=============================================================================
