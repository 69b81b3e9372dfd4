------------------------- MODULE RunDirectoryProofs -------------------------
(***************************************************************************)
(* Proofs about RunStore and Notify, for any number of operators and       *)
(* faults, any modes and any checkout setting.  RunStore comes first; what *)
(* it keeps is kept when persisting is added, as no access to the ledger   *)
(* touches the run directory; and whoever persists has a run before it     *)
(* that was published.                                                     *)
(***************************************************************************)
EXTENDS Notify, TLAPS

USE OperatorsAssumption, ModesAssumption, WorkspaceAssumption,
    ValuesAssumption, FaultsAssumption

\* The initial states satisfy the inductive invariant.
LEMMA InitIInv == Init => IInv
  <1> SUFFICES ASSUME Init PROVE IInv
    OBVIOUS
  <1>1. /\ pc \in [Procs -> PCs]
        /\ pc[Launcher] = "preparing"
        /\ pc[Worker] = "unborn"
        /\ \A o \in Operators : pc[o] = "idle"
    BY DEF Init, Procs, PCs, Launcher, Worker
  <1>2. TypeOK
    <2>1. /\ status \in {"absent"} \cup Active \cup Terminal
          /\ plan \in Terminal /\ faults \in 0 .. MaxFaults
      BY DEF Init, Terminal
    <2> QED BY <1>1, <2>1 DEF Init, TypeOK, Terminal, Active, Procs
  <1>3. LockInv /\ RoleInv /\ LaunchInv
    BY <1>1 DEF Init, LockInv, RoleInv, LaunchInv, Procs
  <1>4. CommitInv /\ WorkerInv
    BY <1>1 DEF Init, CommitInv, WorkerInv, Procs, Committing, Terminal
  <1>5. TerminalIsPaired /\ RepairInv /\ PruneInv
    BY DEF Init, TerminalIsPaired, RepairInv, PruneInv, Terminal
  <1> QED BY <1>2, <1>3, <1>4, <1>5 DEF IInv

\* A step of the launcher preserves it.
LEMMA LauncherIInv == ASSUME IInv, LauncherStep PROVE IInv'
  <1> USE DEF IInv, TypeOK, LockInv, RoleInv, LaunchInv, CommitInv, WorkerInv,
         TerminalIsPaired, RepairInv, PruneInv, Procs,
         Launcher, Worker, PCs, Terminal, Active, Committing, Proposal, Goto,
         Fault, CanLock, Results
  <1>1. CASE Prepare
    BY <1>1 DEF Prepare
  <1>2. CASE CheckoutFails
    <2> USE <1>2 DEF CheckoutFails
    <2>1. TypeOK'
      <3>1. pc' \in [Procs -> PCs] /\ faults' \in 0 .. MaxFaults
        OBVIOUS
      <3> QED BY <3>1
    <2>2. LockInv'
      OBVIOUS
    <2>3. RoleInv' /\ LaunchInv'
      OBVIOUS
    <2>4. CommitInv'
      OBVIOUS
    <2>5. WorkerInv'
      OBVIOUS
    <2>6. TerminalIsPaired' /\ RepairInv' /\ PruneInv'
      OBVIOUS
    <2> QED BY <2>1, <2>2, <2>3, <2>4, <2>5, <2>6
  <1>3. CASE PrepareFails
    BY <1>3 DEF PrepareFails
  <1>4. CASE LaunchRefused
    BY <1>4 DEF LaunchRefused
  <1>5. CASE SpawnWorker
    <2> USE <1>5 DEF SpawnWorker
    <2>1. TypeOK'
      <3>1. pc' \in [Procs -> PCs] /\ faults' \in 0 .. MaxFaults
        OBVIOUS
      <3> QED BY <3>1
    <2>2. LockInv'
      OBVIOUS
    <2>3. RoleInv' /\ LaunchInv'
      OBVIOUS
    <2>4. CommitInv'
      OBVIOUS
    <2>5. WorkerInv'
      OBVIOUS
    <2>6. TerminalIsPaired' /\ RepairInv' /\ PruneInv'
      OBVIOUS
    <2> QED BY <2>1, <2>2, <2>3, <2>4, <2>5, <2>6
  <1>6. CASE RecordWorker
    <2> USE <1>6 DEF RecordWorker
    <2>1. TypeOK'
      <3>1. pc' \in [Procs -> PCs] /\ faults' \in 0 .. MaxFaults
        OBVIOUS
      <3> QED BY <3>1
    <2>2. LockInv'
      OBVIOUS
    <2>3. RoleInv' /\ LaunchInv'
      OBVIOUS
    <2>4. CommitInv'
      OBVIOUS
    <2>5. WorkerInv'
      OBVIOUS
    <2>6. TerminalIsPaired' /\ RepairInv' /\ PruneInv'
      OBVIOUS
    <2> QED BY <2>1, <2>2, <2>3, <2>4, <2>5, <2>6
  <1>7. CASE RecordFails
    <2> USE <1>7 DEF RecordFails
    <2>1. TypeOK'
      <3>1. pc' \in [Procs -> PCs]
        OBVIOUS
      <3>2. faults' \in 0 .. MaxFaults
        OBVIOUS
      <3> QED BY <3>1, <3>2
    <2>2. LockInv'
      OBVIOUS
    <2>3. RoleInv' /\ LaunchInv'
      OBVIOUS
    <2>4. CommitInv'
      OBVIOUS
    <2>5. WorkerInv'
      OBVIOUS
    <2>6. TerminalIsPaired' /\ RepairInv' /\ PruneInv'
      OBVIOUS
    <2> QED BY <2>1, <2>2, <2>3, <2>4, <2>5, <2>6
  <1>8. CASE StartInProcess
    <2> USE <1>8 DEF StartInProcess
    <2>1. TypeOK'
      <3>1. pc' \in [Procs -> PCs] /\ faults' \in 0 .. MaxFaults
        OBVIOUS
      <3> QED BY <3>1
    <2>2. LockInv'
      OBVIOUS
    <2>3. RoleInv' /\ LaunchInv'
      OBVIOUS
    <2>4. CommitInv'
      OBVIOUS
    <2>5. WorkerInv'
      OBVIOUS
    <2>6. TerminalIsPaired' /\ RepairInv' /\ PruneInv'
      OBVIOUS
    <2> QED BY <2>1, <2>2, <2>3, <2>4, <2>5, <2>6
  <1> QED BY <1>1, <1>2, <1>3, <1>4, <1>5, <1>6, <1>7, <1>8 DEF LauncherStep

\* A step of the worker outside publication preserves it.
LEMMA WorkerIInv == ASSUME IInv, WorkerStep PROVE IInv'
  <1> USE DEF IInv, TypeOK, LockInv, RoleInv, LaunchInv, CommitInv, WorkerInv,
         TerminalIsPaired, RepairInv, PruneInv, Procs,
         Launcher, Worker, PCs, Terminal, Active, Committing, Proposal, Goto,
         Fault, CanLock, Results
  <1>1. CASE Register
    BY <1>1 DEF Register
  <1>2. CASE RegisterFails
    BY <1>2 DEF RegisterFails
  <1>3. CASE MarkCancelling
    BY <1>3 DEF MarkCancelling
  <1>4. CASE \E a \in {"accepted", "rejected"} : AckCancel(a)
    BY <1>4 DEF AckCancel
  <1>5. CASE \E v \in Terminal : Execute(v)
    BY <1>5 DEF Execute
  <1>6. CASE ExecuteRaises
    BY <1>6 DEF ExecuteRaises
  <1>7. CASE Persist
    BY <1>7 DEF Persist
  <1>8. CASE PersistRaises
    BY <1>8 DEF PersistRaises
  <1> QED BY <1>1, <1>2, <1>3, <1>4, <1>5, <1>6, <1>7, <1>8 DEF WorkerStep

\* A step of publish_terminal_run preserves it.
LEMMA PublishIInv == ASSUME IInv, NEW p \in {Launcher, Worker}, PublishStep(p) PROVE IInv'
  <1> USE DEF IInv, TypeOK, LockInv, RoleInv, LaunchInv, CommitInv, WorkerInv,
         TerminalIsPaired, RepairInv, PruneInv, Procs,
         Launcher, Worker, PCs, Terminal, Active, Committing, Proposal, Goto,
         Fault, CanLock, Results
  <1>1. CASE PublishResult(p)
    <2> USE <1>1 DEF PublishResult, Publishing, Raise, Done
    <2>1. TypeOK'
      <3>1. pc' \in [Procs -> PCs] /\ faults' \in 0 .. MaxFaults
        OBVIOUS
      <3> QED BY <3>1
    <2>2. LockInv'
      OBVIOUS
    <2>3. RoleInv' /\ LaunchInv'
      OBVIOUS
    <2>4. CommitInv'
      OBVIOUS
    <2>5. WorkerInv'
      OBVIOUS
    <2>6. TerminalIsPaired' /\ RepairInv' /\ PruneInv'
      OBVIOUS
    <2> QED BY <2>1, <2>2, <2>3, <2>4, <2>5, <2>6
  <1>2. CASE PublishStatus(p)
    <2> USE <1>2 DEF PublishStatus, Publishing, Raise, Done
    <2>1. TypeOK'
      <3>1. pc' \in [Procs -> PCs] /\ faults' \in 0 .. MaxFaults
        OBVIOUS
      <3> QED BY <3>1
    <2>2. LockInv'
      OBVIOUS
    <2>3. RoleInv' /\ LaunchInv'
      OBVIOUS
    <2>4. CommitInv'
      OBVIOUS
    <2>5. WorkerInv'
      OBVIOUS
    <2>6. TerminalIsPaired' /\ RepairInv' /\ PruneInv'
      OBVIOUS
    <2> QED BY <2>1, <2>2, <2>3, <2>4, <2>5, <2>6
  <1>3. CASE PublishKept(p)
    <2> USE <1>3 DEF PublishKept, Publishing, Raise, Done
    <2>1. TypeOK'
      <3>1. pc' \in [Procs -> PCs] /\ faults' \in 0 .. MaxFaults
        OBVIOUS
      <3> QED BY <3>1
    <2>2. LockInv'
      OBVIOUS
    <2>3. RoleInv' /\ LaunchInv'
      OBVIOUS
    <2>4. CommitInv'
      OBVIOUS
    <2>5. WorkerInv'
      OBVIOUS
    <2>6. TerminalIsPaired' /\ RepairInv' /\ PruneInv'
      OBVIOUS
    <2> QED BY <2>1, <2>2, <2>3, <2>4, <2>5, <2>6
  <1>4. CASE PublishRefused(p)
    <2> USE <1>4 DEF PublishRefused, Publishing, Raise, Done
    <2>1. TypeOK'
      <3>1. pc' \in [Procs -> PCs] /\ faults' \in 0 .. MaxFaults
        OBVIOUS
      <3> QED BY <3>1
    <2>2. LockInv'
      OBVIOUS
    <2>3. RoleInv' /\ LaunchInv'
      OBVIOUS
    <2>4. CommitInv'
      OBVIOUS
    <2>5. WorkerInv'
      OBVIOUS
    <2>6. TerminalIsPaired' /\ RepairInv' /\ PruneInv'
      OBVIOUS
    <2> QED BY <2>1, <2>2, <2>3, <2>4, <2>5, <2>6
  <1>5. CASE PublishFails(p)
    <2> USE <1>5 DEF PublishFails, Publishing, Raise, Done
    <2>1. TypeOK'
      <3>1. pc' \in [Procs -> PCs] /\ faults' \in 0 .. MaxFaults
        OBVIOUS
      <3> QED BY <3>1
    <2>2. LockInv'
      OBVIOUS
    <2>3. RoleInv' /\ LaunchInv'
      OBVIOUS
    <2>4. CommitInv'
      OBVIOUS
    <2>5. WorkerInv'
      OBVIOUS
    <2>6. TerminalIsPaired' /\ RepairInv' /\ PruneInv'
      OBVIOUS
    <2> QED BY <2>1, <2>2, <2>3, <2>4, <2>5, <2>6
  <1> QED BY <1>1, <1>2, <1>3, <1>4, <1>5 DEF PublishStep

\* A step of an operator command preserves it.
LEMMA OperatorIInv == ASSUME IInv, NEW o \in Operators, OperatorStep(o) PROVE IInv'
  <1> USE DEF IInv, TypeOK, LockInv, RoleInv, LaunchInv, CommitInv, WorkerInv,
         TerminalIsPaired, RepairInv, PruneInv, Procs,
         Launcher, Worker, PCs, Terminal, Active, Committing, Proposal, Goto,
         Fault, CanLock, Results
  <1>1. CASE Reconcile(o)
    <2> USE <1>1 DEF Reconcile, RepairVerdict
    <2>1. TypeOK'
      <3>1. pc' \in [Procs -> PCs] /\ faults' \in 0 .. MaxFaults
        OBVIOUS
      <3> QED BY <3>1
    <2>2. LockInv'
      OBVIOUS
    <2>3. RoleInv' /\ LaunchInv'
      OBVIOUS
    <2>4. CommitInv'
      OBVIOUS
    <2>5. WorkerInv'
      OBVIOUS
    <2>6. TerminalIsPaired' /\ RepairInv' /\ PruneInv'
      OBVIOUS
    <2> QED BY <2>1, <2>2, <2>3, <2>4, <2>5, <2>6
  <1>2. CASE ProjectResult(o)
    <2> USE <1>2 DEF ProjectResult
    <2>0. /\ lock = o /\ o \notin {Launcher, Worker}
          /\ \A q \in Procs : pc'[q] = IF q = o THEN "idle" ELSE pc[q]
      OBVIOUS
    <2>1. TypeOK'
      <3>1. pc' \in [Procs -> PCs] /\ faults' \in 0 .. MaxFaults
        OBVIOUS
      <3> QED BY <3>1
    <2>2. LockInv'
      BY <2>0
    <2>3. RoleInv' /\ LaunchInv'
      BY <2>0
    <2>4. CommitInv'
      BY <2>0
    <2>5. WorkerInv'
      BY <2>0
    <2>6. TerminalIsPaired' /\ RepairInv' /\ PruneInv'
      OBVIOUS
    <2> QED BY <2>1, <2>2, <2>3, <2>4, <2>5, <2>6
  <1>3. CASE OperatorFails(o)
    <2> USE <1>3 DEF OperatorFails
    <2>0. /\ lock = o /\ o \notin {Launcher, Worker}
          /\ \A q \in Procs : pc'[q] = IF q = o THEN "idle" ELSE pc[q]
      OBVIOUS
    <2>1. TypeOK'
      <3>1. pc' \in [Procs -> PCs] /\ faults' \in 0 .. MaxFaults
        OBVIOUS
      <3> QED BY <3>1
    <2>2. LockInv'
      BY <2>0
    <2>3. RoleInv' /\ LaunchInv'
      BY <2>0
    <2>4. CommitInv'
      BY <2>0
    <2>5. WorkerInv'
      BY <2>0
    <2>6. TerminalIsPaired' /\ RepairInv' /\ PruneInv'
      OBVIOUS
    <2> QED BY <2>1, <2>2, <2>3, <2>4, <2>5, <2>6
  <1>4. CASE Prune(o)
    BY <1>4 DEF Prune
  <1> QED BY <1>1, <1>2, <1>3, <1>4 DEF OperatorStep

\* Deaths and cancel requests preserve it.
LEMMA DeathIInv == ASSUME IInv, RequestCancel \/ WorkerDies \/ LauncherDies PROVE IInv'
  <1> USE DEF IInv, TypeOK, LockInv, RoleInv, LaunchInv, CommitInv, WorkerInv,
         TerminalIsPaired, RepairInv, PruneInv, Procs,
         Launcher, Worker, PCs, Terminal, Active, Committing, Proposal, Goto,
         Fault, CanLock, Results
  <1>1. CASE RequestCancel
    BY <1>1 DEF RequestCancel
  <1>2. CASE WorkerDies
    <2> USE <1>2 DEF WorkerDies
    <2>1. TypeOK'
      <3>1. pc' \in [Procs -> PCs] /\ faults' \in 0 .. MaxFaults
        OBVIOUS
      <3> QED BY <3>1
    <2>2. LockInv'
      OBVIOUS
    <2>3. RoleInv' /\ LaunchInv'
      OBVIOUS
    <2>4. CommitInv'
      OBVIOUS
    <2>5. WorkerInv'
      OBVIOUS
    <2>6. TerminalIsPaired' /\ RepairInv' /\ PruneInv'
      OBVIOUS
    <2> QED BY <2>1, <2>2, <2>3, <2>4, <2>5, <2>6
  <1>3. CASE LauncherDies
    <2> USE <1>3 DEF LauncherDies, Lost
    <2>1. TypeOK'
      <3>1. pc' \in [Procs -> PCs] /\ faults' \in 0 .. MaxFaults
        OBVIOUS
      <3> QED BY <3>1
    <2>2. LockInv'
      OBVIOUS
    <2>3. RoleInv' /\ LaunchInv'
      OBVIOUS
    <2>4. CommitInv'
      OBVIOUS
    <2>5. WorkerInv'
      OBVIOUS
    <2>6. TerminalIsPaired' /\ RepairInv' /\ PruneInv'
      OBVIOUS
    <2> QED BY <2>1, <2>2, <2>3, <2>4, <2>5, <2>6
  <1> QED BY <1>1, <1>2, <1>3 DEF IInv

\* Every step, or stuttering, preserves it.
THEOREM NextIInv == IInv /\ [Next]_vars => IInv'
  <1> SUFFICES ASSUME IInv, [Next]_vars PROVE IInv'
    OBVIOUS
  <1>1. CASE LauncherStep
    BY <1>1, LauncherIInv
  <1>2. CASE WorkerStep
    BY <1>2, WorkerIInv
  <1>3. CASE \E p \in {Launcher, Worker} : PublishStep(p)
    BY <1>3, PublishIInv
  <1>4. CASE \E o \in Operators : OperatorStep(o)
    BY <1>4, OperatorIInv
  <1>5. CASE RequestCancel \/ WorkerDies \/ LauncherDies
    BY <1>5, DeathIInv
  <1>6. CASE UNCHANGED vars
    BY <1>6 DEF vars, IInv, TypeOK, LockInv, RoleInv, LaunchInv, CommitInv,
       WorkerInv, TerminalIsPaired, RepairInv, PruneInv,
       Committing, Proposal
  <1> QED BY <1>1, <1>2, <1>3, <1>4, <1>5, <1>6 DEF Next

\* Every reachable state satisfies the inductive invariant.
THEOREM Invariance == Spec => []IInv
  BY InitIInv, NextIInv, PTL DEF Spec

\* Every value stays within its type.
THEOREM TypeCorrect == Spec => []TypeOK
  <1>1. IInv => TypeOK BY DEF IInv
  <1> QED BY <1>1, Invariance, PTL

\* A terminal lifecycle stands on a result with the same verdict.
THEOREM TerminalPairing == Spec => []TerminalIsPaired
  <1>1. IInv => TerminalIsPaired BY DEF IInv
  <1> QED BY <1>1, Invariance, PTL

-----------------------------------------------------------------------------
(* What a step may do to the two artifacts. *)

\* Only a first publication, or a repair that found nothing, writes a result.
LEMMA ResultStep ==
  ASSUME IInv, [Next]_vars, result' # result
  PROVE  /\ result = NoResult /\ status \in Active /\ dir = "live"
         /\ result' \in Results
         /\ status' = status /\ dir' = dir
  <1> USE DEF IInv, TypeOK, CanLock, Active, Terminal, Procs, Results
  <1>1. CASE LauncherStep
    BY <1>1 DEF LauncherStep, Prepare, CheckoutFails, PrepareFails, LaunchRefused,
       SpawnWorker, RecordWorker, RecordFails, StartInProcess
  <1>2. CASE WorkerStep
    BY <1>2 DEF WorkerStep, Register, RegisterFails, MarkCancelling, AckCancel,
       Execute, ExecuteRaises, Persist, PersistRaises
  <1>3. ASSUME NEW p \in {Launcher, Worker}, PublishStep(p) PROVE
           /\ PublishResult(p)
    BY <1>3 DEF PublishStep, PublishStatus, PublishKept, PublishRefused, PublishFails
  <1>4. ASSUME NEW p \in {Launcher, Worker}, PublishResult(p) PROVE
           /\ result = NoResult /\ status \in Active /\ dir = "live"
           /\ result' \in Results /\ status' = status /\ dir' = dir
    BY <1>4 DEF PublishResult, Proposal
  <1>5. ASSUME NEW o \in Operators, OperatorStep(o) PROVE
           /\ result = NoResult /\ status \in Active /\ dir = "live"
           /\ result' \in Results /\ status' = status /\ dir' = dir
    BY <1>5 DEF OperatorStep, Reconcile, RepairVerdict, ProjectResult,
       OperatorFails, Prune
  <1>6. CASE RequestCancel \/ WorkerDies \/ LauncherDies
    BY <1>6 DEF RequestCancel, WorkerDies, LauncherDies
  <1>7. CASE UNCHANGED vars
    BY <1>7 DEF vars
  <1> QED BY <1>1, <1>2, <1>3, <1>4, <1>5, <1>6, <1>7 DEF Next

\* A lifecycle is replaced only while active; when the new one is terminal
\* it is the verdict of the result, or the mark of a failed checkout.
LEMMA StatusStep ==
  ASSUME IInv, [Next]_vars, status' # status
  PROVE  /\ status \notin Terminal /\ dir = "live"
         /\ result' = result /\ dir' = dir
         /\ result # NoResult /\ status' \in Terminal => status' = result.verdict
  <1> DEFINE Goal == /\ status \notin Terminal /\ dir = "live"
                     /\ result' = result /\ dir' = dir
                     /\ result # NoResult /\ status' \in Terminal =>
                          status' = result.verdict
  <1> USE DEF IInv, CanLock, Active, Terminal
  <1>1. CASE LauncherStep
    BY <1>1 DEF LauncherStep, Prepare, CheckoutFails, PrepareFails, LaunchRefused,
       SpawnWorker, RecordWorker, RecordFails, StartInProcess, LaunchInv,
       PruneInv, TypeOK
  <1>2. CASE WorkerStep
    BY <1>2 DEF WorkerStep, Register, RegisterFails, MarkCancelling, AckCancel,
       Execute, ExecuteRaises, Persist, PersistRaises
  <1>3. ASSUME NEW p \in {Launcher, Worker}, PublishStep(p) PROVE Goal
    <2>1. PublishStatus(p)
      BY <1>3 DEF PublishStep, PublishResult, PublishKept, PublishRefused, PublishFails
    <2>2. pc[p] \in {"commit", "handlerCommit"} /\ Committing(p) /\ p \in Procs
      BY <2>1 DEF PublishStatus, Committing, Procs
    <2> QED BY <2>1, <2>2 DEF PublishStatus, CommitInv, PruneInv, TypeOK
  <1>4. ASSUME NEW o \in Operators, OperatorStep(o) PROVE Goal
    <2>1. ProjectResult(o)
      BY <1>4 DEF OperatorStep, Reconcile, OperatorFails, Prune
    <2> QED BY <2>1 DEF ProjectResult, CommitInv, PruneInv, Procs, TypeOK
  <1>5. CASE RequestCancel \/ WorkerDies \/ LauncherDies
    BY <1>5 DEF RequestCancel, WorkerDies, LauncherDies
  <1>6. CASE UNCHANGED vars
    BY <1>6 DEF vars
  <1> QED BY <1>1, <1>2, <1>3, <1>4, <1>5, <1>6 DEF Next

\* The tombstone rename happens to an announced run and touches nothing else.
LEMMA DirStep ==
  ASSUME IInv, [Next]_vars, dir' # dir
  PROVE  /\ dir = "live" /\ dir' = "pruned"
         /\ status \in Terminal /\ UNCHANGED <<status, result>>
  <1> USE DEF IInv, CanLock
  <1>1. CASE LauncherStep
    BY <1>1 DEF LauncherStep, Prepare, CheckoutFails, PrepareFails, LaunchRefused,
       SpawnWorker, RecordWorker, RecordFails, StartInProcess
  <1>2. CASE WorkerStep
    BY <1>2 DEF WorkerStep, Register, RegisterFails, MarkCancelling, AckCancel,
       Execute, ExecuteRaises, Persist, PersistRaises
  <1>3. CASE \E p \in {Launcher, Worker} : PublishStep(p)
    BY <1>3 DEF PublishStep, PublishResult, PublishStatus, PublishKept,
       PublishRefused, PublishFails
  <1>4. CASE \E o \in Operators : OperatorStep(o)
    BY <1>4 DEF OperatorStep, Reconcile, ProjectResult, OperatorFails, Prune
  <1>5. CASE RequestCancel \/ WorkerDies \/ LauncherDies
    BY <1>5 DEF RequestCancel, WorkerDies, LauncherDies
  <1>6. CASE UNCHANGED vars
    BY <1>6 DEF vars
  <1> QED BY <1>1, <1>2, <1>3, <1>4, <1>5, <1>6 DEF Next

\* result.json is written once, and a terminal lifecycle is never replaced.
THEOREM PublishedNeverChanges == Spec => PublishedIsFinal
  <1>1. IInv /\ [Next]_vars => [(result # NoResult => result' = result)
                                /\ (status \in Terminal => status' = status)]_vars
    BY ResultStep, StatusStep
  <1> QED BY <1>1, Invariance, PTL DEF Spec, PublishedIsFinal

\* After the tombstone rename no waiter, acknowledgement or launcher writes.
THEOREM PrunedStaysFrozen == Spec => PrunedRunsAreFrozen
  <1>1. ASSUME IInv, [Next]_vars, dir = "pruned"
        PROVE  UNCHANGED <<dir, status, result, recorded, cancel>>
    <2>1. UNCHANGED <<dir, status, result>>
      BY <1>1, ResultStep, StatusStep, DirStep
    <2>2. status \in Terminal /\ lock = Free
      BY <1>1 DEF IInv, PruneInv
    <2>3. pc[Worker] # "executing" /\ pc[Launcher] # "spawning"
      BY <1>1, <2>2 DEF IInv, WorkerInv, LaunchInv, Terminal, Active
    <2>4. CASE LauncherStep
      BY <2>1, <2>3, <2>4 DEF LauncherStep, Prepare, CheckoutFails, PrepareFails,
         LaunchRefused, SpawnWorker, RecordWorker, RecordFails, StartInProcess
    <2>5. CASE WorkerStep
      BY <2>1, <2>3, <2>5 DEF WorkerStep, Register, RegisterFails, MarkCancelling,
         AckCancel, Execute, ExecuteRaises, Persist, PersistRaises
    <2>6. CASE \E p \in {Launcher, Worker} : PublishStep(p)
      BY <2>1, <2>6 DEF PublishStep, PublishResult, PublishStatus, PublishKept,
         PublishRefused, PublishFails
    <2>7. CASE \E o \in Operators : OperatorStep(o)
      BY <2>1, <2>7 DEF OperatorStep, Reconcile, ProjectResult, OperatorFails, Prune
    <2>8. CASE RequestCancel \/ WorkerDies \/ LauncherDies
      BY <1>1, <2>8 DEF RequestCancel, WorkerDies, LauncherDies, CanLock
    <2>9. CASE UNCHANGED vars
      BY <2>9 DEF vars
    <2> QED BY <1>1, <2>1, <2>4, <2>5, <2>6, <2>7, <2>8, <2>9 DEF Next
  <1>2. IInv /\ [Next]_vars =>
          [dir = "pruned" => UNCHANGED <<dir, status, result, recorded, cancel>>]_vars
    BY <1>1
  <1> QED BY <1>2, Invariance, PTL DEF Spec, PrunedRunsAreFrozen

-----------------------------------------------------------------------------
(* RunStore implements TerminalRegister. *)

\* The initial state of a run is the empty register.
LEMMA InitRefines == Init => Abstract!Init
  BY DEF Init, Abstract!Init

\* Every step is a step of the register or leaves it alone.
LEMMA StepRefines ==
  IInv /\ [Next]_vars => [Abstract!Next]_(Abstract!registerVars)
  <1> SUFFICES ASSUME IInv, [Next]_vars
               PROVE  [Abstract!Next]_(Abstract!registerVars)
    OBVIOUS
  <1> USE DEF Terminal, Abstract!Next, Abstract!registerVars
  <1>1. CASE result' # result
    <2>1. /\ result = NoResult /\ status \in Active /\ dir = "live"
          /\ result' \in Results /\ status' = status /\ dir' = dir
      BY <1>1, ResultStep
    <2>2. result' # NoResult /\ result'.verdict \in Terminal
      BY <2>1 DEF Results
    <2>3. Abstract!Decide(result'.verdict)
      BY <2>1, <2>2 DEF Abstract!Decide, Active
    <2> QED BY <2>2, <2>3
  <1>2. CASE status' # status
    <2>1. /\ status \notin Terminal /\ dir = "live"
          /\ result' = result /\ dir' = dir
          /\ result # NoResult /\ status' \in Terminal => status' = result.verdict
      BY <1>2, StatusStep
    <2>2. CASE result # NoResult /\ status' \in Terminal
      <3>1. result.verdict \in Terminal
        BY <2>1, <2>2
      <3> QED BY <2>1, <2>2, <3>1 DEF Abstract!Announce
    <2>3. CASE ~(result # NoResult /\ status' \in Terminal)
      BY <2>1, <2>3
    <2> QED BY <2>2, <2>3
  <1>3. CASE dir' # dir
    <2>1. /\ dir = "live" /\ dir' = "pruned"
          /\ status \in Terminal /\ UNCHANGED <<status, result>>
      BY <1>3, DirStep
    <2> QED BY <2>1 DEF Abstract!Retire
  <1>4. CASE UNCHANGED <<result, status, dir>>
    BY <1>4
  <1> QED BY <1>1, <1>2, <1>3, <1>4

\* The two files, the lock and every crash between their writes implement the
\* write-once register.
THEOREM Refinement == Spec => ImplementsRegister
  BY InitRefines, StepRefines, Invariance, PTL
     DEF Spec, ImplementsRegister, Abstract!Spec

-----------------------------------------------------------------------------
(* With the ledger: the invariant.                                          *)

\* Whoever persists, or offers, comes after the publication.
AfterPublication ==
  \A p \in Procs : step[p] \in Busy => result # NoResult /\ status = result.verdict

\* Who began to persist when the ledger had its completion only looks at it.
LateOnlyLooks ==
  \A p \in Procs : p \in late /\ step[p] \in Busy => step[p] = "examine" /\ row \in Terminal

NInv ==
  /\ IInv /\ LedgerTypeOK
  /\ AfterPublication /\ LateOnlyLooks /\ CompletionIsTheVerdict

-----------------------------------------------------------------------------
(* With the ledger: what becomes of the run directory.                      *)

\* A step is one of RunStore, or a ledger call that fails.
Failing == UNCHANGED <<mode, workspace, dir, status, recorded, result, cancel, lock, pc, plan>> /\ Fault

LEMMA StepsOfRunStore ==
  ASSUME [NNext]_nvars
  PROVE  [Next]_vars \/ Failing
<1>1. ASSUME NEW p \in Procs, PersistStep(p) PROVE UNCHANGED vars \/ Failing
  <2>1. CASE PersistFails(p)
    BY <2>1 DEF PersistFails, vars, Failing
  <2>2. CASE ~ PersistFails(p)
    BY <1>1, <2>2 DEF PersistStep, NotWanted, RequestGone, Examine, RegisterEnded, WriteCompletion
  <2> QED
    BY <2>1, <2>2
<1>2. ASSUME NEW o \in Operators, OperatorActs(o) PROVE OperatorStep(o) \/ UNCHANGED vars
  BY <1>2 DEF OperatorActs, Aside, RepairAndPersist, PersistAgain, OperatorStep
<1>3. ASSUME NEW p \in {Launcher, Worker},
             Aside(PublishResult(p) \/ PublishRefused(p) \/ PublishFails(p)) \/ Publish(p)
      PROVE  PublishStep(p)
  BY <1>3 DEF Aside, Publish, PublishStep
<1>4. CASE Aside(LauncherStep)
  BY <1>4 DEF Aside, Next
<1>5. CASE \/ RegisterRow \/ RegisterRowFails \/ Aside(MarkCancelling \/ ExecuteRaises)
           \/ (\E a \in {"accepted", "rejected"} : Aside(AckCancel(a)))
           \/ (\E v \in Terminal : Aside(Execute(v)))
           \/ WorkerEnds \/ WorkerRetries
  BY <1>5 DEF RegisterRow, RegisterRowFails, Aside, WorkerEnds, WorkerRetries, WorkerStep, Next
<1>6. CASE Aside(RequestCancel) \/ WorkerLost \/ WorkerLostRegistering \/ GatewayLost
  BY <1>6 DEF Aside, WorkerLost, WorkerLostRegistering, GatewayLost, Next
<1>7. CASE WorkerPersists \/ Watch \/ Offer \/ (\E d \in {"delivered", "dropped"} : Deliver(d))
  BY <1>7 DEF WorkerPersists, Watch, Offer, Deliver
<1>8. CASE UNCHANGED nvars
  BY <1>8 DEF nvars
<1> QED
  BY <1>1, <1>2, <1>3, <1>4, <1>5, <1>6, <1>7, <1>8 DEF NNext, Next

\* Evidence stands, and the invariant of the run directory with it.
LEMMA RunKept ==
  ASSUME IInv, [NNext]_nvars
  PROVE  /\ IInv'
         /\ result # NoResult => result' = result
         /\ status \in Terminal => status' = status
<1>1. CASE [Next]_vars
  BY <1>1, NextIInv, ResultStep, StatusStep
<1>2. CASE Failing
  <2>1. TypeOK'
    BY <1>2, FaultsAssumption DEF Failing, Fault, IInv, TypeOK
  <2>2. (LockInv /\ RoleInv /\ LaunchInv /\ CommitInv /\ WorkerInv)'
    BY <1>2 DEF Failing, IInv, LockInv, RoleInv, LaunchInv, CommitInv, WorkerInv, Committing, Proposal
  <2>3. (TerminalIsPaired /\ RepairInv /\ PruneInv)'
    BY <1>2 DEF Failing, IInv, TerminalIsPaired, RepairInv, PruneInv
  <2> QED
    BY <1>2, <2>1, <2>2, <2>3 DEF Failing, IInv
<1> QED
  BY <1>1, <1>2, StepsOfRunStore

-----------------------------------------------------------------------------
(* The ledger.                                                              *)

LEMMA NInitially == NInit => NInv
<1> SUFFICES ASSUME NInit PROVE NInv
  OBVIOUS
<1>1. IInv
  BY InitIInv DEF NInit
<1>2. LedgerTypeOK
  BY <1>1 DEF NInit, LedgerTypeOK, IInv, Steps
<1>3. AfterPublication /\ LateOnlyLooks /\ CompletionIsTheVerdict
  BY DEF NInit, AfterPublication, LateOnlyLooks, CompletionIsTheVerdict, Busy, Terminal
<1> QED
  BY <1>1, <1>2, <1>3 DEF NInv

\* A publication leaves a pair.
LEMMA Paired ==
  ASSUME IInv, NEW p \in {Launcher, Worker}, PublishStatus(p) \/ PublishKept(p)
  PROVE  result' # NoResult /\ status' = result'.verdict
<1>1. CASE PublishStatus(p)
  <2>1. pc[p] \in {"commit", "handlerCommit"} /\ p \in Procs
    BY <1>1 DEF PublishStatus, Committing, Procs
  <2>2. result # NoResult /\ result.verdict = Proposal(p)
    BY <1>1, <2>1 DEF PublishStatus, IInv, CommitInv
  <2> QED
    BY <1>1, <2>2 DEF PublishStatus
<1>2. CASE PublishKept(p)
  BY <1>2 DEF PublishKept
<1> QED
  BY <1>1, <1>2

\* How a process comes to a step of persisting.
Enters(p) ==
  \/ step'[p] = step[p] /\ (p \in late' => p \in late)
  \/ step'[p] \in Steps \ Busy
  \/ /\ step'[p] \in Busy \ {"examine"} /\ step[p] \in Busy
     /\ step[p] # "examine" \/ row \notin Terminal
     /\ p \in late' => p \in late
  \/ /\ step'[p] = "examine"
     /\ p \in late' => row \in Terminal
     /\ result' # NoResult /\ status' = result'.verdict
     /\ row' = row

LEMMA PersistEnters ==
  ASSUME NInv, NEW q \in Procs, PersistStep(q), NEW p \in Procs
  PROVE  Enters(p) /\ step' \in [Procs -> Steps] /\ late' \subseteq Procs
<1> USE DEF NInv, LedgerTypeOK, Enters, Steps, Busy
<1>1. CASE Examine(q)
  <2>1. CASE End(q)
    BY <2>1 DEF End, Leave
  <2>2. CASE row \notin Terminal /\ late' = late
             /\ \E s \in {"register", "write"} : step' = [step EXCEPT ![q] = s]
    BY <1>1, <2>2 DEF Examine
  <2> QED
    BY <1>1, <2>1, <2>2 DEF Examine, Terminal
<1>2. CASE RegisterEnded(q)
  BY <1>2 DEF RegisterEnded
<1>3. CASE NotWanted(q) \/ RequestGone(q) \/ WriteCompletion(q) \/ PersistFails(q)
  <2>1. PICK s \in {"done", "raised"} : Leave(q, s)
    BY <1>3 DEF NotWanted, RequestGone, WriteCompletion, PersistFails, End, Raised
  <2> QED
    BY <2>1 DEF Leave
<1> QED
  BY <1>1, <1>2, <1>3 DEF PersistStep

\* Where a call to persist begins.
LEMMA BeginEnters ==
  ASSUME NInv, NEW q \in Procs, Begin(q), row' = row,
         result' # NoResult, status' = result'.verdict, NEW p \in Procs
  PROVE  Enters(p) /\ step' \in [Procs -> Steps] /\ late' \subseteq Procs
BY DEF NInv, LedgerTypeOK, Enters, Steps, Busy, Begin

LEMMA EveryEnters ==
  ASSUME NInv, [NNext]_nvars, NEW p \in Procs
  PROVE  Enters(p) /\ step' \in [Procs -> Steps] /\ late' \subseteq Procs
<1> DEFINE Goal == Enters(p) /\ step' \in [Procs -> Steps] /\ late' \subseteq Procs
<1>0. step \in [Procs -> Steps] /\ late \subseteq Procs
  BY DEF NInv, LedgerTypeOK
<1>1. ASSUME NEW q \in Procs, PersistStep(q) PROVE Goal
  BY <1>1, PersistEnters
<1>2. ASSUME NEW q \in {Launcher, Worker}, Publish(q) PROVE Goal
  <2>1. result' # NoResult /\ status' = result'.verdict /\ row' = row /\ q \in Procs
    BY <1>2, Paired DEF Publish, NInv, Procs
  <2>2. CASE Begin(q)
    BY <2>1, <2>2, BeginEnters
  <2>3. CASE UNCHANGED <<step, late>>
    BY <1>0, <2>3 DEF Enters
  <2> QED
    BY <1>2, <2>2, <2>3 DEF Publish
<1>3. CASE WorkerPersists
  <2>1. result # NoResult /\ status = result.verdict /\ Worker \in Procs
    BY <1>3 DEF WorkerPersists, NInv, IInv, WorkerInv, TerminalIsPaired, Procs
  <2>2. UNCHANGED vars /\ row' = row /\ Begin(Worker)
    BY <1>3 DEF WorkerPersists
  <2> QED
    BY <2>1, <2>2, BeginEnters DEF vars
<1>4. ASSUME NEW o \in Operators, RepairAndPersist(o) \/ PersistAgain(o) PROVE Goal
  <2>1. o \in Procs /\ row' = row /\ Begin(o)
    BY <1>4 DEF RepairAndPersist, PersistAgain, Procs
  <2>2. result' # NoResult /\ status' = result'.verdict
    BY <1>4, <2>1 DEF RepairAndPersist, ProjectResult, PersistAgain, vars, NInv, IInv, CommitInv
  <2> QED
    BY <2>1, <2>2, BeginEnters
<1>5. CASE WorkerLost
  BY <1>0, <1>5 DEF WorkerLost, Enters, Steps, Busy
<1>6. CASE GatewayLost
  BY <1>0, <1>6 DEF GatewayLost, Enters, Steps, Busy
<1>7. CASE UNCHANGED <<step, late>>
  BY <1>0, <1>7 DEF Enters
<1>8. \/ \E q \in Procs : PersistStep(q)
      \/ \E q \in {Launcher, Worker} : Publish(q)
      \/ WorkerPersists
      \/ \E o \in Operators : RepairAndPersist(o) \/ PersistAgain(o)
      \/ WorkerLost \/ GatewayLost
      \/ UNCHANGED <<step, late>>
  BY DEF NNext, nvars, ledger, Aside, RegisterRow, RegisterRowFails, WorkerEnds, WorkerRetries,
     OperatorActs, WorkerLostRegistering, Watch, Offer, Deliver
<1> QED
  BY <1>1, <1>2, <1>3, <1>4, <1>5, <1>6, <1>7, <1>8

\* A completion in the ledger stands; a new one is the verdict of the run.
LEMMA RowStep ==
  ASSUME NInv, [NNext]_nvars
  PROVE  /\ row \in Terminal => row' = row
         /\ row' \in Terminal => row' = row \/ (result # NoResult /\ status = result.verdict
                                                  /\ row' = result.verdict)
         /\ row' \in {"none", "running"} \cup Terminal
<1> DEFINE Goal ==
      /\ row \in Terminal => row' = row
      /\ row' \in Terminal => row' = row \/ (result # NoResult /\ status = result.verdict
                                               /\ row' = result.verdict)
      /\ row' \in {"none", "running"} \cup Terminal
<1>0. /\ row \in Terminal => result # NoResult /\ row = result.verdict /\ row = status
      /\ row \in {"none", "running"} \cup Terminal
      /\ result # NoResult => result.verdict \in Terminal
  BY DEF NInv, CompletionIsTheVerdict, LedgerTypeOK, IInv, TypeOK, Results
<1>1. ASSUME NEW p \in Procs, step[p] = "write", row' = result.verdict PROVE Goal
  BY <1>0, <1>1 DEF NInv, AfterPublication, Busy
<1>2. CASE row' = row
  BY <1>0, <1>2
<1>3. CASE row' = "running" /\ row \notin Terminal
  BY <1>0, <1>3 DEF Terminal
<1>4. \/ \E p \in Procs : step[p] = "write" /\ row' = result.verdict
      \/ row' = row
      \/ row' = "running" /\ row \notin Terminal
  <2>1. ASSUME NEW p \in Procs, PersistStep(p)
        PROVE  \/ step[p] = "write" /\ row' = result.verdict
               \/ row' = row
               \/ row' = "running" /\ row \notin Terminal
    BY <2>1 DEF PersistStep, NotWanted, RequestGone, Examine, RegisterEnded, WriteCompletion,
       PersistFails, Final, Terminal
  <2>2. CASE RegisterRow \/ RegisterRowFails \/ WorkerLostRegistering
    BY <1>0, <2>2 DEF RegisterRow, RegisterRowFails, WorkerLostRegistering
  <2>3. CASE row' = row
    BY <2>3
  <2>4. \/ \E p \in Procs : PersistStep(p)
        \/ RegisterRow \/ RegisterRowFails \/ WorkerLostRegistering
        \/ row' = row
    BY DEF NNext, nvars, ledger, Aside, Publish, WorkerPersists, WorkerEnds, WorkerRetries,
       OperatorActs, RepairAndPersist, PersistAgain, WorkerLost, GatewayLost, Watch, Offer, Deliver
  <2> QED
    BY <2>1, <2>2, <2>3, <2>4
<1> QED
  BY <1>1, <1>2, <1>3, <1>4

\* What is offered was published, and what was offered is in the ledger.
LEMMA OfferStep ==
  ASSUME NInv, [NNext]_nvars
  PROVE  /\ offer' \in {"before", "after"} \cup Terminal
         /\ offer' \in Terminal => offer' = offer \/ (result # NoResult /\ offer' = result.verdict)
         /\ offered' = offered \/ (offered' = offered \cup {row} /\ row \in Terminal)
<1> DEFINE Goal ==
      /\ offer' \in {"before", "after"} \cup Terminal
      /\ offer' \in Terminal => offer' = offer \/ (result # NoResult /\ offer' = result.verdict)
      /\ offered' = offered \/ (offered' = offered \cup {row} /\ row \in Terminal)
<1>0. /\ offer \in {"before", "after"} \cup Terminal
      /\ result # NoResult => result.verdict \in Terminal
      /\ "after" \notin Terminal
  BY DEF NInv, LedgerTypeOK, IInv, TypeOK, Results, Terminal
<1>1. ASSUME NEW p \in Procs, PersistStep(p) PROVE Goal
  <2>1. CASE Push(p) /\ result # NoResult /\ offered' = offered
    BY <1>0, <2>1 DEF Push
  <2>2. CASE offer' = offer /\ offered' = offered
    BY <1>0, <2>2
  <2>3. step[p] = "write" => result # NoResult
    BY DEF NInv, AfterPublication, Busy
  <2>4. row \in Terminal => result # NoResult
    BY DEF NInv, CompletionIsTheVerdict
  <2> QED
    BY <1>1, <2>1, <2>2, <2>3, <2>4
    DEF PersistStep, NotWanted, RequestGone, Examine, RegisterEnded, WriteCompletion, PersistFails
<1>2. CASE GatewayLost
  BY <1>0, <1>2 DEF GatewayLost
<1>3. CASE Watch
  BY <1>0, <1>3 DEF Watch
<1>4. CASE Offer
  BY <1>0, <1>4 DEF Offer
<1>5. CASE offer' = offer /\ offered' = offered
  BY <1>0, <1>5
<1>6. \/ \E p \in Procs : PersistStep(p)
      \/ GatewayLost \/ Watch \/ Offer
      \/ offer' = offer /\ offered' = offered
  BY DEF NNext, nvars, ledger, Aside, RegisterRow, RegisterRowFails, Publish, WorkerPersists,
     WorkerEnds, WorkerRetries, OperatorActs, RepairAndPersist, PersistAgain, WorkerLost,
     WorkerLostRegistering, Deliver
<1> QED
  BY <1>1, <1>2, <1>3, <1>4, <1>5, <1>6

LEMMA LedgerTypeStep ==
  ASSUME NInv, [NNext]_nvars
  PROVE  LedgerTypeOK'
<1>1. TypeOK'
  BY RunKept DEF NInv, IInv
<1>2. step' \in [Procs -> Steps] /\ late' \subseteq Procs
  <2>1. Worker \in Procs
    BY DEF Procs
  <2> QED
    BY <2>1, EveryEnters
<1>3. notify' = notify /\ compatible' = compatible
  BY DEF NNext, nvars, ledger, Aside, PersistStep, NotWanted, RequestGone, Examine, RegisterEnded,
     WriteCompletion, PersistFails, RegisterRow, RegisterRowFails, Publish, WorkerPersists,
     WorkerEnds, WorkerRetries, OperatorActs, RepairAndPersist, PersistAgain, WorkerLost,
     WorkerLostRegistering, GatewayLost, Watch, Offer, Deliver
<1>4. delivery' \in {"pending", "delivered", "dropped"}
  BY DEF NInv, LedgerTypeOK,
     NNext, nvars, ledger, Aside, PersistStep, NotWanted, RequestGone, Examine, RegisterEnded,
     WriteCompletion, PersistFails, RegisterRow, RegisterRowFails, Publish, WorkerPersists,
     WorkerEnds, WorkerRetries, OperatorActs, RepairAndPersist, PersistAgain, WorkerLost,
     WorkerLostRegistering, GatewayLost, Watch, Offer, Deliver
<1>5. offered' \subseteq Terminal
  BY OfferStep DEF NInv, LedgerTypeOK
<1> QED
  BY <1>1, <1>2, <1>3, <1>4, <1>5, RowStep, OfferStep DEF NInv, LedgerTypeOK

LEMMA AfterPublicationStep ==
  ASSUME NInv, [NNext]_nvars
  PROVE  AfterPublication'
<1> SUFFICES ASSUME NEW p \in Procs, step'[p] \in Busy
             PROVE  result' # NoResult /\ status' = result'.verdict
  BY DEF AfterPublication
<1>1. CASE step[p] \in Busy
  <2>1. result # NoResult /\ status = result.verdict /\ status \in Terminal
    BY <1>1 DEF NInv, AfterPublication, IInv, TypeOK, Results
  <2> QED
    BY <2>1, RunKept DEF NInv
<1>2. CASE step[p] \notin Busy
  BY <1>2, EveryEnters DEF Enters
<1> QED
  BY <1>1, <1>2

LEMMA LateOnlyLooksStep ==
  ASSUME NInv, [NNext]_nvars
  PROVE  LateOnlyLooks'
<1> SUFFICES ASSUME NEW p \in Procs, p \in late', step'[p] \in Busy
             PROVE  step'[p] = "examine" /\ row' \in Terminal
  BY DEF LateOnlyLooks
<1>1. Enters(p) /\ (row \in Terminal => row' = row)
  BY EveryEnters, RowStep
<1> QED
  BY <1>1 DEF Enters, NInv, LateOnlyLooks

LEMMA VerdictStep ==
  ASSUME NInv, [NNext]_nvars
  PROVE  CompletionIsTheVerdict'
<1>0. /\ result # NoResult => result' = result
      /\ status \in Terminal => status' = status
      /\ result # NoResult => result.verdict \in Terminal
  BY RunKept DEF NInv, IInv, TypeOK, Results
<1>1. row' \in Terminal => result' # NoResult /\ row' = result'.verdict /\ row' = status'
  BY <1>0, RowStep DEF NInv, CompletionIsTheVerdict
<1>2. offer' \in Terminal => result' # NoResult /\ offer' = result'.verdict
  BY <1>0, OfferStep DEF NInv, CompletionIsTheVerdict
<1>3. offered' # {} => offered' = {row'}
  <2>1. offered # {} => offered = {row} /\ row \in Terminal
    BY DEF NInv, CompletionIsTheVerdict, LedgerTypeOK
  <2> QED
    BY <2>1, OfferStep, RowStep
<1> QED
  BY <1>1, <1>2, <1>3 DEF CompletionIsTheVerdict

-----------------------------------------------------------------------------
\* The run directory and the ledger agree at all times.
THEOREM LedgerInvariance == NSpec => []NInv
<1>1. NInv /\ [NNext]_nvars => NInv'
  BY RunKept, LedgerTypeStep, AfterPublicationStep, LateOnlyLooksStep, VerdictStep DEF NInv
<1> QED
  BY <1>1, NInitially, PTL DEF NSpec

\* What is announced, offered or in a watcher's hand is the verdict of the run.
THEOREM CompletionsAreVerdicts == NSpec => []CompletionIsTheVerdict
<1>1. NInv => CompletionIsTheVerdict
  BY DEF NInv
<1> QED
  BY <1>1, LedgerInvariance, PTL

\* A completion is final, and delivered again only for who began before it.
THEOREM CompletionsAreFinal == NSpec => CompletionIsFinal
<1> DEFINE A == /\ row \in Terminal => row' = row
                /\ delivery # "pending" /\ delivery' = "pending" =>
                     \E p \in Procs : step[p] = "write" /\ p \notin late
<1>1. ASSUME NInv, [NNext]_nvars PROVE A
  <2>1. row \in Terminal => row' = row
    BY <1>1, RowStep
  <2>2. ASSUME delivery # "pending", delivery' = "pending"
        PROVE  \E p \in Procs : step[p] = "write"
    BY <1>1, <2>2
    DEF NNext, nvars, ledger, Aside, PersistStep, NotWanted, RequestGone, Examine, RegisterEnded,
      WriteCompletion, PersistFails, RegisterRow, RegisterRowFails, Publish, WorkerPersists,
      WorkerEnds, WorkerRetries, OperatorActs, RepairAndPersist, PersistAgain, WorkerLost,
      WorkerLostRegistering, GatewayLost, Watch, Offer, Deliver
  <2>3. \A p \in Procs : step[p] = "write" => p \notin late
    BY <1>1 DEF NInv, LateOnlyLooks, Busy
  <2> QED
    BY <2>1, <2>2, <2>3
<1>2. NInv /\ [NNext]_nvars => [A]_nvars
  BY <1>1
<1> QED
  BY <1>2, LedgerInvariance, PTL DEF NSpec, CompletionIsFinal

\* With the ledger too, a terminal lifecycle stands on a result and evidence is
\* never replaced.
THEOREM RunDirectoryKept == NSpec => []TerminalIsPaired /\ PublishedIsFinal
<1>1. NInv => TerminalIsPaired
  BY DEF NInv, IInv
<1>2. NInv /\ [NNext]_nvars => [(result # NoResult => result' = result)
                                  /\ (status \in Terminal => status' = status)]_vars
  BY RunKept DEF NInv
<1> QED
  BY <1>1, <1>2, LedgerInvariance, PTL DEF NSpec, PublishedIsFinal

\* The composition is still the write-once register.
THEOREM LedgerRefinement == NSpec => ImplementsRegister
<1>1. NInit => Abstract!Init
  BY InitRefines DEF NInit
<1>2. IInv /\ [NNext]_nvars => [Abstract!Next]_(Abstract!registerVars)
  <2> SUFFICES ASSUME IInv, [NNext]_nvars PROVE [Abstract!Next]_(Abstract!registerVars)
    OBVIOUS
  <2>1. CASE Failing
    BY <2>1 DEF Failing, Abstract!registerVars
  <2> QED
    BY <2>1, StepsOfRunStore, StepRefines
<1>3. NInv => IInv
  BY DEF NInv
<1> QED
  BY <1>1, <1>2, <1>3, LedgerInvariance, PTL DEF NSpec, ImplementsRegister, Abstract!Spec
=============================================================================
