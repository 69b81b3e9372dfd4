------------------------------ MODULE RunStore ------------------------------
(***************************************************************************)
(* The directory of one delegated run: status.json, result.json, the       *)
(* status lock and the cancel command, as the launcher, the worker and     *)
(* operator commands change them.  Terminal publication is two renames     *)
(* under one flock, result first; a process may die, or a write may fail,  *)
(* between any two of them, and the kernel then frees the lock.            *)
(***************************************************************************)
EXTENDS Naturals

CONSTANTS Operators,   \* operator commands: reconcile and prune
          Modes,       \* execution modes considered, a subset of AllModes
          Workspaces,  \* may the request ask for a managed checkout
          NoResult,    \* result.json does not exist
          Free,        \* nobody holds status.lock
          MaxFaults    \* bound on deaths and failed writes per behaviour

AllModes == {"detached", "thread", "foreground"}
Terminal == {"completed", "failed", "cancelled", "timed_out"}
Active   == {"running", "cancelling"}

Launcher == "launcher"
Worker   == "worker"
Procs    == {Launcher, Worker} \cup Operators

Results == [verdict : Terminal, by : Procs]

ASSUME OperatorsAssumption == Operators \cap {Launcher, Worker} = {}
ASSUME ModesAssumption     == Modes \subseteq AllModes
ASSUME WorkspaceAssumption == Workspaces \subseteq BOOLEAN
ASSUME ValuesAssumption    == NoResult \notin Results /\ Free \notin Procs
ASSUME FaultsAssumption    == MaxFaults \in Nat

VARIABLES
  mode,      \* how this run executes; fixed at dispatch
  workspace, \* the request asks for a managed checkout; fixed at dispatch
  dir,       \* "live", or "pruned" once renamed to a tombstone
  status,    \* the lifecycle in status.json, "absent" before it exists
  recorded,  \* status.json names the detached worker's pid
  result,    \* result.json
  cancel,    \* the cancel command and its acknowledgement
  lock,      \* holder of status.lock
  pc,        \* where each process is
  plan,      \* the verdict the worker is about to publish
  faults

vars == <<mode, workspace, dir, status, recorded, result, cancel, lock, pc,
          plan, faults>>

PCs == {"preparing", "ready", "spawning", "launched", "unborn", "booting",
        "executing", "publish", "commit", "persisting", "handler",
        "handlerCommit", "idle", "gone"}

TypeOK ==
  /\ mode \in Modes
  /\ workspace \in Workspaces
  /\ dir \in {"live", "pruned"}
  /\ status \in {"absent"} \cup Active \cup Terminal
  /\ recorded \in BOOLEAN
  /\ result \in Results \cup {NoResult}
  /\ cancel \in {"none", "pending", "accepted", "rejected"}
  /\ lock \in Procs \cup {Free}
  /\ pc \in [Procs -> PCs]
  /\ plan \in Terminal
  /\ faults \in 0 .. MaxFaults

Init ==
  /\ mode \in Modes
  /\ workspace \in Workspaces
  /\ dir = "live"
  /\ status = "absent"
  /\ recorded = FALSE
  /\ result = NoResult
  /\ cancel = "none"
  /\ lock = Free
  /\ pc = [p \in Procs |-> IF p = Launcher THEN "preparing"
                           ELSE IF p = Worker THEN "unborn" ELSE "idle"]
  /\ plan = "failed"
  /\ faults = 0

Goto(p, l) == pc' = [pc EXCEPT ![p] = l]

\* _locked_run_status: the flock is free and, once taken, the directory is
\* still the one that was opened and its status.json can be read.
CanLock == lock = Free /\ dir = "live" /\ status # "absent"

Fault == faults < MaxFaults /\ faults' = faults + 1

-----------------------------------------------------------------------------
(* The launcher: _launch_admitted and the start functions it calls.        *)

\* The run directory gets its first status.json.
Prepare ==
  /\ pc[Launcher] = "preparing"
  /\ status' = "running"
  /\ Goto(Launcher, "ready")
  /\ UNCHANGED <<mode, workspace, dir, recorded, result, cancel, lock, plan, faults>>

\* worktrees.prepare fails: it writes a failed status itself, outside the
\* lock and without a result, and leaves the rest to the failure publisher.
CheckoutFails ==
  /\ workspace
  /\ pc[Launcher] = "preparing"
  /\ status' = "failed"
  /\ Goto(Launcher, "handler")
  /\ UNCHANGED <<mode, workspace, dir, recorded, result, cancel, lock, plan, faults>>

\* An artifact cannot be written before there is a status.json.
PrepareFails ==
  /\ Fault
  /\ pc[Launcher] = "preparing"
  /\ Goto(Launcher, "handler")
  /\ UNCHANGED <<mode, workspace, dir, status, recorded, result, cancel, lock, plan>>

\* Capacity refused, or the worker could not be started at all.
LaunchRefused ==
  /\ pc[Launcher] = "ready"
  /\ mode # "foreground"
  /\ Goto(Launcher, "handler")
  /\ UNCHANGED <<mode, workspace, dir, status, recorded, result, cancel, lock, plan, faults>>

\* Popen of the detached worker, the status lock held over it.
SpawnWorker ==
  /\ pc[Launcher] = "ready"
  /\ mode = "detached"
  /\ CanLock
  /\ lock' = Launcher
  /\ pc' = [pc EXCEPT ![Launcher] = "spawning", ![Worker] = "booting"]
  /\ UNCHANGED <<mode, workspace, dir, status, recorded, result, cancel, plan, faults>>

\* The snapshot that names the worker, then the lock is released.
RecordWorker ==
  /\ pc[Launcher] = "spawning"
  /\ recorded' = TRUE
  /\ lock' = Free
  /\ Goto(Launcher, "launched")
  /\ UNCHANGED <<mode, workspace, dir, status, result, cancel, plan, faults>>

\* The snapshot cannot be written: the worker's group is killed and reaped
\* before the lock is released.
RecordFails ==
  /\ Fault
  /\ pc[Launcher] = "spawning"
  /\ lock' = Free
  /\ pc' = [pc EXCEPT ![Launcher] = "handler", ![Worker] = "gone"]
  /\ UNCHANGED <<mode, workspace, dir, status, recorded, result, cancel, plan>>

\* A background thread registers first; a foreground call just executes.
StartInProcess ==
  /\ pc[Launcher] = "ready"
  /\ mode # "detached"
  /\ pc' = [pc EXCEPT ![Launcher] = "launched",
                      ![Worker] = IF mode = "thread" THEN "booting" ELSE "executing"]
  /\ UNCHANGED <<mode, workspace, dir, status, recorded, result, cancel, lock, plan, faults>>

-----------------------------------------------------------------------------
(* The worker: _background_worker_main, or the thread and foreground forms. *)

\* _register_durable_notification: a run that is already final is left alone.
Register ==
  /\ pc[Worker] = "booting"
  /\ CanLock
  /\ Goto(Worker, IF status \in Terminal THEN "gone" ELSE "executing")
  /\ UNCHANGED <<mode, workspace, dir, status, recorded, result, cancel, lock, plan, faults>>

\* Native registration fails, or the run vanished: the failure handler runs.
RegisterFails ==
  /\ pc[Worker] = "booting"
  /\ lock = Free
  /\ Goto(Worker, "handler")
  /\ UNCHANGED <<mode, workspace, dir, status, recorded, result, cancel, lock, plan, faults>>

\* apply_cancel (an interactive, hence detached, run) tells readers first; a terminal status keeps its lifecycle.
MarkCancelling ==
  /\ mode = "detached"
  /\ pc[Worker] = "executing"
  /\ cancel = "pending"
  /\ CanLock
  /\ status' = IF status \in Terminal THEN status ELSE "cancelling"
  /\ UNCHANGED <<mode, workspace, dir, recorded, result, cancel, lock, pc, plan, faults>>

\* The acknowledgement file.
AckCancel(a) ==
  /\ pc[Worker] = "executing"
  /\ cancel = "pending"
  /\ cancel' = a
  /\ UNCHANGED <<mode, workspace, dir, status, recorded, result, lock, pc, plan, faults>>

\* The delegated child ends; an accepted cancel leaves two classifications.
Execute(v) ==
  /\ pc[Worker] = "executing"
  /\ cancel = "accepted" => v \in {"cancelled", "timed_out"}
  /\ plan' = v
  /\ Goto(Worker, "publish")
  /\ UNCHANGED <<mode, workspace, dir, status, recorded, result, cancel, lock, faults>>

\* Anything raised before publication.
ExecuteRaises ==
  /\ pc[Worker] = "executing"
  /\ Goto(Worker, "handler")
  /\ UNCHANGED <<mode, workspace, dir, status, recorded, result, cancel, lock, plan, faults>>

-----------------------------------------------------------------------------
(* publish_terminal_run, by the worker's finish_run or by a failure handler *)
(* of the worker or the launcher.                                           *)

Publishing(p) == p \in {Launcher, Worker} /\ pc[p] \in {"publish", "handler"}
Committing(p) == p \in {Launcher, Worker} /\ pc[p] \in {"commit", "handlerCommit"}

\* The status and the result a publisher proposes agree by its own check.
Proposal(p) == IF pc[p] \in {"handler", "handlerCommit"} THEN "failed" ELSE plan

\* An exception: finish_run's caller tries once more as a failure, a failure
\* handler gives up.
Raise(p) ==
  Goto(p, IF pc[p] \in {"publish", "commit"} THEN "handler" ELSE "gone")

\* The normal path still has the completion to persist; the handlers' callers
\* swallow or propagate whatever follows.
Done(p) == Goto(p, IF pc[p] \in {"publish", "commit"} THEN "persisting" ELSE "gone")

\* Mutant: publication without looking for existing evidence.
PublishResultBlind(p) ==
  /\ Publishing(p)
  /\ CanLock
  /\ result' = [verdict |-> Proposal(p), by |-> p]
  /\ lock' = p
  /\ Goto(p, IF pc[p] = "publish" THEN "commit" ELSE "handlerCommit")
  /\ UNCHANGED <<mode, workspace, dir, status, recorded, cancel, plan, faults>>

\* No evidence yet: the first rename, result.json.
PublishResult(p) ==
  /\ Publishing(p)
  /\ CanLock
  /\ result = NoResult
  /\ status \notin Terminal
  /\ result' = [verdict |-> Proposal(p), by |-> p]
  /\ lock' = p
  /\ Goto(p, IF pc[p] = "publish" THEN "commit" ELSE "handlerCommit")
  /\ UNCHANGED <<mode, workspace, dir, status, recorded, cancel, plan, faults>>

\* Mutant: the status comes from the worker's plan, also in a failure handler.
PublishPlannedStatus(p) ==
  /\ Committing(p)
  /\ status' = plan
  /\ lock' = Free
  /\ Done(p)
  /\ UNCHANGED <<mode, workspace, dir, recorded, result, cancel, plan, faults>>

\* The second rename, status.json.
PublishStatus(p) ==
  /\ Committing(p)
  /\ status' = Proposal(p)
  /\ lock' = Free
  /\ Done(p)
  /\ UNCHANGED <<mode, workspace, dir, recorded, result, cancel, plan, faults>>

\* A coherent pair exists: it is returned, nothing is rewritten.
PublishKept(p) ==
  /\ Publishing(p)
  /\ CanLock
  /\ result # NoResult
  /\ status = result.verdict
  /\ Done(p)
  /\ UNCHANGED <<mode, workspace, dir, status, recorded, result, cancel, lock, plan, faults>>

\* Ambiguous or vanished evidence.
PublishRefused(p) ==
  /\ Publishing(p)
  /\ lock = Free
  /\ \/ dir = "pruned"
     \/ status = "absent"
     \/ result = NoResult /\ status \in Terminal
     \/ result # NoResult /\ status # result.verdict
  /\ Raise(p)
  /\ UNCHANGED <<mode, workspace, dir, status, recorded, result, cancel, lock, plan, faults>>

\* The disk refuses a rename; leaving the block releases the lock.
PublishFails(p) ==
  /\ Fault
  /\ \/ Publishing(p) /\ CanLock
     \/ Committing(p)
  /\ lock' = Free
  /\ Raise(p)
  /\ UNCHANGED <<mode, workspace, dir, status, recorded, result, cancel, plan>>

\* The completion is persisted and the worker ends; an error on the way ends a
\* background thread too.
Persist ==
  /\ pc[Worker] = "persisting"
  /\ Goto(Worker, "gone")
  /\ UNCHANGED <<mode, workspace, dir, status, recorded, result, cancel, lock, plan, faults>>

\* Persisting raises after a verdict was published: the failure handler of the
\* detached worker runs.
PersistRaises ==
  /\ mode = "detached"
  /\ pc[Worker] = "persisting"
  /\ Goto(Worker, "handler")
  /\ UNCHANGED <<mode, workspace, dir, status, recorded, result, cancel, lock, plan, faults>>

-----------------------------------------------------------------------------
(* Control clients and operators.                                          *)

\* _write_control_command: one cancel command per run, refused when terminal.
RequestCancel ==
  /\ CanLock
  /\ status \notin Terminal
  /\ cancel = "none"
  /\ cancel' = "pending"
  /\ UNCHANGED <<mode, workspace, dir, status, recorded, result, lock, pc, plan, faults>>

\* The evidence decides: cancelled only when the cancel was acknowledged.
RepairVerdict == IF cancel = "accepted" THEN "cancelled" ELSE "failed"

\* Mutant: repair that makes a result of its own over a surviving one.
ReconcileAfresh(o) ==
  /\ pc[o] = "idle"
  /\ CanLock
  /\ status \in Active
  /\ recorded
  /\ pc[Worker] = "gone"
  /\ result' = [verdict |-> RepairVerdict, by |-> o]
  /\ lock' = o
  /\ Goto(o, "commit")
  /\ UNCHANGED <<mode, workspace, dir, status, recorded, cancel, plan, faults>>

\* _operator_reconcile up to its first write: a result that survived a crash
\* is kept, otherwise one is made.
Reconcile(o) ==
  /\ pc[o] = "idle"
  /\ CanLock
  /\ status \in Active
  /\ recorded
  /\ pc[Worker] = "gone"
  /\ result' = IF result = NoResult THEN [verdict |-> RepairVerdict, by |-> o]
                                    ELSE result
  /\ lock' = o
  /\ Goto(o, "commit")
  /\ UNCHANGED <<mode, workspace, dir, status, recorded, cancel, plan, faults>>

\* Its second write projects the result into status.json.
ProjectResult(o) ==
  /\ pc[o] = "commit"
  /\ status' = result.verdict
  /\ lock' = Free
  /\ Goto(o, "idle")
  /\ UNCHANGED <<mode, workspace, dir, recorded, result, cancel, plan, faults>>

\* The operator dies, or its write fails, between the two.
OperatorFails(o) ==
  /\ Fault
  /\ pc[o] = "commit"
  /\ lock' = Free
  /\ Goto(o, "idle")
  /\ UNCHANGED <<mode, workspace, dir, status, recorded, result, cancel, plan>>

\* _locked_prune_candidate: an old enough terminal run is renamed away.
Prune(o) ==
  /\ pc[o] = "idle"
  /\ CanLock
  /\ status \in Terminal
  /\ dir' = "pruned"
  /\ UNCHANGED <<mode, workspace, status, recorded, result, cancel, lock, pc, plan, faults>>

-----------------------------------------------------------------------------
(* Deaths.  A detached worker outlives its launcher; a thread does not.     *)

WorkerDies ==
  /\ Fault
  /\ mode = "detached"
  /\ pc[Worker] \notin {"unborn", "gone"}
  /\ lock' = IF lock = Worker THEN Free ELSE lock
  /\ Goto(Worker, "gone")
  /\ UNCHANGED <<mode, workspace, dir, status, recorded, result, cancel, plan>>

Lost == IF mode = "detached" THEN {Launcher} ELSE {Launcher, Worker}

LauncherDies ==
  /\ Fault
  /\ \E p \in Lost : pc[p] \notin {"unborn", "gone"}
  /\ lock' = IF lock \in Lost THEN Free ELSE lock
  /\ pc' = [p \in Procs |-> IF p \in Lost /\ pc[p] # "unborn" THEN "gone" ELSE pc[p]]
  /\ UNCHANGED <<mode, workspace, dir, status, recorded, result, cancel, plan>>

-----------------------------------------------------------------------------
LauncherStep == \/ Prepare \/ CheckoutFails \/ PrepareFails \/ LaunchRefused
                \/ SpawnWorker \/ RecordWorker \/ RecordFails \/ StartInProcess

WorkerStep == \/ Register \/ RegisterFails \/ MarkCancelling
              \/ \E a \in {"accepted", "rejected"} : AckCancel(a)
              \/ \E v \in Terminal : Execute(v)
              \/ ExecuteRaises \/ Persist \/ PersistRaises

PublishStep(p) == \/ PublishResult(p) \/ PublishStatus(p) \/ PublishKept(p)
                  \/ PublishRefused(p) \/ PublishFails(p)

OperatorStep(o) == Reconcile(o) \/ ProjectResult(o) \/ OperatorFails(o) \/ Prune(o)

Next == \/ LauncherStep
        \/ WorkerStep
        \/ \E p \in {Launcher, Worker} : PublishStep(p)
        \/ RequestCancel
        \/ \E o \in Operators : OperatorStep(o)
        \/ WorkerDies
        \/ LauncherDies

Spec == Init /\ [][Next]_vars

-----------------------------------------------------------------------------
(* Safety *)

\* A terminal lifecycle always stands on a result with the same verdict.  The
\* one exception is a checkout that failed before any worker existed.
TerminalIsPaired ==
  status \in Terminal =>
    \/ result # NoResult /\ status = result.verdict
    \/ workspace /\ status = "failed" /\ result = NoResult /\ pc[Worker] = "unborn"

\* result.json is written once, and a terminal lifecycle is never replaced,
\* whatever fails, restarts or is repaired later.
PublishedIsFinal ==
  [][(result # NoResult => result' = result)
       /\ (status \in Terminal => status' = status)]_vars

\* After the rename to a tombstone, no late waiter writes to the run.
PrunedRunsAreFrozen ==
  [][dir = "pruned" => UNCHANGED <<dir, status, result, recorded, cancel>>]_vars

(* Refinement *)

Abstract == INSTANCE TerminalRegister WITH
  Verdicts  <- Terminal,
  NoVerdict <- "none",
  verdict   <- IF result = NoResult THEN "none" ELSE result.verdict,
  announced <- IF status \in Terminal /\ result # NoResult THEN status ELSE "none",
  retained  <- dir = "live" \/ result = NoResult

\* The two files and the lock together behave as one write-once register: a
\* verdict is decided once, announced as decided, and dropped only afterwards.
ImplementsRegister == Abstract!Spec

-----------------------------------------------------------------------------
(* The inductive invariant of the proofs.                                   *)

\* The lock is held exactly by a process between its two writes.
LockInv ==
  \A p \in Procs : lock = p <=> pc[p] \in {"spawning", "commit", "handlerCommit"}

\* Each actor stays within its own control points.
RoleInv ==
  /\ pc[Launcher] \in {"preparing", "ready", "spawning", "launched", "handler",
                       "handlerCommit", "gone"}
  /\ pc[Worker] \in {"unborn", "booting", "executing", "publish", "commit",
                     "persisting", "handler", "handlerCommit", "gone"}
  /\ \A o \in Operators : pc[o] \in {"idle", "commit"}

\* Until the worker is launched only the launcher acts, and once its failure
\* handler runs there is no worker left to race it.
LaunchInv ==
  /\ pc[Launcher] = "preparing" => status = "absent"
  /\ status = "absent" => result = NoResult
  /\ pc[Launcher] \in {"ready", "spawning"} => status \in Active
  /\ pc[Launcher] \in {"preparing", "ready"} => pc[Worker] = "unborn"
  /\ pc[Launcher] = "spawning" => pc[Worker] \in {"booting", "gone"}
  /\ pc[Launcher] \in {"handler", "handlerCommit"} => pc[Worker] \in {"unborn", "gone"}
  /\ recorded => pc[Launcher] \in {"launched", "gone"}

\* Between the two renames the result is there, agrees with the status to be
\* written, and the lifecycle is still active; a repair in progress has a dead
\* worker.
CommitInv ==
  /\ \A p \in Procs : pc[p] \in {"commit", "handlerCommit"} =>
       result # NoResult /\ status \in Active
  /\ \A p \in {Launcher, Worker} : Committing(p) => result.verdict = Proposal(p)
  /\ \A o \in Operators : pc[o] = "commit" => recorded /\ pc[Worker] = "gone"

\* A worker with work left to publish has not been finalized by anybody.
WorkerInv ==
  /\ status \in Terminal => pc[Worker] \in {"unborn", "persisting", "handler", "gone"}
  /\ pc[Worker] = "persisting" => status \in Terminal

\* An operator's verdict is made for a recorded worker that is dead for good.
RepairInv ==
  result # NoResult /\ result.by \in Operators => recorded /\ pc[Worker] = "gone"

\* A pruned run was announced, and no process still holds its lock.
PruneInv == dir = "pruned" => status \in Terminal /\ lock = Free

IInv == /\ TypeOK /\ LockInv /\ RoleInv /\ LaunchInv /\ CommitInv /\ WorkerInv
        /\ TerminalIsPaired /\ RepairInv /\ PruneInv

-----------------------------------------------------------------------------
(* What the documentation says and the code does not do *)

\* README: terminal publishers write a valid result before terminal status.
EveryTerminalStatusHasResult == status \in Terminal => result # NoResult
=============================================================================
