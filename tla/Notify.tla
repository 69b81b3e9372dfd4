------------------------------- MODULE Notify -------------------------------
(***************************************************************************)
(* The announcement of a run's end through the completion ledger of the    *)
(* host, composed with the run directory of RunStore.  The worker registers *)
(* a row before it executes; worker, failed launcher and every repair      *)
(* persist the completion afterwards, each by looking at the row first and  *)
(* writing later, outside the status lock; the gateway that launched the   *)
(* run offers the completion to its conversation; the host delivers it.    *)
(***************************************************************************)
EXTENDS RunStore

VARIABLES
  notify,     \* the request wants to be told and names a lane; fixed at dispatch
  compatible, \* the host has a ledger of the expected shape
  row,        \* the ledger's row: "none", "running", or the verdict it holds
  delivery,   \* the row's delivery_state
  step,       \* where each process is in _persist_profile_delegate_completion
  late,       \* history: whoever began to persist after a completion was there
  offer,      \* the offering thread: before, with a verdict in hand, or after
  offered     \* verdicts put into the gateway's completion queue

ledger == <<notify, compatible, row, delivery, step, late, offer, offered>>
nvars  == <<vars, ledger>>

Busy  == {"examine", "register", "reexamine", "write"}
Steps == Busy \cup {"idle", "done", "raised"}

LedgerTypeOK ==
  /\ TypeOK
  /\ notify \in BOOLEAN
  /\ compatible \in BOOLEAN
  /\ row \in {"none", "running"} \cup Terminal
  /\ delivery \in {"pending", "delivered", "dropped"}
  /\ step \in [Procs -> Steps]
  /\ late \subseteq Procs
  /\ offer \in {"before", "after"} \cup Terminal
  /\ offered \subseteq Terminal

\* Admission refuses a background run that is to notify when the ledger is
\* not of the expected shape, which is only looked at for a run that notifies.
NInit ==
  /\ Init
  /\ notify \in BOOLEAN
  /\ compatible \in BOOLEAN
  /\ ~ compatible => notify /\ mode = "foreground"
  /\ row = "none"
  /\ delivery = "pending"
  /\ step = [p \in Procs |-> "idle"]
  /\ late = {}
  /\ offer = "before"
  /\ offered = {}

-----------------------------------------------------------------------------
(* Persisting: _persist_profile_delegate_completion, a step per access.     *)

\* A call begins.
Begin(p) ==
  /\ step' = [step EXCEPT ![p] = "examine"]
  /\ late' = IF row \in Terminal THEN late \cup {p} ELSE late \ {p}

\* A call ends; an operator is then free for its next command.
Leave(p, s) ==
  /\ step' = [step EXCEPT ![p] = IF p \in Operators THEN "idle" ELSE s]
  /\ late' = late \ {p}

End(p)    == Leave(p, "done")
Raised(p) == Leave(p, "raised")

\* In thread mode a worker whose completion is in the ledger offers it itself.
Push(p) ==
  offer' = IF mode = "thread" /\ p = Worker /\ offer = "before"
           THEN result.verdict ELSE offer

\* Nobody is to be told: the request says so, or names no lane.
NotWanted(p) ==
  /\ step[p] = "examine"
  /\ ~ notify
  /\ CanLock
  /\ End(p)
  /\ UNCHANGED <<vars, notify, compatible, row, delivery, offer, offered>>

\* The run was pruned, and its request with it.
RequestGone(p) ==
  /\ step[p] = "examine"
  /\ dir = "pruned"
  /\ Raised(p)
  /\ UNCHANGED <<vars, notify, compatible, row, delivery, offer, offered>>

\* Mutant: a row that is complete is written again.
ExamineForce(p) ==
  /\ notify /\ compatible
  /\ \/ step[p] = "examine" /\ dir = "live"
     \/ step[p] = "reexamine"
  /\ step' = [step EXCEPT ![p] = IF row = "none" THEN "register" ELSE "write"]
  /\ UNCHANGED <<vars, notify, compatible, row, delivery, late, offer, offered>>

\* Mutant: a run that was never registered is left out.
ExamineRegistered(p) ==
  /\ notify /\ compatible
  /\ \/ step[p] = "examine" /\ dir = "live"
     \/ step[p] = "reexamine"
  /\ IF row = "running" THEN step' = [step EXCEPT ![p] = "write"] /\ UNCHANGED <<late, offer>>
                        ELSE End(p) /\ Push(p)
  /\ UNCHANGED <<vars, notify, compatible, row, delivery, offered>>

\* The row decides: absent, it is registered first; open, it is completed;
\* complete, it is left alone.
Examine(p) ==
  /\ notify /\ compatible
  /\ \/ step[p] = "examine" /\ dir = "live"
     \/ step[p] = "reexamine"
  /\ \/ /\ row = "none"
        /\ step' = [step EXCEPT ![p] = "register"]
        /\ UNCHANGED <<late, offer>>
     \/ /\ row = "running"
        /\ step' = [step EXCEPT ![p] = "write"]
        /\ UNCHANGED <<late, offer>>
     \/ /\ row \in Terminal
        /\ End(p)
        /\ Push(p)
  /\ UNCHANGED <<vars, notify, compatible, row, delivery, offered>>

\* _register_durable_notification with allow_terminal: under the status lock
\* the row is looked for again, and one of this lane is kept.
RegisterEnded(p) ==
  /\ step[p] = "register"
  /\ CanLock
  /\ row' = IF row = "none" THEN "running" ELSE row
  /\ step' = [step EXCEPT ![p] = "reexamine"]
  /\ UNCHANGED <<vars, notify, compatible, delivery, late, offer, offered>>

\* The verdict that publication returned: result.json is written once.
Final == result.verdict

\* persist_completion: the host's row takes event and result, and waits for
\* delivery.
WriteCompletion(p) ==
  /\ step[p] = "write"
  /\ row' = Final
  /\ delivery' = "pending"
  /\ End(p)
  /\ Push(p)
  /\ UNCHANGED <<vars, notify, compatible, offered>>

\* A ledger call or a status write fails, or the process dies: the completion
\* may have been committed or not.  No ledger of the expected shape fails too.
PersistFails(p) ==
  /\ step[p] \in Busy
  /\ \/ ~ compatible /\ notify /\ UNCHANGED faults
     \/ dir = "pruned" /\ step[p] = "register" /\ UNCHANGED faults
     \/ Fault
  /\ \/ UNCHANGED <<row, delivery>>
     \/ step[p] = "write" /\ row' = Final /\ delivery' = "pending"
  /\ End(p) \/ Raised(p)
  /\ UNCHANGED <<mode, workspace, dir, status, recorded, result, cancel, lock, pc,
                 plan, notify, compatible, offer, offered>>

PersistStep(p) ==
  \/ NotWanted(p) \/ RequestGone(p) \/ Examine(p) \/ RegisterEnded(p)
  \/ WriteCompletion(p) \/ PersistFails(p)

-----------------------------------------------------------------------------
(* The steps of RunStore that begin, end or cut off a notification.         *)

Aside(A) == A /\ UNCHANGED ledger

\* The worker's row, under the status lock and before it executes.  One worker
\* is started per run, so that it never finds a row; a run that is already
\* final is left alone.
RegisterRow ==
  /\ Register
  /\ row' = IF notify /\ status \notin Terminal THEN "running" ELSE row
  /\ UNCHANGED <<notify, compatible, delivery, step, late, offer, offered>>

\* Registration fails before or after the host wrote the row.
RegisterRowFails ==
  /\ RegisterFails
  /\ \/ UNCHANGED row
     \/ notify /\ CanLock /\ status \notin Terminal /\ row = "none" /\ row' = "running"
  /\ UNCHANGED <<notify, compatible, delivery, step, late, offer, offered>>

\* A publisher has its pair: a failure handler goes on to persist at once.
Publish(p) ==
  /\ PublishStatus(p) \/ PublishKept(p)
  /\ IF pc[p] \in {"handler", "handlerCommit"} THEN Begin(p) ELSE UNCHANGED <<step, late>>
  /\ UNCHANGED <<notify, compatible, row, delivery, offer, offered>>

\* The worker persists what it published; a foreground call returns instead.
WorkerPersists ==
  /\ mode # "foreground"
  /\ pc[Worker] = "persisting"
  /\ step[Worker] = "idle"
  /\ Begin(Worker)
  /\ UNCHANGED <<vars, notify, compatible, row, delivery, offer, offered>>

WorkerEnds ==
  /\ Persist
  /\ \/ mode = "foreground"
     \/ step[Worker] = "done"
     \/ mode = "thread" /\ step[Worker] = "raised"
  /\ UNCHANGED ledger

\* An exception on the way: the failure handler publishes, and persists, anew.
WorkerRetries ==
  /\ PersistRaises
  /\ step[Worker] = "raised"
  /\ UNCHANGED ledger

\* Repair ends by persisting what it projected ...
RepairAndPersist(o) ==
  /\ ProjectResult(o)
  /\ Begin(o)
  /\ UNCHANGED <<notify, compatible, row, delivery, offer, offered>>

\* ... and so does repair of a run that needs none.
PersistAgain(o) ==
  /\ pc[o] = "idle" /\ step[o] = "idle"
  /\ CanLock
  /\ status \in Terminal
  /\ result # NoResult /\ result.verdict = status
  /\ Begin(o)
  /\ UNCHANGED <<vars, notify, compatible, row, delivery, offer, offered>>

OperatorActs(o) ==
  /\ step[o] = "idle"
  /\ \/ Aside(Reconcile(o) \/ OperatorFails(o) \/ Prune(o))
     \/ RepairAndPersist(o)
     \/ PersistAgain(o)

WorkerLost ==
  /\ WorkerDies
  /\ step' = [step EXCEPT ![Worker] = "done"]
  /\ UNCHANGED <<notify, compatible, row, delivery, late, offer, offered>>

\* The worker dies between the host's row and its own note of it.
WorkerLostRegistering ==
  /\ WorkerDies
  /\ pc[Worker] = "booting"
  /\ CanLock /\ status \notin Terminal
  /\ notify /\ row' = "running"
  /\ UNCHANGED <<notify, compatible, delivery, step, late, offer, offered>>

\* The gateway dies, with its watcher and a worker that is its thread.
GatewayLost ==
  /\ LauncherDies
  /\ step' = [p \in Procs |-> IF p \in Lost THEN "done" ELSE step[p]]
  /\ offer' = "after"
  /\ UNCHANGED <<notify, compatible, row, delivery, late, offered>>

-----------------------------------------------------------------------------
(* The offer, by the gateway that launched the run, and the host.           *)

WorkerExited == pc[Worker] = "gone" /\ step[Worker] \notin Busy

\* Mutant: the watcher does not look at result.json.
WatchStatus ==
  /\ mode = "detached"
  /\ pc[Launcher] = "launched" /\ offer = "before"
  /\ WorkerExited
  /\ CanLock
  /\ offer' = IF status \in Terminal THEN plan ELSE "after"
  /\ UNCHANGED <<vars, notify, compatible, row, delivery, step, late, offered>>

\* The watcher of a detached worker: once that has exited, it takes a coherent
\* pair under the status lock, or gives up.
Watch ==
  /\ mode = "detached"
  /\ pc[Launcher] = "launched" /\ offer = "before"
  /\ WorkerExited
  /\ lock = Free
  /\ offer' = IF /\ CanLock /\ status \in Terminal
                 /\ result # NoResult /\ result.verdict = status
              THEN status ELSE "after"
  /\ UNCHANGED <<vars, notify, compatible, row, delivery, step, late, offered>>

\* offer_completion: only what the ledger holds, undelivered, is queued.
Offer ==
  /\ offer \in Terminal
  /\ offered' = IF notify /\ dir = "live" /\ row = offer /\ delivery = "pending"
                THEN offered \cup {offer} ELSE offered
  /\ offer' = "after"
  /\ UNCHANGED <<vars, notify, compatible, row, delivery, step, late>>

\* The host delivers a completed row, from its queue or after a restart, or
\* drops it when it is too old or was tried too often.
Deliver(d) ==
  /\ row \in Terminal
  /\ delivery = "pending"
  /\ delivery' = d
  /\ UNCHANGED <<vars, notify, compatible, row, step, late, offer, offered>>

-----------------------------------------------------------------------------
NNext ==
  \/ Aside(LauncherStep)
  \/ RegisterRow \/ RegisterRowFails
  \/ Aside(MarkCancelling \/ ExecuteRaises)
  \/ \E a \in {"accepted", "rejected"} : Aside(AckCancel(a))
  \/ \E v \in Terminal : Aside(Execute(v))
  \/ \E p \in {Launcher, Worker} :
       Aside(PublishResult(p) \/ PublishRefused(p) \/ PublishFails(p)) \/ Publish(p)
  \/ WorkerPersists \/ WorkerEnds \/ WorkerRetries
  \/ \E p \in Procs : PersistStep(p)
  \/ Aside(RequestCancel)
  \/ \E o \in Operators : OperatorActs(o)
  \/ WorkerLost \/ WorkerLostRegistering \/ GatewayLost
  \/ Watch \/ Offer
  \/ \E d \in {"delivered", "dropped"} : Deliver(d)

NSpec == NInit /\ [][NNext]_nvars

(***************************************************************************)
(* Processes that have work keep running; the bound on faults ends crash   *)
(* loops.  Reconciliation is a human command: its fairness says only that  *)
(* somebody keeps repairing a run that stays broken, or whose completion   *)
(* is missing.  Nothing is asked of the watcher and of the host.           *)
(***************************************************************************)
NFairness ==
  /\ WF_nvars(Aside(Prepare \/ SpawnWorker \/ RecordWorker \/ StartInProcess))
  /\ WF_nvars(RegisterRow \/ WorkerPersists \/ WorkerEnds \/ WorkerRetries
                \/ \E v \in Terminal : Aside(Execute(v)))
  /\ \A p \in {Launcher, Worker} :
       WF_nvars(Aside(PublishResult(p) \/ PublishRefused(p)) \/ Publish(p))
  /\ \A p \in Procs : WF_nvars(PersistStep(p) /\ UNCHANGED faults)
  /\ \A o \in Operators :
       /\ WF_nvars(step[o] = "idle" /\ Aside(Reconcile(o)))
       /\ WF_nvars(RepairAndPersist(o))
       /\ WF_nvars(row \notin Terminal /\ PersistAgain(o))

NFairSpec == NSpec /\ NFairness

-----------------------------------------------------------------------------
(* Safety *)

\* What the ledger announces, what is offered and what a watcher has in hand is
\* the verdict of the run, decided and published before.
CompletionIsTheVerdict ==
  /\ row \in Terminal => result # NoResult /\ row = result.verdict /\ row = status
  /\ offered # {} => offered = {row}
  /\ offer \in Terminal => result # NoResult /\ offer = result.verdict

\* A completion is never taken back or changed; and only a persister that had
\* begun before there was one can make the host deliver it again.
CompletionIsFinal ==
  [][(row \in Terminal => row' = row)
       /\ (delivery # "pending" /\ delivery' = "pending" =>
             \E p \in Procs : step[p] = "write" /\ p \notin late)]_nvars

(* Liveness *)

\* A run whose detached worker was recorded ends, by its worker or by repair of
\* whatever that left behind; and if it is to notify, its completion comes into
\* the ledger, unless the run is pruned first.
RecordedRunsAreAnnounced ==
  recorded ~> (status \in Terminal /\ (notify => row \in Terminal)) \/ dir = "pruned"
=============================================================================
