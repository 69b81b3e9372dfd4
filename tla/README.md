# Profile Delegate: verification

This directory holds TLA+ specifications of the Profile Delegate plugin (the Python files at the top of
the repository), the TLC configurations that check them on small instances, and TLAPS proofs of what matters
most about each. Line numbers are those of the repository's files (`core.py:509` is `src/core.py`, line 509).

Contents: [1 The system](#1-the-system) · [2 Modules](#2-modules) · [3 Runs](#3-runs) ·
[4 Fairness](#4-fairness) · [5 Proofs](#5-proofs) · [6 Where documents and code
disagree](#6-where-documents-and-code-disagree) · [7 Assumptions and simplifications](#7-assumptions-and-simplifications) ·
[8 Not modelled](#8-not-modelled) · [9 Plan](#9-plan)

How to run, inside this directory:

    tlasany RunStore.tla
    tlc -workers 2 -config RunStore.cfg MCNotify
    tlapm RunDirectoryProofs.tla

## 1 The system

A conversation of a Hermes agent delegates a task to another Hermes profile. Each delegation is a *run*:
a directory under `runs/` with `request.json`, `status.json`, `result.json`, a status lock, an inbox of control
commands and, for interactive runs, an event journal. A run is executed in one of three ways: in the caller
(*foreground*), by a thread of the gateway process (*thread*) or by a worker process that outlives its
launcher (*detached*). The worker starts a child: a command line agent under a deadline (*simple* run) or
a native gateway driven by JSON-RPC over its pipes (*interactive* run). The child is a session of the host; a
later run may resume it, under the id that native compression has given it since, in the checkout and
with the approval of the first. The child may delegate in its turn. Nothing is shared but files, flocks,
pipes, signals, the host's databases and, inside one gateway, one counter of threads.

| Component | State | Operations | Talks to | Hard part | Correct when |
|---|---|---|---|---|---|
| Run directory (`core.py` 506–641, 2326–2700, 2775–3061, 3395–3444; `worktrees.py` 137–159) | `status.json`, `result.json`, `status.lock`, tombstone | create, launch, register, publish, publish a failure, repair, prune | everybody, through the lock | two renames are not one; any process may die between two writes; three parties may decide one run | one verdict, written once, announced as decided, kept until it is final |
| Durable notifications (`core.py` 2224–2325, `native.py`) | the host's completion ledger and delivery queue | register, examine, write, offer, deliver, drop | run directory, host | worker, handler and repairs persist one completion, each by looking first and writing later | the ledger announces the verdict, once it is published, and only that |
| Dispatch (`core.py` 251–417, 1427–1490, 2503–2605, 2734–2834; `admission.py` 93–103) | admission, fingerprint and capacity flocks; `_async_running` | admit, search for a duplicate, create, count, spawn, refuse | run directories of other calls | several gateway processes; session identity changes under compression; stale scans | equal requests are not worked on twice; capacity holds; a refused launch ends its run; no launch under way is taken for a run; no deadlock |
| Permits (`core.py` 193–214, 1098–1131; `tui_runner.py` 575–714) | `slot_N.lock` | try each slot, hold, hand over to a reaper, release | children, status | teardown gives up on a child that still runs; the worker dies | a living child is accounted for; permits come back |
| Control channel (`core.py` 1797–1901, 3182–3263; `tui_runner.py` 193–320) | inbox, `next_seq.json`, acknowledgements, control lock | steer, cancel, wait, take, acknowledge, withdraw | status lock, worker | two locks, a check before each; clients die between two writes | one cancel; order kept; nothing after the end; every call returns |
| Simple run (`core.py` 1517–1696, 1986–1996, 2355–2500; `execution.py`) | one child, deadline, attempt number, footers | start, watch, stop, reap, resume, publish | inbox, parent's interrupt | cancel, interrupt, deadline, exit, held pipes and failing writes meet in any order | an accepted cancel is true; nothing is left alive; every run ends |
| Session continuity and resume (`core.py` 271–384, 1271–1360; `admission.py`) | the host's session table; records of earlier runs | prove a continuation, find the evidence, admit a resume | run directories, host | compression may be half done, branched, recorded twice; records damaged, pruned, conflicting | only the same conversation is continued; it keeps its charter; it can be continued |
| Managed worktrees (`worktrees.py`) | a checkout per conversation, `preparation_state` | prepare, observe, verify, recover | git, requests | Git fails half way, the process dies between intention and record | what Git made is on record; no run continues in another place |
| Native approval (`native_approval.py`) | frozen envelopes | snapshot, validate, admit a resume | configuration, nested runs | configuration changes between runs; delegations nest and resume | authority never widens |
| Interactive run (`tui_runner.py`, `native.py`) | identity, turn, follow-up, corrections, receipts, verdict | start, bind, poll, correct, verify, cancel, time out, tear down, publish | RPC client, inbox, receipts | identities out of order, late replies, requeued corrections, a silent or dead host | the child is the right session; receipts are true; the verdict is earned; every run ends |
| RPC client (`tui_rpc.py`) | request numbers, abandoned requests, half-written frames, signals | call, read, write, close | gateway | late answers, partial frames, full pipes, a gateway that does not exit | answers are correlated; every call returns |
| Event journal (`event_journal.py`) | `events.jsonl`, `events.lock`, a checkpoint per writer | open, ingest, buffer, coalesce, append, truncate, finalize | peers through the file | torn tails, peers' records, byte cap with a reserve | gapless numbering, nothing lost without a report |
| Spectator (`spectator.py`) | what it has shown | poll events, then status | journal, status | reads without a lock, and a file without a newline whole | shows each record once, in order, but for a first one that was torn |
| Batch, contracts, child bootstrap, CLI, registration, listing | none of their own | | | | *(section 8)* |

`PROJECT.json` lists under `hazards` what can go wrong in this code and is hard to test, each with its line
and the properties that would catch it.

## 2 Modules

Each module describes one component together with whoever races it, or composes two that interact.
Components meet in a few files; every module contains the part of them it depends on and states in its
header from where the rest comes.

    TerminalRegister <- RunStore <- Notify
    SynchronousCalls <- TuiRpc --+
                                 +- ChildSession        Dispatch     Permits
              SessionLineage ----+                      Inbox <- ControlChannel
                                 +- Continuation        InteractiveRun
              SimpleRun ---------+                      EventLog <- EventJournal
                                                        NativeApproval

### TerminalRegister, RunStore, Notify: the run directory and the completion ledger

`TerminalRegister` says what a run directory promises: a verdict is decided at most once, announced as
decided, and the record is dropped only afterwards. `RunStore` implements it; `Notify` extends it by the
host's ledger, so that run `RunStore` checks both together.

| RunStore | code |
|---|---|
| `status`, `recorded` | `status.json`: `status`, `worker_pid` |
| `result` | `result.json`, with its author |
| `lock` | holder of the flock on the directory's status lock, `_locked_run_status` 2854 |
| `dir` | the directory, or its tombstone after the rename of `_operator_prune` |
| `pc`, `plan` | program counters of launcher, worker and operators; the verdict the worker will publish |
| `Prepare` … `StartInProcess`, `CheckoutFails` | `_launch_admitted` 2775, `_start_detached_background_worker` 2544, `_start_background_thread` 2510, `worktrees.py` 155 |
| `Register` … `PersistRaises` | `_background_worker_main` 2650, `_register_durable_notification` 2224, `finish_run` 2326 |
| `PublishResult`, `PublishStatus`, `PublishKept`, `PublishRefused`, `PublishFails` | `publish_terminal_run` 595: the two renames as two steps under the lock; a coherent pair is kept; ambiguous evidence is refused |
| `Reconcile`, `ProjectResult`, `OperatorFails` | `_operator_reconcile` 2989 |
| `Prune` | `_locked_prune_candidate` 3395, `_operator_prune` 3416 |
| `WorkerDies`, `LauncherDies`, every action with `Fault` | the kernel frees a dead process's flock; a write raises |

In `Notify`, `row` and `delivery` are the ledger's row, `step[p]` the place of process `p` in
`_persist_profile_delegate_completion`, one step per access to the ledger: examine, register, examine again,
write. Worker, failed launcher, retries and every repair run the same operators; `Watch` is the thread that
waits for a detached worker, `Offer` and `Deliver` are the queue and the host. The worker's execution is
one choice of a verdict here; SimpleRun and InteractiveRun are that choice.

### Dispatch

Calls are made from gateway processes; a call's run bears the call's name. `admission`, `fingerprint` and
`capacity` are the three families of flocks, taken in that order. Both scans (`_active_matching_run`,
the capacity count) read one run per step (`ReadPast`/`Reuse`, `Count`), so that runs start, end, age, are
cancelled and die under a scan. `Identity`, `Conversation`, `Fingerprint`, `SameOrigin`, `Compressed`
translate the origin rules (`core.py` 251–417, `admission.py`). `MCDispatch` gives the scenarios: a
messaging lane compressed between two equal requests from two processes, and a user interface session
with the guard off for one call, in seven combinations of execution modes.

`Refuse` is `_raise_background_launch_failure`: it publishes the failure before the answer, but a publication that
fails is swallowed (`core.py` 2690–2696), and the call ends `unpublished` with its run still running. It follows a full
capacity (`CapacityReached`, `ThreadsFull`), a process or output file that cannot be made (`SpawnFails`), a snapshot
that cannot be written (`RecordFails`) and a thread that cannot be started (`ThreadStartFails`, which keeps the
thread's place for good, as the code does). `WorkerDies` is the death of a process, or the end of a thread or
foreground run by an error that it cannot publish.

### Permits

Slots are tried one by one without waiting (`NextSlot` is the code's loop: a slot freed behind the scan is
not seen). `HandOver` passes the permit to the reaper thread of `execution_slot`, `ReapInline` is the case
where no thread can be started. `said` is `transport_alive` in the status; the reaper's late merge leaves a
terminal status alone, as `merge_run_status` does.

### Inbox, ControlChannel

Inbox declares what every party to the inbox sees of it, and the properties they count on; ControlChannel
says how it comes about. Clients take the control lock, look for an earlier cancel, check lifecycle and identity, write the command
and advance the number; each of these is a step, and a client may die between any two. The worker takes the
command with the smallest number, marks a cancel in the status first, and acknowledges; `Withdraw` and
`FailToMark` are the handler of `process_controls` that writes a rejection after a failure.

### SimpleRun

One action per branch of the loop of `run_capped_subprocess` in its order (interrupt, cancel, deadline,
exit), then terminate-and-wait, the report with the acknowledgement, the decision to resume, the rest
between attempts with its own poll, and the classification. The world (cancel, interrupt, deadline, exit,
pipes, group identity) moves between any two of them.

### SessionLineage, Continuation: a conversation over several runs

`SessionLineage` is the host's session table with what extends it (begin, compress, half compress, branch or
delegate, and `Blur`, a row against the host's own rules) and `Continues`, the walk of
`compression_continuation` (`core.py` 271–384). `Continuation` composes it with SimpleRun:

| Continuation | code |
|---|---|
| `Admissible`, `Evidence`, `Envelopes`, `Retained`, `Obscures` | `_resume_record_matches`, `matching_resume_records`, `resume_native_approval` (`core.py` 1271–1360), `worktrees.resume` |
| `AdmitNew`, `AdmitResume`, `Renew` | `admission.py`, the new run's worker |
| `PersistIntent`, `GitAdds`, `Prepared`, `PrepareFails`, `PrepareIsLost` | `worktrees.prepare`, `create`, `observe_creation`: `request.json` names the destination before Git is asked for it |
| `Intact`, `MayContinue` | `verify`, `before_continue` |
| `BeginAttempt`, `Observe`, `Mismatch`, `Decide`, `SimpleEnds` | the attempt loop (`core.py` 2380–2500), `observe_attempt` (`execution.py`) |
| `TuiStarts`, `TuiFollows`, `TuiEnds` | an interactive run in outline |
| `records`, `Finish`, `RecordIsDamaged`, `RecordIsPruned` | the runs directory as later admissions find it |

### SynchronousCalls, TuiRpc, ChildSession: the channel to the gateway

`SynchronousCalls` says what a caller may believe of its calls: at most one is open, each is carried out at
most once, answered only if it was carried out and only while its caller waits. `TuiRpc` implements it over
two pipes: frames written in parts, events between a call and its answer, answers of calls that were given
up (`abandoned`), a stream that is closed after half a frame, and `close` with its three stages, which
drains while it waits. `ChildSession` starts or resumes a session over TuiRpc while SessionLineage's host
compresses it: `RetainIdentity`, `Bind` and `ObserveIdentity` are `startup_identity_events`,
`bind_startup_identity` and `observe_identity` of `tui_runner.py`.

### InteractiveRun

The coordinator's phases (`turn`, `followup`, `closing`, `teardown`, `publishing`), the pipe as a
bounded sequence of frames, the host as an external process that queues, refuses, answers, consumes or
requeues a correction at its own pace. A remote call in progress (`call`) keeps reading: events that arrive
meanwhile are observed, replies of calls that were given up are dropped by identity, as TuiRpc shows in
detail. `Classify`, `Judge`, `Final`, `ResultStatus` and `Publish` are the order in which `classify`,
`teardown`, `record_error`, `build_result` and `publish_terminal_run` overrule one another.

### EventJournal

`view[w]` is a writer's memory: sequence, count, position, stat of the file, `truncation_written` and
`truncated`; `degraded[w]` are its `degraded`, `disabled` and `degradation_reason`. `Recovered` is
`_recover_locked`, `Recover` what `_append_projected` makes of it, `Decide` its decision under the lock,
`Write` its single `os.write`, `WriteFails` a short write, `SyncFails` an `fsync` that fails in `flush`, also in that of
`finalize`, `Cut` the removal of a torn tail by the next writer. Sizes stand for bytes: a small or large record, a
marker, a reserve. The spectator (`ReadEvents`, `ReadFails`, `ReadStatus`) takes no lock. `torn` says that the file ends in part of
a record, and `first` is that part when it is the first record of the file, whole but for its newline: `Readable` and
`Broken` follow `spectator.py` 233, where a file without any newline is taken for one line.

`EventLog` is what all of this amounts to for whoever reads the journal: one log that only grows, in which a
writer's terminal record is its last, only terminal records follow a marker, and a look shows the whole; but a look
at the still empty log may show an attempt at its first record (`Glimpse`), whose successor is then not shown.

### NativeApproval

`runs` is every run that was admitted, with its frozen envelope and, as history, the envelopes above it.
`Granted` and `Inherited` are the two halves of `snapshot`, `Valid` is `validate`, `Compatible` is
`admit_resume`. The module is there for its proofs (section 5): its answer does not depend on an
interleaving, but on chains of delegations of any length, which an instance cannot cover.

## 3 Runs

Deadlock is not checked: every modelled part legitimately stops (the run is over, the calls are answered,
the spectator has left). That nothing gets stuck on the way is what the liveness properties say.

| Run (module) | Bounds | Distinct states | What it shows |
|---|---|---|---|
| `RunStore` (MCNotify) | two operators; all modes; with and without checkout; with and without a ledger; 2 faults | 647 thousand | The two artifacts of a run behave as one write-once register (`ImplementsRegister`) in whatever order worker, launcher and operators publish, die, repair and prune: a terminal lifecycle stands on its result (`TerminalIsPaired`), and neither changes again (`PublishedIsFinal`). What is announced is the published verdict (`CompletionIsTheVerdict`) and is never taken back (`CompletionIsFinal`); a recorded run ends and is announced (`RecordedRunsAreAnnounced`) |
| `Dispatch` (MCDispatch) | 3 calls, 2 gateways, 7 scenarios, capacity 1, 1 fault | 437 thousand | Equal requests are not worked on twice (`NoDuplicateWork`), workers and threads stay within capacity (`CapacityHolds`), a refused launch ends the run it created unless that cannot be published (`LaunchedOrFinal`), a call is never answered with a run whose launch is under way or was lost (`ReusedRunsAreDecided`), and no order of locks or death of a holder blocks a call (`EveryCallIsAnswered`) |
| `Permits` (MCPermits) | 3 workers, 1 slot (the default of `PROFILE_DELEGATE_MAX_CONCURRENT`), 1 fault | 180 thousand | A living child keeps its permit in its worker's or its reaper's hand and a published "gone" is true (`LivingChildIsAccountedFor`); permits come back (`PermitsComeBack`) |
| `Control` (MCControl) | 2 corrections, 2 cancels, 3 transports, 1 fault | 321 thousand | One cancel per run (`OneCancel`), commands taken in the order written (`TakenInOrder`), none after the end (`NothingAfterTheEnd`), every call returns (`EveryCallReturns`) |
| `Simple` (MCContinuation) | 2 runs, 1 further attempt, 3 sessions, 2 policies, 2 upsets of the world, 1 failing write | 794 thousand | An accepted cancel is the verdict (`AcceptedEndsCancelled`), nothing is published, accepted or retried over a living child (`ReapedFirst`), a proof of continuation is worth its name (`ProvenIsTheConversation`), attempts and records keep to the conversation (`RunsKeepToTheConversation`), which keeps its approval and checkout (`CharterIsKept`) and can be resumed (`ResumeStaysPossible`); no checkout is lost (`CheckoutIsOnRecord`); every run is over some day (`EveryRunIsOver`) |
| `Rpc` (MCTuiRpc) | 3 calls, 2 events, 2 frames in the pipe, 2 faults | 464 thousand | The client implements SynchronousCalls (`ImplementsCalls`), an honest gateway is not refused for lateness or for its caller's half frames (`HonestGatewayIsAccepted`), every call and close returns (`EveryCallReturns`) |
| `Child` (MCChildSession) | 3 calls, 3 events, 4 sessions, 2 startup events retained, 1 frame in the pipe, one lie | 7.1 million | In whatever order answer, events and compressions come, the newest identity is bound (`NewestIdentityIsKept`), it is of the conversation asked for (`ChildIsTheConversation`), and an honest gateway is not refused (`HonestSessionIsAccepted`) |
| `InteractiveSafety` (MCInteractiveRun) | 2 corrections (symmetric), a cancel, 2 frames in the pipe, 1 fault | 4.4 million | Acknowledgements and receipts are true although replies are late and checks stale (`ReceiptsAreTrue`), silence is no success (`SilenceIsNoSuccess`), success is earned and an accepted cancel wins (`VerdictIsEarned`) |
| `InteractiveLive` (MCInteractiveRun) | 1 correction, a cancel, 2 frames, 1 fault | 279 thousand | Every run is published, whatever the gateway does (`EveryRunEnds`) |
| `Journal` (MCJournal) | 2 writers (symmetric), 3 frames, 2 events, 8 bytes with a reserve of 4, buffer 1, coalescing 2, 1 fault | 1.35 million | Numbering without a gap (`SeqIsGapless`), one marker and nothing behind it (`NothingBehindTheMarker`), no silent loss (`LossIsReported`), a writer is disabled by a failing call of its own only, whatever peers tear or cut off (`PeersNeverDisable`), a spectator shows every record once, but for a first one that was torn (`ShownOnce`) |
| `RunStoreCheckout`, `DispatchOwner` | the smallest that show it | | the disagreements of section 6 |

Why the bounds suffice for what is asked:

* A fault is a death or a failing write. Two-step writes need one fault to be interrupted; RunStore allows
  two, so that a worker and the operator that repairs after it may both fail. The safety properties are
  proved for any number (section 5).
* Dispatch needs three calls: two that are equal and one that takes the capacity or the locks of another
  conversation. Capacity 1 is the smallest at which a second run must be refused.
* Permits: three workers for one slot make one wait while another is reaped. With one slot the loop over
  slots has one turn.
* Simple: a first run and one that resumes it are enough for what is inherited, as records of both are
  then alike; three sessions are a conversation, its continuation and a branch or a second continuation.
  Two upsets let, for instance, a compression be followed by a damaged record or a changed policy.
  The safety properties are proved for any number of all of them.
* Rpc: three calls let one that was given up be followed by one that is answered and one that is not; two
  frames in the pipe let an event stand before a late answer. A frame larger than the pipe is one of two parts.
* Child: four sessions allow a resumed one to move on twice while answer and events are on their way, with a
  branch. Two retained events reach the limit at which startup is refused.
* Two corrections are the smallest number at which a late reply, a stale receipt check or a partial
  consumption can concern *another* correction.
* The journal's sizes let the last event, the marker and the terminal record meet at the cap in every
  order: 8 bytes are two large records, or one and a marker, or a reserve left whole. One fault is a torn tail for the
  peer to cut off, or a first record that the spectator sees before that.

`Writers` and `Steers` are interchangeable in those runs, which check no liveness, so that symmetry is
sound; this is why the interactive run is checked twice. Every property of a passing run has a mutant: an
operator named after `\* Mutant:` in the module, which changes one mapped definition the way a plausible bug
would, and with which the property fails. `PeersNeverDisable` has two: `CutTooFar` (a peer cuts a whole record off
with a torn tail) is the registered one, and `MarkIntoReserve` breaks it as well, through the terminal record
that finds no room.

## 4 Fairness

* **Notify** (`NFairness`): launcher, worker, publishers and persisters go on while they live; deaths and failing
  writes are never fair. Weak fairness of `Reconcile` and of the commands that persist says that an operator
  keeps repairing a run that stays broken; `operator-reconcile` is a human command, so
  `RecordedRunsAreAnnounced` is a statement about repair being possible, not about when it comes. Nothing
  is asked of the watcher and of the host.
* **Dispatch**: weak fairness of each call's steps. Nothing is asked of workers or of time: a call must be
  answered while every worker runs forever. A flock is only ever waited for behind calls that are
  themselves fair, or behind dead ones, whose flocks the kernel frees.
* **Permits**: workers go on (weak), a child ends (weak: the code kills it at the deadline, and a child in
  uninterruptible sleep is the one case the code waits for without bound, in the reaper). `Finish` is
  strongly fair, because a simple run may be resumed: attempts are finite (SimpleRun), so that it
  finishes in the end.
* **ControlChannel**: weak fairness of each client; nothing of the worker, since a client polls for two
  seconds and returns.
* **Continuation, InteractiveRun**: the worker's loop runs (in InteractiveRun counted on without failures),
  and the monotonic clock reaches the deadline. Nothing is asked of the child, of the gateway, of
  descendants that hold pipes, of the user or of those who delegate: these are what a deadline is for.
* **TuiRpc**: the client reads, writes and drains when it can, and a gateway that does not hang goes on,
  though nothing makes it emit events. A deadline is taken to pass only where it is needed: when the
  gateway hangs, and when both pipes are full while the client writes, which does not read then
  (`tui_rpc.py` 155–175). So `EveryCallReturns` also says that close does not rely on its deadline with a
  gateway that fills its output while it shuts down.
* **EventJournal**, **ChildSession** and **NativeApproval** have no liveness property: journaling is best effort by
  design, and the other two end with what TuiRpc and the deadline end.

## 5 Proofs

Every theorem holds for all values of the constants under the named assumptions of the modules, and is checked
by TLAPS to the last leaf. Each module of proofs states its inductive invariant first, then one lemma per
action or group of actions that can disturb it, then the theorems. Where one module serves two components, the second is an
instance: `A` is NativeApproval, `C` is ControlChannel (whose `Nobody` is that of EventJournal).

| Module | Theorem | Statement |
|---|---|---|
| `RunDirectoryProofs` | `Invariance`, `TypeCorrect` | `Spec => []IInv`, `[]TypeOK` |
| (RunStore, Notify) | `TerminalPairing` | `Spec => []TerminalIsPaired` |
| | `PublishedNeverChanges`, `PrunedStaysFrozen` | `Spec => PublishedIsFinal`, `PrunedRunsAreFrozen` |
| | `Refinement` | `Spec => ImplementsRegister` |
| | `LedgerInvariance` | `NSpec => []NInv` |
| | `CompletionsAreVerdicts`, `CompletionsAreFinal` | `NSpec => []CompletionIsTheVerdict`, `CompletionIsFinal` |
| | `RunDirectoryKept`, `LedgerRefinement` | `NSpec` keeps the properties of `Spec`, and implements the register |
| `DispatchProofs` | `Invariance` | `Spec => []Inv` |
| | `EqualRequestsWorkOnce`, `CapacityIsKept`, `LaunchesAreDecided` | `Spec => []NoDuplicateWork`, `[]CapacityHolds`, `[]LaunchedOrFinal` |
| | `OnlyDecidedRunsAreReused` | `Spec => ReusedRunsAreDecided` |
| `GrantProofs` | `Invariance`, `ChildrenAreAccountedFor` | `Spec => []Inv`, `[]LivingChildIsAccountedFor` |
| (Permits) | `PermitsBoundChildren` | no more live children of living workers than permits |
| (NativeApproval) | `NestingNeverWidens`, `FrozenEnvelopesAreAccepted` | `A!Spec => []A!AuthorityNarrows`, `[]A!EveryEnvelopeIsValid` |
| `SharedFileProofs` | `Invariance`, `CancelIsOne`, `CommandsAreTakenInOrder` | `C!Spec => []Inv`, `[]OneCancel`, `[]TakenInOrder` |
| (ControlChannel) | `EndedInboxStands`, `ChannelTypesCorrect` | `C!Spec => NothingAfterTheEnd`, `[]C!TypeOK` |
| (EventJournal) | `JournalInvariance`, `JournalTypesCorrect` | `Spec => []JournalInv`, `[]TypeOK` |
| | `EventsAreGapless`, `TruncationIsTheEnd` | `Spec => []SeqIsGapless`, `[]NothingBehindTheMarker` |
| | `RecordsAreShownOnce` | `Spec => []ShownOnce` |
| | `PeersDoNoHarm` | `Spec => []PeersNeverDisable` |
| | `LossIsNoticed` | `Spec => []LossIsReported` |
| | `TheCapIsKept`, `JournalRefinement` | `Spec => []CapIsKept`, `Spec => ImplementsLog` |
| `LineageProofs` | `WalkFollows`, `FollowersContinue` | what `Continues` accepts, and what it never refuses |
| `ContinuationProofs` | `CancelIsHonoured`, `ReapsFirst` | `Spec => []AcceptedEndsCancelled`, `[]ReapedFirst` |
| (SimpleRun) | `ResumesTransients` | `Spec => OnlyTransientsResume`: work is repeated only after a transient failure of a child that ended by itself |
| (Continuation) | `RunsAreSimpleRuns` | `KSpec => [](AcceptedEndsCancelled /\ ReapedFirst)`, in every run of a conversation |
| | `CharterKept`, `CheckoutRecorded` | `KSpec => []CharterIsKept`, `[]CheckoutIsOnRecord` |
| | `ProvenIsKept`, `RunsKeepCourse` | `KSpec => []ProvenIsTheConversation`, `[]RunsKeepToTheConversation` |
| | `ResumeIsPossible`, `ConversationTypesCorrect` | `KSpec => []ResumeStaysPossible`, `[]ContinuationTypeOK` |
| `InteractiveProofs` | `Invariance` | `Spec => []Inv` |
| | `ReceiptsHold`, `SuccessFollowsACorrection`, `VerdictsAreEarned` | `Spec => []ReceiptsAreTrue`, `[]SilenceIsNoSuccess`, `[]VerdictIsEarned` |
| `ChannelProofs` | `Invariance`, `HonestGatewaysAreAccepted` | `Spec => []Inv`, `[]HonestGatewayIsAccepted` |
| (TuiRpc) | `Refinement` | `Spec => ImplementsCalls` |
| (ChildSession) | `ChildInvariance`, `ChildTypesCorrect` | `CSpec => []ChildInv`, `[]ChildTypeOK` |
| | `ChildrenAreOfTheConversation`, `NewestIsKept`, `HonestSessionsAreAccepted` | `CSpec => []ChildIsTheConversation`, `[]NewestIdentityIsKept`, `[]HonestSessionIsAccepted` |

**RunStore**, for every set of operators, every subset of the modes and any number of faults. `TerminalIsPaired`
is not inductive: from an arbitrary state in which it holds, `PublishStatus` could announce a plan that differs
from the result. The inductive invariant `IInv` adds what makes the publication one step to everybody else:

* `LockInv`: the status lock is held exactly by the process between its two writes (two holders would be
  one process, since the lock has one value);
* `RoleInv`: launcher, worker and operators stay within their own control points;
* `LaunchInv`: until the worker is launched only the launcher acts, and its failure handler runs with no
  worker left to race it;
* `CommitInv`: between the two renames the result exists, agrees with the status to be written, and the
  lifecycle is still active; a repair in progress has a dead worker (`RepairInv` keeps that for its result);
* `WorkerInv`: a worker that has still to publish has not been finalized by anybody;
* `PruneInv`: a pruned run is announced and unlocked.

One lemma per group of actions (`LauncherIInv`, `WorkerIInv`, `PublishIInv`, `OperatorIInv`, `DeathIInv`) shows
that it is preserved. `ResultStep`, `StatusStep` and `DirStep` say under which conditions a step may change each
artifact at all; the action properties and `StepRefines`, which maps every step to one of the register or to a
stutter, follow from these three.

**Notify** adds the ledger. A step of it is one of RunStore, a call that fails, or one that leaves the run
directory alone, so that `IInv` and the refinement carry over. `NInv` adds that whoever persists comes after the
publication (`AfterPublication`), so that the verdict it read cannot change under it any more, and that who
began when the ledger had its completion does no more than look at it (`LateOnlyLooks`), on which
`CompletionIsFinal` rests.

**Dispatch**, for any calls (finitely many, as the scan counts them), gateways, scenarios, capacity and deaths.
None of the properties is inductive, because each depends on what a scan in progress has read already and
does not look at again. `Placed` says what the place of a call implies of its run and its locks; `Scanned`, that
every run a scan has read past can be reused by nobody any more; `Made`, that a run is created when all runs it
could have been are past; `Counts`, that what the capacity scan has read it has counted; `Within` and `Covers`
bound the workers and threads. The key lemma is `OneLock`: two calls of one conversation that could reuse each
other's run take the same lock, in whatever way the conversation was named and compressed. Here
`LanesAssumption` is used (section 7). It also gives `ReusedRunsAreDecided`: the run that a scan may reuse was
launched under a lock that the scanning call holds now, so that its launch is over.

**Permits**, for any workers and any number of slots and deaths: `PermitOf`, `ChildOf`, `LeavingOf` and
`RecordOf` follow a permit from the worker that took it to the reaper that may inherit it.
`PermitsBoundChildren` says what permits are for, and counts: no two workers share a slot, so that the map from
living children to their permits is injective.

**NativeApproval**, for any homes, patterns and grants, any number of runs and any depth. To be no wider is
transitive (`NoWiderTransitive`), so that it is enough to compare a run with the one that delegated it
(`InheritedIsNarrow`, `CompatibleIsNarrow`).

**ControlChannel**, for any clients and deaths. `Locked` says who holds the control lock, `OneEach` that a
client writes one command, and only a written one is acknowledged, `Alone` that a caller who goes on to write a
cancel finds none in the inbox until it has written its own. The order of the inbox is that of its numbers
(`Numbered`): two commands have the same number only if the writer of the first died before it advanced the
number. `Apart`: a run is terminal only while nobody is between a check of the lifecycle and the write that
relies on it. That no more numbers are given out than there are clients is part of the type invariant, and no
counting of steps: `Told` names the set of clients that advanced the number, and `AdvancesOnce` adds one to it
at a time.

**EventJournal**, for any writers, caps, frames and faults. None of the five properties is inductive. Three
invariants, each on top of the one before, give them:

* `JournalInv`. A writer appends the number after the one in its own memory. `Checkpoint` says that this memory stands for a beginning
  of the file, with the marker if there is one in it; `LockedWrites`, that a record is written under the
  lock; `ReadFirst`, that whoever writes has read the whole file under that lock, and has seen no marker
  unless the record is a terminal one. `Recovering` is the lemma about `_recover_locked`: from any checkpoint,
  or from the beginning, it comes to the end of the file with the right number and no marker overlooked.
  `SeqIsGapless` and `NothingBehindTheMarker` are part of it. For `ShownOnce`, `Follows` says that what was
  shown is a beginning of the file, but for its first record, which may be the attempt of a writer that has stopped
  (`FirstKnown`: what `first` holds is such an attempt, numbered one). As the records are numbered without a gap, what
  the spectator has not shown yet is exactly the rest (`ShowsTheRest`).
* `BudgetInv`, for `PeersNeverDisable`: the reasons for which a writer is disabled are failures of its own calls, and the
  other reasons of the code (a journal that shrank, a corrupt record, no room for the terminal record) never come about. `Room` says that the file is within its cap less the reserve, plus one marker's size
  for every terminal record written (`Ended`); `Prospect`, that a writer has one terminal record, at the end of
  what it has still to write, and nothing to write after it. `CapIsKept` follows from `Room`. `RoomToEnd`: a writer that has not ended finds room in the reserve, by
  `ReserveAssumption`. `NeverSpoiled`: what it reads continues the numbers it knows.
* `LossInv`, for `LossIsReported`. `Whole` is the equation of the property: the frames stored, being written, waiting
  as records, gathered as text and buffered, one after another, are those given. `WholeTakes` and
  `WholeMoves` are what an ingest and a write do to it. `Accounted` lists what excuses a writer from it, and the last
  excuse is the hard one: a truncation without a marker, known to one writer's memory alone. `Known` makes it last: such a
  truncation was for want of room, the file does not shrink (`FullStays`), and as long as no peer opened
  the file the writer need not read it afresh (`Sole`), since `stamp` moves by its own doing only.

`JournalRefinement` rests on the first two (`LogStep`): a `Write` puts a record, which `ReadFirst` makes the next
one and keeps from following the marker, and `Prospect` from following its writer's terminal record; a poll
shows the whole file by `ShowsTheRest`, or is a `Glimpse` (`PollShows`); recovery, torn tails, cuts and deaths are stutters.

`TypeOK` bounds each writer's frames by the bound on all of them. The latter is a sum over the writers, a fold
of the library; `SumBounds` shows that no summand is above it, by induction over the sets of writers. That what
was shown is made of records needs `ShowsTheRest` again.

The frames of a sequence of records, and the bytes of a file, are folds. What they do when a record is appended
is shown from their definitions (`FlattenConcat`, `FramesConcat`, `BytesGrow`), by the same induction over sets of
numbers as in `LineageProofs`.

**SimpleRun**, for any number of attempts and failing writes. `ReapedFirst` and `AcceptedEndsCancelled` do not
say what happens between the acknowledgement of a cancel and the verdict. `Inv` adds where the child is in each
phase (`ChildOf`), that an accepted cancel is on its way as the reason of the stop (`AcceptedBy`), that the
handler publishes only after a failing write (`FailingBy`), and what a rest between attempts follows
(`RestingAfter`).

**SessionLineage**, for a table of any size. The walk of `compression_continuation` is a recursive function of
the number of rows still allowed. What it computes is shown by induction over its steps; as the library's
induction theorem cannot be used here, `LineageProofs` derives induction for *sets* of numbers from the
well-foundedness of inclusion among finite sets (`LeastMember`). `WalkFollows`: from a session the walk comes
only to later ones of the same conversation, because every row that a compression adds is later than its parent
and of its conversation. `FollowersContinue` is the converse: while the table keeps to the host's rules, a
conversation is one chain of compressions that the walk never leaves too early.

**Continuation**, for any sessions, policies, runs and upsets. `StepsOfRuns` shows that a step of the
conversation is a step of its run or the start of another, so that SimpleRun's invariant carries over. For the
charter, `KeepsCharter` says that every record, damaged or not, was left by a run that had the charter, and that
the present request has it: an admission takes the envelope and the checkout of *one* record, and a run's end
adds one of its own. `LedgerStep` is the step for the records, `GrantedAsChartered` the one for an admission.
`RunsKeepToTheConversation` needs `Course`: everything a run names is in the table, and a resumed run knows its
session from the start, so that each observation is compared with a session of the right conversation.
`ResumeStaysPossible` needs `Unbroken`: in every conversation that was not blurred each compression keeps its
heir, so that its sessions form one chain (`Chained`); all of them are in one lane; and the charter's envelope
is one that a policy gave once. `Furnished` has what these leave open of the types: what is requested, retained
and recorded.

**InteractiveRun**, for any corrections, any length of the pipe and any number of faults. What the coordinator
says of a correction is followed back through the reply in the pipe (`Telling`: no frame lies) to what the host
did with it (`FateOf`), and the verdict through the places that set it (`Judged`, `Published`). `Leaving` and
`Evidence` are what makes a success earned: the turn of a corrected run is left for a success only with every
recorded correction consumed, or with a follow-up of its own that completed. `SuccessFollowsACorrection` says no more
than that at least one correction was acted on: one follow-up that completes answers for all, and a second correction
may have come to nothing behind a completed run. `Cancelling` ties an accepted
cancel to the mark in the status.

**TuiRpc**, for any calls, events, faults and room in the pipes. That an honest gateway is accepted is far from
inductive: it depends on what lies in both pipes. `Inv` adds that a call is open exactly while its frame is
written and its answer awaited, that every answer in the pipe belongs to a call that was accepted, once, and is
either the expected one or that of an abandoned call, and how half-written frames follow each other. From this
`Refinement` maps accepting, answering and giving up a call to the steps of SynchronousCalls, and all else to
stutters.

**ChildSession** composes both: the table's invariant from `LineageProofs`, and on top of it that the identities
a gateway tells while it does not lie are ever later ones, in the order of the pipe, that the newest of them that was read is the
one that is bound or retained, and that the replay of the retained ones ends with it. The replay is a recursive
function again, and shown by induction over its length. That an honest gateway is accepted needs in addition
that the reason for a refusal, once there, stays.

Assumptions: each module's `ASSUME`s give types to the bounds and keep the names of processes apart (`Nobody`,
`Free`, `NoResult`, `Nothing` are none of those they stand beside; the theorems about ControlChannel have
`Nobody \notin Clients` for a hypothesis, which is `LockAssumption` for the instance). Besides those, `CallsAssumption` makes the
calls of Dispatch finite and `ClientsAssumption` the clients of an inbox, `ReserveAssumption` gives every writer
of a journal its place in the reserve, and `LanesAssumption` is the one assumption on the world (section 7).

Only model-checked:

* every liveness property, as fairness is out of the prover's reach;
* nothing else that a run checks: each invariant and each action property of the runs is stated by a theorem.

Only proved: the statements about NativeApproval, `PermitsBoundChildren`, `PrunedRunsAreFrozen`,
`OnlyTransientsResume`, `CapIsKept` and `ImplementsLog`, and the type invariants of ControlChannel, EventJournal,
Continuation and ChildSession, which no run repeats, and what LineageProofs says of the walk by itself.

## 6 Where documents and code disagree

Two are runs whose one property states the sentence, and which TLC refutes:

| Run, property | The sentence | What the code does |
|---|---|---|
| `RunStoreCheckout`, `EveryTerminalStatusHasResult` | `README.md:365`: a valid terminal result is written before terminal status | a failed managed checkout writes `failed` itself, outside the lock and without a result (`worktrees.py:155`); publication is then refused |
| `DispatchOwner`, `IdenticalRequestsAreReused` | `README.md:318`: identical active requests from the same origin are reused | the scan probes the launching gateway's pid before the worker's, so that a live detached run of a dead gateway is passed over (`core.py:1466`). `NoDuplicateWork` states what does hold |

The models also contain, without a run of their own, behaviour a reader of the documents might not expect:

* `core.py:2586`: no transport can start before launch metadata succeeds. A launcher that dies after `Popen`
  frees the lock, and the worker executes with nothing recorded (`RunStore!LauncherDies`). Nobody repairs such
  a run; `RecordedRunsAreAnnounced` is about recorded ones.
* `tui_runner.py:588`: the unresolved lifecycle is preserved for publication. For a timed out or cancelled run
  whose gateway is not reaped the result contradicts the status, is refused, and the run is published as
  `invalid_terminal_status` (`InteractiveRun!Publish`).
* `core.py:2279`: repair and retried completion never reset delivery state. They look at the row and write
  later: of two that overlap, the slower one makes a delivered completion pending again. `CompletionIsFinal`
  states what holds: it takes a persister that had begun before there was a completion.
* `spectator.py:225`: `iter_events` yields complete records. With no newline in the file `rsplit` leaves the whole of it
  (line 233): part of a first record ends the watch with an error, and one that is whole but for its newline is
  shown; when the next writer cuts it off, the record that takes its number is never shown (`EventJournal!Readable`,
  `Broken`). `ShownOnce` says so of the first record and of no other.
* A launch that is refused and cannot publish its failure leaves a run that is running without a worker, while its gateway
  lives (`core.py:2695`, `Dispatch!Refuse`); equal requests are answered with it until its window closes.
* A background thread that cannot be started keeps its place in the capacity of its gateway (`core.py:2520`,
  `Dispatch!ThreadStartFails`); `CapacityHolds` bounds the counter from above only.
* A foreground run that is to notify persists no completion when it succeeds, but does when it fails
  (`Notify!Publish`, `_raise_background_launch_failure`).
* `README.md:343`: a cancel before the worker's identity is published should be refused without an intent.
  `_require_detached_cli_identity` asks nothing of a run for which no detached worker is recorded yet
  (`core.py:1811`), so that such a cancel is written (`ControlChannel!IdentityOK`).
* `README.md:251` counts background runs per process; the detached capacity counts the whole runs root
  (`core.py:2557`), and counts no run that is `cancelling` (`Dispatch!Count`).
* The child of a worker that dies goes on without a permit (`Permits!WorkerDies`; `LivingChildIsAccountedFor`
  excepts it), and repair records its transport as gone without looking (`Permits!Repair`).
* The reaper's report that a transport is gone does not reach a status that is already terminal: a
  published `transport_alive` may stay true for good (`Permits!Reaped`).
* A cancel that was rejected answers all later cancels of its run (`ControlChannel!RepeatCancel`).
* A cancel found while a simple run rests between attempts is never acknowledged (`SimpleRun!RestCancelled`).
* A cancel accepted after the deadline of its turn ends in a run that timed out
  (`InteractiveRun!Classify`; `VerdictIsEarned` excepts it).
* The first follow-up that settles answers for all corrections (`InteractiveRun!FollowupResolved`).
* A record that cannot be read and is connected with the resumed session only through compression is
  silently skipped; one that names it refuses the resume (`Continuation!Obscures`).
* Startup events beyond what is retained refuse an honest gateway (`ChildSession!RetainIdentity`).
* The journal is finalized after the terminal status: a spectator may leave before the last records
  (`EventJournal!Finalize`). A truncation for whose marker there was no room is forgotten when a peer
  opens the journal; `LossIsReported` says so in `TruncationIsKept`.

## 7 Assumptions and simplifications

* A flock is exclusive, is freed by the kernel at the death of its holder, and a rename is atomic. A
  power failure between `write` and `fsync` is not considered.
* Processes have no recycled pids; an identity is verified or it is not.
* `LanesAssumption` (Dispatch; `EqualRequestsWorkOnce` rests on it): a conversation names its user interface session in all of its calls or in none. With both
  kinds of origin its calls take different admission locks, and only the fingerprint lock excludes equal
  requests.
* Dispatch: `Continuation` is the set of pairs that the walk of SessionLineage proves, the same for every lane, source and
  platform; the namespace and home of all calls are the same.
* RunStore: the managed checkout and the acknowledgement succeed or fail as a whole.
  Reading an artifact that is malformed is not distinguished from refusing it.
* Notify: one worker is started per run, so that registration never meets another lane's row.
  `notification_status` in `status.json` is a display copy and is left out.
* ControlChannel: a client makes one call; the two-second poll for the acknowledgement ends at any time. Where two
  commands have the same number (a client died between its writes), either may be first: file
  names then differ in a random identifier.
* SimpleRun: output, its caps and its parsing are the `outcome` of an attempt. A foreground run differs in
  where its cancel comes from, not in the loop.
* SimpleRun: `Reap` ends with the child reaped. The second `wait` of five seconds after `SIGKILL` (`core.py:1541`) may time
  out on a child in uninterruptible sleep; the exception that follows is left out, so that `ReapedFirst` is about
  children that end within ten seconds of the signal.
* SessionLineage: of the three boundary markers the reset (`_reset_from`, `core.py:344`) is left out; it is compared like
  the other two and refuses in the same cases. One conversation and what branches off it; `open` also stands for a session that ended
  otherwise than by compression. A child without the inherited markers makes the whole proof fail, which
  is safe and is part of the model.
* Continuation: one run at a time, as admission locks a conversation (Dispatch). Records and policy are read by
  an admission only, and so change between runs. Who may resume is Dispatch's question; what a nested delegation
  may resume is NativeApproval's.
* ChildSession: there is room for a session at all (`MaxSessions # 0`), as every host has. Faults of the transport are excluded (TuiRpc has them). Compression is one step: half done, it
  makes the proof fail, as Continuation shows. The gateway lies once at most about the identity.
* TuiRpc: a frame has one part or two; the text of frames, malformed ones included, is a fault of the gateway.
* NativeApproval: anybody may try to resume any session, which is more than the code allows. Requests from before
  there were envelopes, the depth limit and the permission to override are left out.
* InteractiveRun: the pipe holds `MaxWire` frames; the host stops when it is full, as a writer on a full
  pipe does. `CancelUnmarked` is the one failing status write; others raise like a broken frame. Starting the
  gateway and its session is one step that succeeds or raises (ChildSession and TuiRpc have it). Where no reaper
  thread can be started, the coordinator waits in its place for the child before it publishes (`tui_runner.py`
  690–693); that is `ReapInline` of Permits, and the one wait without bound that `EveryRunEnds` does not see. The
  acknowledgements that reject a correction after a failed call are outside `ReceiptsAreTrue`.
* Child: with the two startup events of its bound, an honest session is accepted by TLC with one event retained at most;
  `HonestSessionsAreAccepted` is for any number.
* `ReserveAssumption` (EventJournal; `PeersDoNoHarm` rests on it, and `LossIsNoticed` uses the same invariant): the reserve holds a terminal record of every
  writer. A run opens its journal once (`tui_runner.py` 103), and `terminal_reserve_bytes` is several times what a
  terminal record takes; the run has two writers and room for two. The other journal theorems do without it.
* EventJournal: a record's content, its allowlist and redaction are not modelled, its size class is. `stamp`
  counts the changes of the file's ctime that do not come with growth. A write in progress is seen by the spectator as a whole or
  not at all, and part of a record only once its writer failed or died.

## 8 Not modelled

* Batch dispatch (`batch.py`): validates everything, then dispatches in order and stops at the first failure;
  its interleavings are those of Dispatch.
* Contracts, sanitising, redaction, rendering, validation of execution fields, fingerprints as text: pure
  functions of their inputs.
* Child bootstrap and reasoning: patches and guards in the child before it runs; no state shared with the
  plugin but the environment variable that names the run's request (NativeApproval uses it).
* Command line and plugin registration: argument handling over modelled operations.
* `profile_delegate_list`, `_read` and `inspect`: read artifacts, change nothing.
* The second look at a child's identity after a cancel (`tui_runner.py` 553–573) is one step of `Continuation!TuiEnds`.
* git, the Hermes gateway, its ledger, its session table and its receipts: external, present as what the plugin
  can observe of them.
* Scripts that accept a release run the plugin from outside.

## 9 Plan

The order followed the damage a mistake would do: the run directory first (everything else is read through it),
then admission, permits and the control channel, the two executions, the journal; then the channel to the
gateway, the identity of the child, the conversation over several runs, the ledger and approval.

Built: sections 2 to 5. To come:

1. A bound on the spectator's lag and other liveness of the journal, which the code does not promise today.
2. Admission of one conversation with both kinds of origin (`LanesAssumption`), and Permits with two slots.
3. A run for NativeApproval, composed with Continuation's records, in place of its over-approximation of who
   may resume.
