------------------------------ MODULE Dispatch ------------------------------
(***************************************************************************)
(* Admission of delegated runs: several calls, in several gateway          *)
(* processes, race to reuse a run, to create one, and to start its worker  *)
(* within the capacity.  What they share is the runs directory, three      *)
(* families of flocks taken in one order, and a counter per process.       *)
(*                                                                         *)
(* A call's run bears the call's name.  Runs are published, repaired and   *)
(* pruned as RunStore tells; here a run is only as old, as running and as  *)
(* alive as the two scans can see.                                         *)
(***************************************************************************)
EXTENDS Naturals, FiniteSets, Sequences

CONSTANTS Calls, Gateways,
          Scenarios,    \* functions from Calls to what each call asks
          Continuation, \* pairs of session ids that native compression proves
          MaxAsync,     \* background capacity
          None,         \* an origin field that is empty
          Nobody,       \* a free lock
          MaxFaults     \* bound on deaths of gateways and workers

Modes == {"detached", "thread", "foreground"}

Asked == UNION {{s[c] : c \in Calls} : s \in Scenarios}

ASSUME ScenariosAssumption ==
  \A s \in Scenarios :
    /\ DOMAIN s = Calls
    /\ \A c \in Calls : /\ DOMAIN s[c] = {"home", "mode", "request", "reuse", "source", "ui", "sid", "key"}
                        /\ s[c].home \in Gateways
                        /\ s[c].mode \in Modes
                        /\ s[c].reuse \in BOOLEAN

\* A lane, and a session, names its ui session in all of its calls or in none.
ASSUME LanesAssumption ==
  \A s \in Scenarios : \A c, d \in Calls : \A f \in {"key", "sid"} :
    s[c][f] = s[d][f] /\ s[c][f] # None => (s[c].ui = None <=> s[d].ui = None)

ASSUME CallsAssumption == IsFiniteSet(Calls)
ASSUME BoundsAssumption == MaxAsync \in Nat \ {0} /\ MaxFaults \in Nat
ASSUME NobodyAssumption == Nobody \notin Calls

VARIABLES
  ask,         \* what each call asks; never changes
  pc,          \* where each call is
  alive,       \* the gateway processes that run
  admission,   \* holders of the admission locks, by conversation
  fingerprint, \* holders of the fingerprint locks
  capacity,    \* holder of the detached capacity lock
  unread,      \* runs a scan has still to read
  active,      \* what the capacity scan has counted
  created,     \* the runs, oldest first
  fresh,       \* runs inside the duplicate window
  status,      \* status.json of each run: its lifecycle
  recorded,    \* status.json names the detached worker
  worker,      \* the process or thread that executes the run
  threads,     \* _async_running of each gateway
  faults

vars == <<ask, pc, alive, admission, fingerprint, capacity, unread, active,
          created, fresh, status, recorded, worker, threads, faults>>

locks    == <<admission, fingerprint, capacity>>
runState == <<created, fresh, status, recorded, worker>>

-----------------------------------------------------------------------------
(* Who asks, and which locks that names                                     *)

First(fields) == IF \E i \in DOMAIN fields : fields[i] # None
                 THEN fields[CHOOSE i \in DOMAIN fields :
                               fields[i] # None /\ \A j \in 1 .. i - 1 : fields[j] = None]
                 ELSE None

\* The caller identity inside the fingerprint, and the conversation of the
\* admission lock: compression changes the first and not the second.
Identity(a)     == First(<<a.ui, a.sid, a.key>>)
Conversation(a) == First(<<a.ui, a.key, Identity(a)>>)
Fingerprint(a)        == <<a.request, a.mode # "foreground", Identity(a)>>

\* Equal but for the origin; thread and detached are not told apart.
SameRequest(a, b) == a.request = b.request /\ (a.mode = "foreground" <=> b.mode = "foreground")

Conversations == {Conversation(a) : a \in Asked}
Prints        == {Fingerprint(a) : a \in Asked}

Differ(x, y) == x # None /\ y # None /\ x # y

\* authorize_run: the exact origin, or a proven compression in the same lane.
SameOrigin(run, caller) ==
  /\ ~ Differ(run.sid, caller.sid)
  /\ \E f \in {"ui", "sid", "key"} :
       /\ run[f] # None /\ run[f] = caller[f]
       /\ f # "ui"  => None \in {run.ui, caller.ui}
       /\ f = "key" => None \in {run.sid, caller.sid}

\* Only the sources of a user interface are known by their ui session alone.
UiSources == {"tui", "desktop", "profile-delegate"}

Compressed(run, caller) ==
  /\ ~ Differ(run.ui, caller.ui)
  /\ \/ caller.ui # None /\ run.ui = caller.ui /\ First(<<caller.source, run.source>>) \in UiSources
     \/ run.key # None /\ run.key = caller.key
  /\ <<run.sid, caller.sid>> \in Continuation

Authorised(run, caller) == SameOrigin(run, caller) \/ Compressed(run, caller)

-----------------------------------------------------------------------------
PCs == {"new", "admitted", "scanning", "created", "counting", "recording",
        "launched", "reused", "refused", "unpublished", "lost"}

Answered == {"launched", "reused", "refused", "unpublished", "lost"}

TypeOK ==
  /\ ask \in Scenarios
  /\ pc \in [Calls -> PCs]
  /\ alive \in SUBSET Gateways
  /\ admission \in [Conversations -> Calls \cup {Nobody}]
  /\ fingerprint \in [Prints -> Calls \cup {Nobody}]
  /\ capacity \in Calls \cup {Nobody}
  /\ unread \in [Calls -> SUBSET Calls]
  /\ active \in [Calls -> 0 .. Cardinality(Calls)]
  /\ created \in Seq(Calls)
  /\ fresh \in SUBSET Calls
  /\ status \in [Calls -> {"none", "running", "cancelling", "final"}]
  /\ recorded \in SUBSET Calls
  /\ worker \in [Calls -> {"none", "live", "dead"}]
  /\ threads \in [Gateways -> 0 .. MaxAsync]
  /\ faults \in 0 .. MaxFaults

Init ==
  /\ ask \in Scenarios
  /\ pc = [c \in Calls |-> "new"]
  /\ alive = Gateways
  /\ admission = [v \in Conversations |-> Nobody]
  /\ fingerprint = [f \in Prints |-> Nobody]
  /\ capacity = Nobody
  /\ unread = [c \in Calls |-> {}]
  /\ active = [c \in Calls |-> 0]
  /\ created = <<>>
  /\ fresh = {}
  /\ status = [c \in Calls |-> "none"]
  /\ recorded = {}
  /\ worker = [c \in Calls |-> "none"]
  /\ threads = [g \in Gateways |-> 0]
  /\ faults = 0

At(c, l)   == pc[c] = l /\ ask[c].home \in alive
Goto(c, l) == pc' = [pc EXCEPT ![c] = l]

\* Leaving the with block: every flock the calls of S hold is freed.
Release(S) ==
  /\ admission'   = [v \in Conversations |-> IF admission[v] \in S THEN Nobody ELSE admission[v]]
  /\ fingerprint' = [f \in Prints |-> IF fingerprint[f] \in S THEN Nobody ELSE fingerprint[f]]
  /\ capacity'    = IF capacity \in S THEN Nobody ELSE capacity

Runs == {c \in Calls : status[c] # "none"}

-----------------------------------------------------------------------------
(* _dispatch_admitted: two locks, then the search for a run to reuse        *)

\* Mutant: without the admission lock, only equal fingerprints exclude.
AdmitUnlocked(c) ==
  /\ At(c, "new")
  /\ Goto(c, "admitted")
  /\ UNCHANGED <<ask, alive, locks, unread, active, runState, threads, faults>>

Admit(c) ==
  LET v == Conversation(ask[c]) IN
  /\ At(c, "new")
  /\ admission[v] = Nobody
  /\ admission' = [admission EXCEPT ![v] = c]
  /\ Goto(c, "admitted")
  /\ UNCHANGED <<ask, alive, fingerprint, capacity, unread, active, runState, threads, faults>>

\* The guard is off for duplicate_policy "new" and for a call of no origin.
TakeFingerprint(c) ==
  LET f == Fingerprint(ask[c]) IN
  /\ At(c, "admitted")
  /\ fingerprint[f] = Nobody
  /\ fingerprint' = [fingerprint EXCEPT ![f] = c]
  /\ Goto(c, "scanning")
  /\ unread' = [unread EXCEPT ![c] =
                  IF ask[c].reuse /\ Identity(ask[c]) # None THEN Runs ELSE {}]
  /\ UNCHANGED <<ask, alive, admission, capacity, active, runState, threads, faults>>

\* _active_matching_run: the stored request is fingerprinted with its own
\* identity; liveness is that of the recorded worker and then of the owner.
Matches(r, c) ==
  /\ status[r] = "running"
  /\ Authorised(ask[r], ask[c])
  /\ SameRequest(ask[r], ask[c])
  /\ r \in fresh
  /\ ~ (r \in recorded /\ worker[r] = "dead")
  /\ ask[r].home \in alive

ReadPast(c, r) ==
  /\ At(c, "scanning")
  /\ r \in unread[c]
  /\ ~ Matches(r, c)
  /\ unread' = [unread EXCEPT ![c] = @ \ {r}]
  /\ UNCHANGED <<ask, pc, alive, locks, active, runState, threads, faults>>

\* Mutant: the answer that reuses a run leaves before the locks are freed.
ReuseHolding(c, r) ==
  /\ At(c, "scanning")
  /\ r \in unread[c]
  /\ Matches(r, c)
  /\ unread' = [unread EXCEPT ![c] = {}]
  /\ Goto(c, "reused")
  /\ UNCHANGED <<ask, alive, locks, active, runState, threads, faults>>

Reuse(c, r) ==
  /\ At(c, "scanning")
  /\ r \in unread[c]
  /\ Matches(r, c)
  /\ Release({c})
  /\ unread' = [unread EXCEPT ![c] = {}]
  /\ Goto(c, "reused")
  /\ UNCHANGED <<ask, alive, active, runState, threads, faults>>

\* Mutant: a background run is started outside the admission locks.
CreateReleasing(c) ==
  /\ At(c, "scanning")
  /\ unread[c] = {}
  /\ created' = Append(created, c)
  /\ fresh' = fresh \cup {c}
  /\ status' = [status EXCEPT ![c] = "running"]
  /\ Release({c})
  /\ IF ask[c].mode = "foreground"
     THEN worker' = [worker EXCEPT ![c] = "live"] /\ Goto(c, "launched")
     ELSE UNCHANGED worker /\ Goto(c, "created")
  /\ UNCHANGED <<ask, alive, unread, active, recorded, threads, faults>>

\* _launch_admitted writes the artifacts; a foreground run leaves the locks
\* and executes, a background run is started under them.
Create(c) ==
  /\ At(c, "scanning")
  /\ unread[c] = {}
  /\ created' = Append(created, c)
  /\ fresh' = fresh \cup {c}
  /\ status' = [status EXCEPT ![c] = "running"]
  /\ IF ask[c].mode = "foreground"
     THEN /\ Release({c})
          /\ worker' = [worker EXCEPT ![c] = "live"]
          /\ Goto(c, "launched")
     ELSE /\ UNCHANGED <<locks, worker>>
          /\ Goto(c, "created")
  /\ UNCHANGED <<ask, alive, unread, active, recorded, threads, faults>>

\* _raise_background_launch_failure: the run is failed before the answer, or
\* its publication fails and the answer tells the error only.
Refuse(c) ==
  /\ Release({c})
  /\ \/ status' = [status EXCEPT ![c] = "final"] /\ Goto(c, "refused")
     \/ UNCHANGED status /\ Goto(c, "unpublished")

-----------------------------------------------------------------------------
(* _start_detached_background_worker                                        *)

\* Mutant: the capacity scan outside its lock.
ScanUnlocked(c) ==
  /\ At(c, "created")
  /\ ask[c].mode = "detached"
  /\ unread' = [unread EXCEPT ![c] = Runs \ {c}]
  /\ Goto(c, "counting")
  /\ UNCHANGED <<ask, alive, locks, active, runState, threads, faults>>

TakeCapacity(c) ==
  /\ At(c, "created")
  /\ ask[c].mode = "detached"
  /\ capacity = Nobody
  /\ capacity' = c
  /\ unread' = [unread EXCEPT ![c] = Runs \ {c}]
  /\ Goto(c, "counting")
  /\ UNCHANGED <<ask, alive, admission, fingerprint, active, runState, threads, faults>>

\* One status.json is read and its worker probed.
Count(c, r) ==
  /\ At(c, "counting")
  /\ r \in unread[c]
  /\ unread' = [unread EXCEPT ![c] = @ \ {r}]
  /\ active' = [active EXCEPT ![c] =
       IF status[r] = "running" /\ r \in recorded /\ worker[r] # "dead" THEN @ + 1 ELSE @]
  /\ UNCHANGED <<ask, pc, alive, locks, runState, threads, faults>>

\* Mutant: a refused launch that leaves its run behind.
CapacityReachedLeaving(c) ==
  /\ At(c, "counting")
  /\ unread[c] = {}
  /\ active[c] >= MaxAsync
  /\ Release({c})
  /\ Goto(c, "refused")
  /\ UNCHANGED <<ask, alive, unread, active, runState, threads, faults>>

CapacityReached(c) ==
  /\ At(c, "counting")
  /\ unread[c] = {}
  /\ active[c] >= MaxAsync
  /\ Refuse(c)
  /\ UNCHANGED <<ask, alive, unread, active, created, fresh, recorded, worker, threads, faults>>

SpawnWorker(c) ==
  /\ At(c, "counting")
  /\ unread[c] = {}
  /\ active[c] < MaxAsync
  /\ worker' = [worker EXCEPT ![c] = "live"]
  /\ Goto(c, "recording")
  /\ UNCHANGED <<ask, alive, locks, unread, active, created, fresh, status, recorded, threads, faults>>

\* The output files or the process cannot be made.
SpawnFails(c) ==
  /\ At(c, "counting")
  /\ unread[c] = {}
  /\ active[c] < MaxAsync
  /\ faults < MaxFaults
  /\ faults' = faults + 1
  /\ Refuse(c)
  /\ UNCHANGED <<ask, alive, unread, active, created, fresh, recorded, worker, threads>>

RecordWorker(c) ==
  /\ At(c, "recording")
  /\ recorded' = recorded \cup {c}
  /\ Release({c})
  /\ Goto(c, "launched")
  /\ UNCHANGED <<ask, alive, unread, active, created, fresh, status, worker, threads, faults>>

\* The snapshot fails: the worker is killed and the launch with it.
RecordFails(c) ==
  /\ At(c, "recording")
  /\ faults < MaxFaults
  /\ faults' = faults + 1
  /\ worker' = [worker EXCEPT ![c] = "dead"]
  /\ Refuse(c)
  /\ UNCHANGED <<ask, alive, unread, active, created, fresh, recorded, threads>>

-----------------------------------------------------------------------------
(* _start_background_thread                                                 *)

\* Mutant: one thread too many.
StartThreadBeyond(c) ==
  LET g == ask[c].home IN
  /\ At(c, "created")
  /\ ask[c].mode = "thread"
  /\ threads[g] <= MaxAsync
  /\ threads' = [threads EXCEPT ![g] = @ + 1]
  /\ worker' = [worker EXCEPT ![c] = "live"]
  /\ Release({c})
  /\ Goto(c, "launched")
  /\ UNCHANGED <<ask, alive, unread, active, created, fresh, status, recorded, faults>>

StartThread(c) ==
  LET g == ask[c].home IN
  /\ At(c, "created")
  /\ ask[c].mode = "thread"
  /\ threads[g] < MaxAsync
  /\ threads' = [threads EXCEPT ![g] = @ + 1]
  /\ worker' = [worker EXCEPT ![c] = "live"]
  /\ Release({c})
  /\ Goto(c, "launched")
  /\ UNCHANGED <<ask, alive, unread, active, created, fresh, status, recorded, faults>>

ThreadsFull(c) ==
  /\ At(c, "created")
  /\ ask[c].mode = "thread"
  /\ threads[ask[c].home] >= MaxAsync
  /\ Refuse(c)
  /\ UNCHANGED <<ask, alive, unread, active, created, fresh, recorded, worker, threads, faults>>

\* The interpreter has no thread to give; the count was already raised.
ThreadStartFails(c) ==
  LET g == ask[c].home IN
  /\ At(c, "created")
  /\ ask[c].mode = "thread"
  /\ threads[g] < MaxAsync
  /\ faults < MaxFaults
  /\ faults' = faults + 1
  /\ threads' = [threads EXCEPT ![g] = @ + 1]
  /\ Refuse(c)
  /\ UNCHANGED <<ask, alive, unread, active, created, fresh, recorded, worker>>

-----------------------------------------------------------------------------
(* The runs, as the scans see them                                          *)

Publish(c) ==
  /\ worker[c] = "live"
  /\ pc[c] # "recording"
  /\ status[c] \in {"running", "cancelling"}
  /\ status' = [status EXCEPT ![c] = "final"]
  /\ UNCHANGED <<ask, pc, alive, locks, unread, active, created, fresh, recorded, worker, threads, faults>>

\* apply_cancel of an interactive run.
MarkCancelling(c) ==
  /\ worker[c] = "live"
  /\ pc[c] # "recording"
  /\ ask[c].mode = "detached"
  /\ status[c] = "running"
  /\ status' = [status EXCEPT ![c] = "cancelling"]
  /\ UNCHANGED <<ask, pc, alive, locks, unread, active, created, fresh, recorded, worker, threads, faults>>

\* Mutant: every worker gives a thread's place back.
LeaveCounted(c) ==
  LET g == ask[c].home IN
  /\ worker[c] = "live"
  /\ status[c] = "final"
  /\ worker' = [worker EXCEPT ![c] = "dead"]
  /\ threads' = [threads EXCEPT ![g] = IF @ > 0 THEN @ - 1 ELSE 0]
  /\ UNCHANGED <<ask, pc, alive, locks, unread, active, created, fresh, status, recorded, faults>>

\* The end of a background thread lowers its gateway's count.
GiveBack(c) ==
  threads' = IF ask[c].mode = "thread"
             THEN [threads EXCEPT ![ask[c].home] = IF @ > 0 THEN @ - 1 ELSE 0] ELSE threads

Leave(c) ==
  /\ worker[c] = "live"
  /\ status[c] = "final"
  /\ worker' = [worker EXCEPT ![c] = "dead"]
  /\ GiveBack(c)
  /\ UNCHANGED <<ask, pc, alive, locks, unread, active, created, fresh, status, recorded, faults>>

\* A worker process dies, or an error it cannot publish ends a thread or a
\* foreground run in a gateway that goes on.
WorkerDies(c) ==
  /\ faults < MaxFaults
  /\ faults' = faults + 1
  /\ worker[c] = "live"
  /\ worker' = [worker EXCEPT ![c] = "dead"]
  /\ GiveBack(c)
  /\ UNCHANGED <<ask, pc, alive, locks, unread, active, created, fresh, status, recorded>>

\* created_at falls behind the duplicate window.
Age(c) ==
  /\ c \in fresh
  /\ fresh' = fresh \ {c}
  /\ UNCHANGED <<ask, pc, alive, locks, unread, active, created, status, recorded, worker, threads, faults>>

\* A gateway dies: the kernel frees its locks, its threads and foreground
\* runs go with it, its detached workers stay.
GatewayDies(g) ==
  LET own == {c \in Calls : ask[c].home = g} IN
  /\ faults < MaxFaults
  /\ faults' = faults + 1
  /\ g \in alive
  /\ alive' = alive \ {g}
  /\ Release(own)
  /\ pc' = [c \in Calls |-> IF c \in own /\ pc[c] \notin Answered THEN "lost" ELSE pc[c]]
  /\ worker' = [c \in Calls |-> IF c \in own /\ ask[c].mode # "detached" /\ worker[c] = "live"
                                THEN "dead" ELSE worker[c]]
  /\ threads' = [threads EXCEPT ![g] = 0]
  /\ UNCHANGED <<ask, unread, active, created, fresh, status, recorded>>

-----------------------------------------------------------------------------
DispatchStep(c) ==
  \/ Admit(c) \/ TakeFingerprint(c) \/ Create(c)
  \/ \E r \in Calls : ReadPast(c, r) \/ Reuse(c, r) \/ Count(c, r)
  \/ TakeCapacity(c) \/ CapacityReached(c) \/ SpawnWorker(c) \/ RecordWorker(c)
  \/ StartThread(c) \/ ThreadsFull(c)

RunStep(c) == Publish(c) \/ MarkCancelling(c) \/ Leave(c) \/ Age(c)

FaultStep == \/ \E c \in Calls : SpawnFails(c) \/ RecordFails(c) \/ ThreadStartFails(c) \/ WorkerDies(c)
             \/ \E g \in Gateways : GatewayDies(g)

Next == (\E c \in Calls : DispatchStep(c) \/ RunStep(c)) \/ FaultStep

Spec == Init /\ [][Next]_vars

\* A call that can go on does; nothing is asked of workers or of time.
FairSpec == Spec /\ \A c \in Calls : WF_vars(DispatchStep(c))

-----------------------------------------------------------------------------
(* Safety *)

Older(c, d) == \E i, j \in DOMAIN created : i < j /\ created[i] = c /\ created[j] = d

\* The later call asked to reuse, was entitled to the earlier run, and still
\* sees it inside the window.
Entitled(c, d) ==
  /\ Older(c, d)
  /\ ask[d].reuse
  /\ Authorised(ask[c], ask[d])
  /\ SameRequest(ask[c], ask[d])
  /\ c \in fresh

Working(c) == status[c] = "running" /\ worker[c] = "live"

\* Two equal requests of one conversation are never both at work, through
\* races, through compression of the caller's session and through crashes, as
\* long as the gateway of the first one lives.
NoDuplicateWork ==
  \A c, d \in Calls : Entitled(c, d) /\ Working(c) /\ Working(d) => ask[c].home \notin alive

\* Detached workers that are recorded, or about to be, stay within capacity; a
\* gateway's live background threads are covered by its counter, and that is too.
CapacityHolds ==
  /\ Cardinality({c \in Calls : Working(c) /\ (c \in recorded \/ pc[c] = "recording")}) <= MaxAsync
  /\ \A g \in alive :
       /\ Cardinality({c \in Calls : ask[c].mode = "thread" /\ ask[c].home = g
                                       /\ worker[c] = "live"}) <= threads[g]
       /\ threads[g] <= MaxAsync

\* A run is left without a worker only by the death of its gateway or by a
\* failure it could not publish; a launch that is refused otherwise has ended
\* its run, and none that was answered with an error left a worker alive.
LaunchedOrFinal ==
  \A c \in Runs :
    /\ worker[c] = "none" /\ status[c] = "running" =>
         pc[c] \in {"created", "counting", "lost", "unpublished"}
    /\ pc[c] = "refused" => status[c] = "final"
    /\ pc[c] \in {"refused", "unpublished"} => worker[c] # "live"

\* No call is answered with a run whose launch is still under way, or that was
\* lost before it: only with one that was launched, or whose failed launch was
\* never published.
ReusedRunsAreDecided ==
  [][\A c, r \in Calls : Reuse(c, r) => pc[r] \in {"launched", "unpublished"}]_vars

(* Liveness *)

\* No order of lock acquisitions, and no death of a holder, blocks a call.
EveryCallIsAnswered == \A c \in Calls : pc[c] = "new" ~> pc[c] \in Answered

-----------------------------------------------------------------------------
(* What the documentation says and the code does not do *)

\* README: identical active requests from the same origin are reused.
IdenticalRequestsAreReused ==
  \A c, d \in Calls : ~ (Entitled(c, d) /\ Working(c) /\ Working(d) /\ c \in recorded)

=============================================================================
