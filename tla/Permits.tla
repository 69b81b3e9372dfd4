------------------------------ MODULE Permits -------------------------------
(***************************************************************************)
(* The execution permits of one Hermes home: a fixed number of slot files, *)
(* each held by flock for as long as a delegated child lives.  A worker    *)
(* that cannot reap its child in time hands the permit to a reaper thread; *)
(* a worker that dies loses the permit while its child goes on.            *)
(***************************************************************************)
EXTENDS Naturals, FiniteSets

CONSTANTS Workers,
          MaxConcurrent, \* number of slot files
          Free,          \* a slot nobody holds
          MaxFaults      \* bound on worker deaths

ASSUME PermitsAssumption == MaxConcurrent \in Nat \ {0} /\ MaxFaults \in Nat
ASSUME FreeAssumption    == Free \notin Workers

Slots == 1 .. MaxConcurrent

VARIABLES
  kind,     \* "simple" or "interactive" transport
  pc,       \* where each worker is
  tried,    \* slots the worker has found taken
  slot,     \* holder of each slot file
  child,    \* the delegated process of each worker
  reaper,   \* the thread that may inherit the permit
  said,     \* transport_alive in status.json
  terminal, \* runs with a terminal status
  faults

vars == <<kind, pc, tried, slot, child, reaper, said, terminal, faults>>

TypeOK ==
  /\ kind \in [Workers -> {"simple", "interactive"}]
  /\ pc \in [Workers -> {"trying", "holding", "running", "leaving", "reaping",
                         "publishing", "ended", "dead"}]
  /\ tried \in [Workers -> 0 .. MaxConcurrent]
  /\ slot \in [Slots -> Workers \cup {Free}]
  /\ child \in [Workers -> {"none", "live", "exited"}]
  /\ reaper \in [Workers -> {"none", "waiting", "done"}]
  /\ said \in [Workers -> BOOLEAN]
  /\ terminal \in SUBSET Workers
  /\ faults \in 0 .. MaxFaults

Init ==
  /\ kind \in [Workers -> {"simple", "interactive"}]
  /\ pc = [w \in Workers |-> "trying"]
  /\ tried = [w \in Workers |-> 0]
  /\ slot = [k \in Slots |-> Free]
  /\ child = [w \in Workers |-> "none"]
  /\ reaper = [w \in Workers |-> "none"]
  /\ said = [w \in Workers |-> FALSE]
  /\ terminal = {}
  /\ faults = 0

Goto(w, l) == pc' = [pc EXCEPT ![w] = l]
Release(w) == slot' = [k \in Slots |-> IF slot[k] = w THEN Free ELSE slot[k]]

-----------------------------------------------------------------------------
(* acquire_concurrency_slot: the files are tried once each, without waiting *)

TakeSlot(w) ==
  /\ pc[w] = "trying"
  /\ tried[w] < MaxConcurrent
  /\ slot[tried[w] + 1] = Free
  /\ slot' = [slot EXCEPT ![tried[w] + 1] = w]
  /\ Goto(w, "holding")
  /\ UNCHANGED <<kind, tried, child, reaper, said, terminal, faults>>

NextSlot(w) ==
  /\ pc[w] = "trying"
  /\ tried[w] < MaxConcurrent
  /\ slot[tried[w] + 1] # Free
  /\ tried' = [tried EXCEPT ![w] = @ + 1]
  /\ UNCHANGED <<kind, pc, slot, child, reaper, said, terminal, faults>>

LimitReached(w) ==
  /\ pc[w] = "trying"
  /\ tried[w] = MaxConcurrent
  /\ Goto(w, "publishing")
  /\ UNCHANGED <<kind, tried, slot, child, reaper, said, terminal, faults>>

-----------------------------------------------------------------------------
(* The child under the permit                                               *)

Spawn(w) ==
  /\ pc[w] = "holding"
  /\ child' = [child EXCEPT ![w] = "live"]
  /\ said' = [said EXCEPT ![w] = TRUE]
  /\ Goto(w, "running")
  /\ UNCHANGED <<kind, tried, slot, reaper, terminal, faults>>

\* Launching raises: the permit is given back with no child to account for.
LaunchFails(w) ==
  /\ pc[w] = "holding"
  /\ Release(w)
  /\ Goto(w, "publishing")
  /\ UNCHANGED <<kind, tried, child, reaper, said, terminal, faults>>

\* By itself, or killed by the worker or by anybody else.
ChildExits(w) ==
  /\ child[w] = "live"
  /\ child' = [child EXCEPT ![w] = "exited"]
  /\ UNCHANGED <<kind, pc, tried, slot, reaper, said, terminal, faults>>

\* run_capped_subprocess returns only after the wait for its child; between
\* attempts the permit stays.
Retry(w) ==
  /\ kind[w] = "simple"
  /\ pc[w] = "running"
  /\ child[w] = "exited"
  /\ said' = [said EXCEPT ![w] = FALSE]
  /\ Goto(w, "holding")
  /\ UNCHANGED <<kind, tried, slot, child, reaper, terminal, faults>>

FinishSimple(w) ==
  /\ kind[w] = "simple"
  /\ pc[w] = "running"
  /\ child[w] = "exited"
  /\ said' = [said EXCEPT ![w] = FALSE]
  /\ Release(w)
  /\ Goto(w, "publishing")
  /\ UNCHANGED <<kind, tried, child, reaper, terminal, faults>>

\* teardown: close() is bounded, and the child may outlive it.
Teardown(w) ==
  /\ kind[w] = "interactive"
  /\ pc[w] = "running"
  /\ said' = [said EXCEPT ![w] = child[w] = "live"]
  /\ Goto(w, "leaving")
  /\ UNCHANGED <<kind, tried, slot, child, reaper, terminal, faults>>

-----------------------------------------------------------------------------
(* execution_slot: leaving the permit, or passing it on                     *)

\* Mutant: the permit accounts for the turn and not for the child.
GiveBackAlways(w) ==
  /\ pc[w] = "leaving"
  /\ Release(w)
  /\ Goto(w, "publishing")
  /\ UNCHANGED <<kind, tried, child, reaper, said, terminal, faults>>

GiveBack(w) ==
  /\ pc[w] = "leaving"
  /\ child[w] # "live"
  /\ Release(w)
  /\ Goto(w, "publishing")
  /\ UNCHANGED <<kind, tried, child, reaper, said, terminal, faults>>

HandOver(w) ==
  /\ pc[w] = "leaving"
  /\ child[w] = "live"
  /\ reaper' = [reaper EXCEPT ![w] = "waiting"]
  /\ Goto(w, "publishing")
  /\ UNCHANGED <<kind, tried, slot, child, said, terminal, faults>>

\* No thread to be had: the worker reaps before it publishes.
ReapInline(w) ==
  /\ pc[w] = "leaving"
  /\ child[w] = "live"
  /\ reaper' = [reaper EXCEPT ![w] = "waiting"]
  /\ Goto(w, "reaping")
  /\ UNCHANGED <<kind, tried, slot, child, said, terminal, faults>>

\* Mutant: the merge of the reaper fails and takes the release with it.
ReapedWithoutRelease(w) ==
  /\ reaper[w] = "waiting"
  /\ child[w] = "exited"
  /\ reaper' = [reaper EXCEPT ![w] = "done"]
  /\ said' = [said EXCEPT ![w] = w \in terminal /\ @]
  /\ pc' = IF pc[w] = "reaping" THEN [pc EXCEPT ![w] = "publishing"] ELSE pc
  /\ UNCHANGED <<kind, tried, slot, child, terminal, faults>>

\* merge_run_status leaves transport_alive of a terminal run alone.
Reaped(w) ==
  /\ reaper[w] = "waiting"
  /\ child[w] = "exited"
  /\ reaper' = [reaper EXCEPT ![w] = "done"]
  /\ said' = [said EXCEPT ![w] = w \in terminal /\ @]
  /\ Release(w)
  /\ pc' = IF pc[w] = "reaping" THEN [pc EXCEPT ![w] = "publishing"] ELSE pc
  /\ UNCHANGED <<kind, tried, child, terminal, faults>>

-----------------------------------------------------------------------------
\* Mutant: the terminal record takes the child for gone.
PublishSettled(w) ==
  /\ pc[w] = "publishing"
  /\ w \notin terminal
  /\ terminal' = terminal \cup {w}
  /\ said' = [said EXCEPT ![w] = FALSE]
  /\ UNCHANGED <<kind, pc, tried, slot, child, reaper, faults>>

\* The terminal record says what poll() says of an interactive child; a simple
\* one has been reaped.
Publish(w) ==
  /\ pc[w] = "publishing"
  /\ w \notin terminal
  /\ terminal' = terminal \cup {w}
  /\ said' = [said EXCEPT ![w] = kind[w] = "interactive" /\ child[w] = "live"]
  /\ UNCHANGED <<kind, pc, tried, slot, child, reaper, faults>>

\* The reaper is no daemon: the process stays until it is done.
Exit(w) ==
  /\ pc[w] = "publishing"
  /\ w \in terminal
  /\ reaper[w] # "waiting"
  /\ Goto(w, "ended")
  /\ UNCHANGED <<kind, tried, slot, child, reaper, said, terminal, faults>>

\* The flock goes with the worker; the child, in a session of its own, stays.
WorkerDies(w) ==
  /\ faults < MaxFaults
  /\ faults' = faults + 1
  /\ pc[w] \notin {"ended", "dead"}
  /\ Release(w)
  /\ reaper' = [reaper EXCEPT ![w] = IF @ = "waiting" THEN "none" ELSE @]
  /\ Goto(w, "dead")
  /\ UNCHANGED <<kind, tried, child, said, terminal>>

\* An operator repairs the run of a dead worker, and takes its transport for
\* gone as well.
Repair(w) ==
  /\ pc[w] = "dead"
  /\ w \notin terminal
  /\ terminal' = terminal \cup {w}
  /\ said' = [said EXCEPT ![w] = FALSE]
  /\ UNCHANGED <<kind, pc, tried, slot, child, reaper, faults>>

-----------------------------------------------------------------------------
Acquire(w) == TakeSlot(w) \/ NextSlot(w) \/ LimitReached(w)
Finish(w)  == FinishSimple(w) \/ Teardown(w) \/ GiveBack(w) \/ HandOver(w) \/ Reaped(w)

WorkerStep(w) ==
  \/ Acquire(w) \/ Spawn(w) \/ LaunchFails(w) \/ Retry(w)
  \/ Finish(w) \/ ReapInline(w) \/ Publish(w) \/ Exit(w)

Next == \E w \in Workers : WorkerStep(w) \/ ChildExits(w) \/ WorkerDies(w) \/ Repair(w)

Spec == Init /\ [][Next]_vars

\* Workers go on, attempts are finite, and a child ends at the latest when it
\* has been killed.
Fairness == \A w \in Workers :
  WF_vars(Acquire(w)) /\ WF_vars(Spawn(w) \/ LaunchFails(w)) /\ SF_vars(Finish(w)) /\ WF_vars(ChildExits(w))

FairSpec == Spec /\ Fairness

-----------------------------------------------------------------------------
(* Safety *)

\* No child of a living worker runs without a permit, whichever of the worker
\* and its reaper is in charge of it; and a run published by its own worker says
\* that the transport is gone only when it is.
LivingChildIsAccountedFor ==
  \A w \in Workers : child[w] = "live" /\ pc[w] # "dead" =>
    /\ \E k \in Slots : slot[k] = w
    /\ w \in terminal => said[w]

(* Liveness *)

\* Every permit comes back, however the child, its teardown and the reaper
\* interleave and whoever dies.
PermitsComeBack == \A w \in Workers, k \in Slots : slot[k] = w ~> slot[k] # w
=============================================================================
