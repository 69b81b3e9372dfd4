--------------------------- MODULE DispatchProofs ---------------------------
(***************************************************************************)
(* Proofs about Dispatch, for any calls, gateways, scenarios, capacity and *)
(* number of deaths.  What the three locks exclude is stated of the call   *)
(* that holds them, and what a scan may rely on of the runs it has passed. *)
(***************************************************************************)
EXTENDS Dispatch, FiniteSetTheorems, TLAPS

Moves(c) ==
  \/ DispatchStep(c) \/ RunStep(c)
  \/ SpawnFails(c) \/ RecordFails(c) \/ ThreadStartFails(c) \/ WorkerDies(c)

-----------------------------------------------------------------------------
(* The inductive invariant                                                  *)

Unborn == {"new", "admitted", "scanning", "reused"}

\* What the place of a call says of its run.
StageOf(c) ==
  /\ pc[c] \in Unborn => status[c] = "none"
  /\ status[c] = "none" => /\ pc[c] \in Unborn \cup {"lost"}
                           /\ worker[c] = "none" /\ c \notin recorded
  /\ pc[c] \in {"created", "counting"} => status[c] = "running" /\ worker[c] = "none"
  /\ pc[c] = "recording" => status[c] = "running"
  /\ pc[c] = "launched" => worker[c] # "none"
  /\ pc[c] = "refused" => status[c] = "final"
  /\ pc[c] \in {"refused", "unpublished"} => worker[c] # "live"
  /\ pc[c] \in {"counting", "recording"} => ask[c].mode = "detached"
  /\ pc[c] = "recording" => worker[c] # "none"
  /\ c \in recorded => pc[c] = "launched"
  /\ pc[c] = "scanning" /\ unread[c] # {} => ask[c].reuse
  /\ pc[c] = "lost" => ask[c].home \notin alive

\* The locks a call holds, from their taking to its answer.
LockedOf(c) ==
  /\ pc[c] \in {"admitted", "scanning", "created", "counting", "recording"}
       => admission[Conversation(ask[c])] = c
  /\ pc[c] \in {"scanning", "created", "counting", "recording"}
       => fingerprint[Fingerprint(ask[c])] = c
  /\ pc[c] \in {"counting", "recording"} => capacity = c

\* Nobody will reuse this run any more.
Past(c) ==
  \/ status[c] # "running"
  \/ c \notin fresh
  \/ c \in recorded /\ worker[c] = "dead"
  \/ ask[c].home \notin alive

\* The call d is entitled to the run of c.
MayReuse(c, d) == ask[d].reuse /\ Authorised(ask[c], ask[d]) /\ SameRequest(ask[c], ask[d])

\* What a scan for duplicates has read past stays past.
Scanned ==
  \A c, d \in Calls :
    pc[d] = "scanning" /\ c \in Runs /\ MayReuse(c, d) => c \in unread[d] \/ Past(c)

\* A run is created when every run it could have been is past.
Made ==
  /\ \A i \in DOMAIN created : created[i] \in Runs
  /\ \A i, j \in DOMAIN created :
       i < j /\ MayReuse(created[i], created[j]) => Past(created[i])

\* Detached workers, as the capacity scan counts them, and with the one that is
\* about to be recorded.
Counted  == {c \in Calls : Working(c) /\ c \in recorded}
Occupied == {c \in Calls : Working(c) /\ (c \in recorded \/ pc[c] = "recording")}

\* What the capacity scan has read it has counted.
CountOf(c) ==
  /\ pc[c] \in Unborn \cup {"created"} => active[c] = 0
  /\ pc[c] = "counting" => /\ Cardinality(Counted \ unread[c]) <= active[c]
                           /\ active[c] + Cardinality(unread[c]) <= Cardinality(Calls)

Threads(g) == {c \in Calls : ask[c].mode = "thread" /\ ask[c].home = g /\ worker[c] = "live"}

Placed == \A c \in Calls : StageOf(c) /\ LockedOf(c)
Counts == \A c \in Calls : CountOf(c)
Within == Cardinality(Occupied) <= MaxAsync
Covers == \A g \in Gateways : Cardinality(Threads(g)) <= threads[g]

Inv == TypeOK /\ Placed /\ Scanned /\ Made /\ Counts /\ Within /\ Covers

-----------------------------------------------------------------------------
(* Who asks                                                                 *)

LEMMA AskedFor ==
  ASSUME TypeOK, NEW c \in Calls
  PROVE  /\ ask[c].home \in Gateways /\ ask[c].mode \in Modes /\ ask[c].reuse \in BOOLEAN
         /\ Conversation(ask[c]) \in Conversations /\ Fingerprint(ask[c]) \in Prints
<1>1. ask[c] \in Asked
  BY DEF TypeOK, Asked
<1> QED
  BY <1>1, ScenariosAssumption DEF TypeOK, Conversations, Prints

\* First of three fields, spelt out.
LEMMA FirstOfThree ==
  ASSUME NEW x, NEW y, NEW z
  PROVE  First(<<x, y, z>>) = IF x # None THEN x ELSE IF y # None THEN y ELSE z
<1> DEFINE f == <<x, y, z>>
           P(i) == i \in DOMAIN f /\ f[i] # None /\ \A j \in 1 .. i - 1 : f[j] = None
<1>1. DOMAIN f = 1 .. 3 /\ f[1] = x /\ f[2] = y /\ f[3] = z
  OBVIOUS
<1>2. \A i, k : P(i) /\ P(k) => i = k
  <2> SUFFICES ASSUME NEW i, NEW k, P(i), P(k) PROVE i = k
    OBVIOUS
  <2>1. i \in 1 .. 3 /\ k \in 1 .. 3
    BY <1>1
  <2>2. ~ (i < k) /\ ~ (k < i)
    BY <2>1
  <2> QED
    BY <2>1, <2>2
<1>3. CASE x # None
  <2>1. P(1)
    BY <1>1, <1>3
  <2> QED
    BY <1>1, <1>2, <1>3, <2>1 DEF First
<1>4. CASE x = None /\ y # None
  <2>1. P(2)
    BY <1>1, <1>4
  <2> QED
    BY <1>1, <1>2, <1>4, <2>1 DEF First
<1>5. CASE x = None /\ y = None /\ z # None
  <2>1. P(3)
    BY <1>1, <1>5
  <2> QED
    BY <1>1, <1>2, <1>5, <2>1 DEF First
<1>6. CASE x = None /\ y = None /\ z = None
  BY <1>1, <1>6 DEF First
<1> QED
  BY <1>3, <1>4, <1>5, <1>6

\* A call that may reuse a run waits for the lock its caller held, whatever
\* compression did to the session in between.
LEMMA OneLock ==
  ASSUME TypeOK, NEW c \in Calls, NEW d \in Calls, MayReuse(c, d)
  PROVE  /\ Identity(ask[d]) # None
         /\ \/ Conversation(ask[c]) = Conversation(ask[d])
            \/ Fingerprint(ask[c]) = Fingerprint(ask[d])
<1> DEFINE a == ask[c]
           b == ask[d]
<1>1. \A f \in {"key", "sid"} : a[f] = b[f] /\ a[f] # None => (a.ui = None <=> b.ui = None)
  BY LanesAssumption DEF TypeOK
<1>2. /\ a.key = b.key /\ a.key # None => (a.ui = None <=> b.ui = None)
      /\ a.sid = b.sid /\ a.sid # None => (a.ui = None <=> b.ui = None)
  BY <1>1
<1>3. \/ a.ui # None /\ a.ui = b.ui
      \/ a.sid # None /\ a.sid = b.sid /\ None \in {a.ui, b.ui}
      \/ a.key # None /\ a.key = b.key /\ ~ Differ(a.ui, b.ui)
  <2>1. CASE SameOrigin(a, b)
    <3>1. PICK f \in {"ui", "sid", "key"} :
            /\ a[f] # None /\ a[f] = b[f]
            /\ f # "ui" => None \in {a.ui, b.ui}
      BY <2>1 DEF SameOrigin
    <3> QED
      BY <3>1 DEF Differ
  <2>2. CASE Compressed(a, b)
    BY <2>2 DEF Compressed, Differ
  <2> QED
    BY <2>1, <2>2 DEF MayReuse, Authorised
<1>4. /\ Identity(a) = IF a.ui # None THEN a.ui ELSE IF a.sid # None THEN a.sid ELSE a.key
      /\ Identity(b) = IF b.ui # None THEN b.ui ELSE IF b.sid # None THEN b.sid ELSE b.key
  BY FirstOfThree DEF Identity
<1>5. /\ Conversation(a) = IF a.ui # None THEN a.ui ELSE IF a.key # None THEN a.key ELSE Identity(a)
      /\ Conversation(b) = IF b.ui # None THEN b.ui ELSE IF b.key # None THEN b.key ELSE Identity(b)
  BY FirstOfThree DEF Conversation
<1>6. Identity(a) = Identity(b) => Fingerprint(a) = Fingerprint(b)
  BY DEF Fingerprint, MayReuse, SameRequest
<1> HIDE DEF a, b
<1> QED
  BY <1>2, <1>3, <1>4, <1>5, <1>6 DEF Differ, a, b

-----------------------------------------------------------------------------
(* Types                                                                    *)

LEMMA CallsAreFinite == Cardinality(Calls) \in Nat /\ IsFiniteSet(Calls)
  BY CallsAssumption, FS_CardinalityType

\* Every set the proofs count is a set of calls.
LEMMA Countable ==
  ASSUME NEW S \in SUBSET Calls
  PROVE  /\ IsFiniteSet(S) /\ Cardinality(S) \in Nat
         /\ Cardinality(S) <= Cardinality(Calls)
  BY CallsAreFinite, FS_Subset, FS_CardinalityType

LEMMA FewerCount ==
  ASSUME NEW S \in SUBSET Calls, NEW T \in SUBSET S
  PROVE  Cardinality(T) <= Cardinality(S)
  BY Countable, FS_Subset

LEMMA OneMore ==
  ASSUME NEW S \in SUBSET Calls, NEW c \in Calls
  PROVE  /\ Cardinality(S \cup {c}) \in Nat
         /\ Cardinality(S \cup {c}) <= Cardinality(S) + 1
<1>1. /\ IsFiniteSet(S) /\ Cardinality(S) \in Nat
      /\ S \cup {c} \in SUBSET Calls
  BY Countable
<1>2. Cardinality(S \cup {c}) = IF c \in S THEN Cardinality(S) ELSE Cardinality(S) + 1
  BY <1>1, FS_AddElement
<1> QED
  BY <1>1, <1>2

LEMMA Initially == Init => Inv
<1> SUFFICES ASSUME Init PROVE Inv
  OBVIOUS
<1>1. TypeOK
  <2>1. 0 \in 0 .. Cardinality(Calls) /\ 0 \in 0 .. MaxAsync /\ 0 \in 0 .. MaxFaults
    BY CallsAreFinite, BoundsAssumption
  <2> QED
    BY <2>1 DEF Init, TypeOK, PCs
<1>2. Placed /\ Scanned
  BY DEF Init, Placed, StageOf, LockedOf, Unborn, Scanned
<1>3. Made
  BY DEF Init, Made
<1>4. Counts
  BY DEF Init, Counts, CountOf, Unborn
<1>5. Occupied = {} /\ \A g \in Gateways : Threads(g) = {}
  BY DEF Init, Occupied, Working, Threads
<1>6. Within /\ Covers
  <2>1. \A g \in Gateways : threads[g] = 0
    BY DEF Init
  <2> QED
    BY <1>5, <2>1, FS_EmptySet, BoundsAssumption DEF Within, Covers
<1> QED
  BY <1>1, <1>2, <1>3, <1>4, <1>6 DEF Inv

\* A release leaves the locks to calls or to nobody.
LEMMA ReleaseTypes ==
  ASSUME TypeOK, NEW S, Release(S)
  PROVE  /\ admission' \in [Conversations -> Calls \cup {Nobody}]
         /\ fingerprint' \in [Prints -> Calls \cup {Nobody}]
         /\ capacity' \in Calls \cup {Nobody}
  BY DEF TypeOK, Release

\* A refusal, published or not.
LEMMA RefuseTypes ==
  ASSUME TypeOK, NEW c \in Calls, Refuse(c)
  PROVE  /\ Release({c})
         /\ status' \in [Calls -> {"none", "running", "cancelling", "final"}]
         /\ pc' \in [Calls -> PCs]
  BY DEF TypeOK, Refuse, Goto, PCs

LEMMA TypeStep == ASSUME Inv, NEW c \in Calls, Moves(c) PROVE TypeOK'
<1> USE DEF Inv, TypeOK, PCs
<1>0. Runs \in SUBSET Calls
  BY DEF Runs
<1>1. CASE Admit(c)
  BY <1>1, AskedFor DEF Admit, Goto, runState
<1>2. CASE TakeFingerprint(c)
  BY <1>0, <1>2, AskedFor DEF TakeFingerprint, Goto, locks, runState
<1>3. CASE \E r \in Calls : ReadPast(c, r)
  BY <1>3 DEF ReadPast, locks, runState
<1>4. CASE \E r \in Calls : Reuse(c, r)
  BY <1>4, ReleaseTypes DEF Reuse, Goto, runState
<1>5. CASE Create(c)
  <2>1. created' \in Seq(Calls)
    BY <1>5 DEF Create
  <2>2. CASE ask[c].mode = "foreground"
    BY <1>5, <2>1, <2>2, ReleaseTypes DEF Create, Goto
  <2>3. CASE ask[c].mode # "foreground"
    BY <1>5, <2>1, <2>3 DEF Create, Goto, locks
  <2> QED
    BY <2>2, <2>3
<1>6. CASE TakeCapacity(c)
  BY <1>0, <1>6 DEF TakeCapacity, Goto, runState
<1>7. CASE \E r \in Calls : Count(c, r)
  <2>1. PICK r \in Calls : Count(c, r)
    BY <1>7
  <2>2. active[c] + 1 \in 0 .. Cardinality(Calls)
    <3>1. Cardinality(unread[c]) \in Nat /\ Cardinality(unread[c]) >= 1
      <4>1. unread[c] \in SUBSET Calls /\ unread[c] # {}
        BY <2>1 DEF Count
      <4> QED
        BY <4>1, Countable, FS_EmptySet
    <3>2. active[c] + Cardinality(unread[c]) <= Cardinality(Calls)
      BY <2>1 DEF Count, At, Counts, CountOf
    <3> QED
      BY <3>1, <3>2, CallsAreFinite
  <2>3. active' \in [Calls -> 0 .. Cardinality(Calls)]
    BY <2>1, <2>2 DEF Count
  <2> QED
    BY <2>1, <2>3 DEF Count, locks, runState
<1>8. CASE CapacityReached(c) \/ ThreadsFull(c) \/ SpawnFails(c)
  <2>1. Refuse(c)
    BY <1>8 DEF CapacityReached, ThreadsFull, SpawnFails
  <2>2. /\ status' \in [Calls -> {"none", "running", "cancelling", "final"}]
        /\ pc' \in [Calls -> PCs] /\ Release({c})
    BY <2>1, RefuseTypes
  <2>3. /\ UNCHANGED <<ask, alive, unread, active, created, fresh, recorded, worker, threads>>
        /\ faults' \in 0 .. MaxFaults
    BY <1>8, BoundsAssumption DEF CapacityReached, ThreadsFull, SpawnFails
  <2> QED
    BY <2>2, <2>3, ReleaseTypes
<1>9. CASE SpawnWorker(c)
  BY <1>9 DEF SpawnWorker, Goto, locks
<1>10. CASE RecordWorker(c)
  BY <1>10, ReleaseTypes DEF RecordWorker, Goto
<1>11. CASE RecordFails(c)
  <2>1. Refuse(c)
    BY <1>11 DEF RecordFails
  <2>2. /\ worker' \in [Calls -> {"none", "live", "dead"}] /\ faults' \in 0 .. MaxFaults
        /\ UNCHANGED <<ask, alive, unread, active, created, fresh, recorded, threads>>
    BY <1>11, BoundsAssumption DEF RecordFails
  <2> QED
    BY <2>1, <2>2, RefuseTypes, ReleaseTypes
<1>12. CASE StartThread(c)
  <2>1. threads' \in [Gateways -> 0 .. MaxAsync]
    BY <1>12, AskedFor, BoundsAssumption DEF StartThread
  <2> QED
    BY <1>12, <2>1, ReleaseTypes DEF StartThread, Goto
<1>13. CASE ThreadStartFails(c)
  <2>1. threads' \in [Gateways -> 0 .. MaxAsync] /\ faults' \in 0 .. MaxFaults
    BY <1>13, AskedFor, BoundsAssumption DEF ThreadStartFails
  <2>2. /\ Refuse(c)
        /\ UNCHANGED <<ask, alive, unread, active, created, fresh, recorded, worker>>
    BY <1>13 DEF ThreadStartFails
  <2> QED
    BY <2>1, <2>2, RefuseTypes, ReleaseTypes
<1>14. CASE Publish(c) \/ MarkCancelling(c) \/ Age(c)
  BY <1>14 DEF Publish, MarkCancelling, Age, locks
<1>15. CASE Leave(c)
  <2>1. threads' \in [Gateways -> 0 .. MaxAsync]
    BY <1>15, AskedFor, BoundsAssumption DEF Leave, GiveBack
  <2> QED
    BY <1>15, <2>1 DEF Leave, locks
<1>16. CASE WorkerDies(c)
  <2>1. threads' \in [Gateways -> 0 .. MaxAsync]
    BY <1>16, AskedFor, BoundsAssumption DEF WorkerDies, GiveBack
  <2> QED
    BY <1>16, <2>1, BoundsAssumption DEF WorkerDies, locks
<1> QED
  BY <1>1, <1>2, <1>3, <1>4, <1>5, <1>6, <1>7, <1>8, <1>9, <1>10, <1>11, <1>12, <1>13,
     <1>14, <1>15, <1>16
  DEF Moves, DispatchStep, RunStep

LEMMA TypeDeath == ASSUME TypeOK, NEW g \in Gateways, GatewayDies(g) PROVE TypeOK'
<1> USE DEF TypeOK, PCs
<1>1. pc' \in [Calls -> PCs] /\ worker' \in [Calls -> {"none", "live", "dead"}]
  BY DEF GatewayDies
<1>2. threads' \in [Gateways -> 0 .. MaxAsync] /\ faults' \in 0 .. MaxFaults
  BY BoundsAssumption DEF GatewayDies
<1> QED
  BY <1>1, <1>2, ReleaseTypes DEF GatewayDies

-----------------------------------------------------------------------------
(* Places and locks                                                         *)

\* What a call changes of the locks.
LEMMA LockMoves ==
  ASSUME NEW c \in Calls, Moves(c)
  PROVE  \/ UNCHANGED locks
         \/ Release({c})
         \/ Admit(c) \/ TakeFingerprint(c) \/ TakeCapacity(c)
<1>1. CASE DispatchStep(c)
  <2>1. CASE Create(c)
    BY <2>1 DEF Create, locks
  <2>2. CASE \E r \in Calls : ReadPast(c, r) \/ Reuse(c, r) \/ Count(c, r)
    BY <2>2 DEF ReadPast, Reuse, Count
  <2>3. CASE CapacityReached(c) \/ ThreadsFull(c)
    BY <2>3 DEF CapacityReached, ThreadsFull, Refuse
  <2> QED
    BY <1>1, <2>1, <2>2, <2>3 DEF DispatchStep, SpawnWorker, RecordWorker, StartThread
<1>2. CASE RunStep(c)
  BY <1>2 DEF RunStep, Publish, MarkCancelling, Leave, Age
<1>3. CASE SpawnFails(c) \/ RecordFails(c) \/ ThreadStartFails(c) \/ WorkerDies(c)
  BY <1>3 DEF SpawnFails, RecordFails, ThreadStartFails, WorkerDies, Refuse
<1> QED
  BY <1>1, <1>2, <1>3 DEF Moves

\* A lock that another call holds is not touched.
LEMMA LocksStand ==
  ASSUME TypeOK, NEW c \in Calls, Moves(c), NEW v \in Calls \ {c}
  PROVE  /\ \A x \in Conversations : admission[x] = v => admission'[x] = v
         /\ \A x \in Prints : fingerprint[x] = v => fingerprint'[x] = v
         /\ capacity = v => capacity' = v
<1>1. CASE UNCHANGED locks
  BY <1>1 DEF locks
<1>2. CASE Release({c})
  BY <1>2 DEF Release
<1>3. CASE Admit(c)
  BY <1>3, NobodyAssumption DEF Admit, TypeOK
<1>4. CASE TakeFingerprint(c)
  BY <1>4, NobodyAssumption DEF TakeFingerprint, TypeOK
<1>5. CASE TakeCapacity(c)
  BY <1>5, NobodyAssumption DEF TakeCapacity, TypeOK
<1> QED
  BY <1>1, <1>2, <1>3, <1>4, <1>5, LockMoves

\* The other calls and their runs notice nothing.
LEMMA OthersStand ==
  ASSUME TypeOK, NEW c \in Calls, Moves(c)
  PROVE  /\ ask' = ask /\ alive' = alive
         /\ \A v \in Calls \ {c} :
              /\ pc'[v] = pc[v] /\ status'[v] = status[v] /\ worker'[v] = worker[v]
              /\ unread'[v] = unread[v] /\ active'[v] = active[v]
              /\ v \in recorded' <=> v \in recorded
              /\ v \in fresh' <=> v \in fresh
<1> USE DEF TypeOK, Goto, locks, runState
<1>1. CASE Admit(c) \/ TakeFingerprint(c) \/ TakeCapacity(c)
  BY <1>1 DEF Admit, TakeFingerprint, TakeCapacity
<1>2. CASE \E r \in Calls : ReadPast(c, r) \/ Reuse(c, r) \/ Count(c, r)
  BY <1>2 DEF ReadPast, Reuse, Count
<1>3. CASE Create(c)
  BY <1>3 DEF Create
<1>4. CASE CapacityReached(c) \/ ThreadsFull(c) \/ SpawnFails(c)
  BY <1>4 DEF CapacityReached, ThreadsFull, SpawnFails, Refuse
<1>5. CASE SpawnWorker(c) \/ RecordWorker(c) \/ StartThread(c)
  BY <1>5 DEF SpawnWorker, RecordWorker, StartThread
<1>6. CASE RunStep(c)
  BY <1>6 DEF RunStep, Publish, MarkCancelling, Leave, Age
<1>7. CASE RecordFails(c) \/ ThreadStartFails(c) \/ WorkerDies(c)
  BY <1>7 DEF RecordFails, ThreadStartFails, WorkerDies, Refuse
<1> QED
  BY <1>1, <1>2, <1>3, <1>4, <1>5, <1>6, <1>7 DEF Moves, DispatchStep

LEMMA OthersPlaced ==
  ASSUME Inv, NEW c \in Calls, Moves(c), NEW v \in Calls \ {c}
  PROVE  StageOf(v)' /\ LockedOf(v)'
<1>1. StageOf(v) /\ LockedOf(v)
  BY DEF Inv, Placed
<1>2. StageOf(v)'
  BY <1>1, OthersStand DEF Inv, StageOf
<1>3. Conversation(ask[v]) \in Conversations /\ Fingerprint(ask[v]) \in Prints
  BY AskedFor DEF Inv
<1>4. ask'[v] = ask[v] /\ pc'[v] = pc[v]
  BY OthersStand DEF Inv
<1>5. /\ admission[Conversation(ask[v])] = v => admission'[Conversation(ask[v])] = v
      /\ fingerprint[Fingerprint(ask[v])] = v => fingerprint'[Fingerprint(ask[v])] = v
      /\ capacity = v => capacity' = v
  BY <1>3, LocksStand DEF Inv
<1> QED
  BY <1>1, <1>2, <1>4, <1>5 DEF LockedOf

\* The call whose step it is.
LEMMA OnePlaced ==
  ASSUME Inv, NEW c \in Calls, Moves(c)
  PROVE  StageOf(c)' /\ LockedOf(c)'
<1> DEFINE v == Conversation(ask[c])
           f == Fingerprint(ask[c])
<1>a. v \in Conversations /\ f \in Prints /\ Conversation(ask[c])' = v /\ Fingerprint(ask[c])' = f
  <2>1. v \in Conversations /\ f \in Prints
    BY AskedFor DEF Inv
  <2>2. ask'[c] = ask[c]
    BY OthersStand DEF Inv
  <2> QED
    BY <2>1, <2>2
<1>b. TypeOK /\ StageOf(c) /\ LockedOf(c)
  BY DEF Inv, Placed
<1> HIDE DEF v, f
<1> USE <1>a, <1>b DEF TypeOK, StageOf, LockedOf, Unborn, Goto, At, locks, runState
<1>1. CASE Admit(c)
  BY <1>1 DEF Admit, v
<1>2. CASE TakeFingerprint(c)
  BY <1>2 DEF TakeFingerprint, v, f
<1>3. CASE \E r \in Calls : ReadPast(c, r)
  BY <1>3 DEF ReadPast
<1>4. CASE \E r \in Calls : Reuse(c, r)
  BY <1>4 DEF Reuse
<1>5. CASE Create(c)
  BY <1>5 DEF Create
<1>6. CASE TakeCapacity(c)
  BY <1>6 DEF TakeCapacity
<1>7. CASE \E r \in Calls : Count(c, r)
  BY <1>7 DEF Count
<1>8. CASE CapacityReached(c)
  BY <1>8 DEF CapacityReached, Refuse
<1>9. CASE ThreadsFull(c)
  BY <1>9 DEF ThreadsFull, Refuse
<1>10. CASE SpawnWorker(c)
  BY <1>10 DEF SpawnWorker
<1>11. CASE RecordWorker(c)
  BY <1>11 DEF RecordWorker
<1>12. CASE RecordFails(c)
  BY <1>12 DEF RecordFails, Refuse
<1>13. CASE StartThread(c)
  BY <1>13 DEF StartThread
<1>14. CASE ThreadStartFails(c)
  BY <1>14 DEF ThreadStartFails, Refuse
<1>15. CASE Publish(c)
  BY <1>15 DEF Publish
<1>16. CASE MarkCancelling(c)
  BY <1>16 DEF MarkCancelling
<1>17. CASE Leave(c)
  BY <1>17 DEF Leave
<1>18. CASE Age(c)
  BY <1>18 DEF Age
<1>19. CASE WorkerDies(c)
  BY <1>19 DEF WorkerDies
<1>20. CASE SpawnFails(c)
  BY <1>20 DEF SpawnFails, Refuse
<1> QED
  BY <1>1, <1>2, <1>3, <1>4, <1>5, <1>6, <1>7, <1>8, <1>9, <1>10, <1>11, <1>12, <1>13,
     <1>14, <1>15, <1>16, <1>17, <1>18, <1>19, <1>20
  DEF Moves, DispatchStep, RunStep

-----------------------------------------------------------------------------
(* The two scans for duplicates                                             *)

\* What a call's own step does to its run.
LEMMA RunOfMover ==
  ASSUME Inv, NEW c \in Calls, Moves(c)
  PROVE  /\ status[c] = "none" => status'[c] = "none" \/ Create(c)
         /\ status[c] # "none" => status'[c] # "none" /\ ~ Create(c)
         /\ status[c] \notin {"none", "running"} => status'[c] \notin {"none", "running"}
         /\ c \in fresh' => c \in fresh \/ Create(c)
         /\ c \in recorded => c \in recorded'
         /\ worker[c] = "dead" => worker'[c] = "dead"
         /\ created' = created \/ Create(c)
<1>b. TypeOK /\ StageOf(c)
  BY DEF Inv, Placed
<1> USE <1>b DEF TypeOK, StageOf, Unborn, At, runState
<1>1. CASE Admit(c) \/ TakeFingerprint(c) \/ TakeCapacity(c)
  BY <1>1 DEF Admit, TakeFingerprint, TakeCapacity, Create
<1>2. CASE \E r \in Calls : ReadPast(c, r) \/ Reuse(c, r) \/ Count(c, r)
  BY <1>2 DEF ReadPast, Reuse, Count, Create
<1>3. CASE Create(c)
  BY <1>3 DEF Create
<1>4. CASE CapacityReached(c) \/ ThreadsFull(c) \/ SpawnFails(c)
  BY <1>4 DEF CapacityReached, ThreadsFull, SpawnFails, Refuse, Create
<1>5. CASE SpawnWorker(c)
  BY <1>5 DEF SpawnWorker, Create
<1>6. CASE RecordWorker(c)
  BY <1>6 DEF RecordWorker, Create
<1>7. CASE StartThread(c)
  BY <1>7 DEF StartThread, Create
<1>8. CASE Publish(c) \/ MarkCancelling(c)
  BY <1>8 DEF Publish, MarkCancelling, Create
<1>9. CASE Leave(c) \/ Age(c)
  BY <1>9 DEF Leave, Age, Create
<1>10. CASE RecordFails(c) \/ ThreadStartFails(c)
  BY <1>10 DEF RecordFails, ThreadStartFails, Refuse, Create
<1>11. CASE WorkerDies(c)
  BY <1>11 DEF WorkerDies, Create
<1> QED
  BY <1>1, <1>2, <1>3, <1>4, <1>5, <1>6, <1>7, <1>8, <1>9, <1>10, <1>11
  DEF Moves, DispatchStep, RunStep

\* A run stays one, and what is past stays past: through publications, cancels,
\* ageing and deaths.
LEMMA PastStands ==
  ASSUME Inv, NEW v \in Runs,
         (\E c \in Calls : Moves(c)) \/ (\E g \in Gateways : GatewayDies(g))
  PROVE  v \in Runs' /\ (Past(v) => Past(v)')
<1>1. v \in Calls /\ status[v] # "none"
  BY DEF Runs
<1>2. ASSUME NEW c \in Calls, Moves(c) PROVE v \in Runs' /\ (Past(v) => Past(v)')
  <2>1. CASE v = c
    <3>1. /\ status'[v] # "none" /\ (status[v] # "running" => status'[v] # "running")
          /\ v \in fresh' => v \in fresh
          /\ v \in recorded => v \in recorded'
          /\ worker[v] = "dead" => worker'[v] = "dead"
      BY <1>1, <1>2, <2>1, RunOfMover
    <3>2. ask' = ask /\ alive' = alive
      BY <1>2, OthersStand DEF Inv
    <3> QED
      BY <1>1, <3>1, <3>2 DEF Runs, Past
  <2>2. CASE v # c
    BY <1>1, <1>2, <2>2, OthersStand DEF Inv, Runs, Past
  <2> QED
    BY <2>1, <2>2
<1>3. ASSUME NEW g \in Gateways, GatewayDies(g) PROVE v \in Runs' /\ (Past(v) => Past(v)')
  BY <1>1, <1>3 DEF GatewayDies, Inv, TypeOK, Runs, Past
<1> QED
  BY <1>2, <1>3

\* A scan starts with all runs, and passes over a run for a reason that lasts.
LEMMA ScanOfMover ==
  ASSUME Inv, NEW m \in Calls, Moves(m), pc'[m] = "scanning",
         NEW c \in Runs, MayReuse(c, m)
  PROVE  c \in unread'[m] \/ Past(c)
<1>b. TypeOK /\ StageOf(m) /\ Scanned /\ c \in Calls
  BY DEF Inv, Placed, Runs
<1>1. CASE TakeFingerprint(m)
  <2>1. Identity(ask[m]) # None /\ ask[m].reuse
    BY <1>b, OneLock DEF MayReuse
  <2> QED
    BY <1>1, <1>b, <2>1 DEF TakeFingerprint, TypeOK
<1>2. CASE \E r \in Calls : ReadPast(m, r)
  <2>1. PICK r \in Calls : ReadPast(m, r)
    BY <1>2
  <2>2. c \in unread[m] \/ Past(c)
    BY <1>b, <2>1 DEF Scanned, ReadPast, At
  <2>3. unread'[m] = unread[m] \ {r}
    BY <1>b, <2>1 DEF ReadPast, TypeOK
  <2>4. ~ Matches(r, m)
    BY <2>1 DEF ReadPast
  <2>5. r = c => Past(c)
    BY <2>4 DEF Matches, Past, MayReuse
  <2> QED
    BY <2>2, <2>3, <2>5
<1>3. CASE pc[m] = "scanning" /\ unread'[m] = unread[m]
  BY <1>3, <1>b DEF Scanned
<1>4. TakeFingerprint(m) \/ (\E r \in Calls : ReadPast(m, r))
        \/ (pc[m] = "scanning" /\ unread'[m] = unread[m])
  <2> USE <1>b DEF TypeOK, Goto, At, StageOf, Unborn
  <2>1. CASE Admit(m)
    BY <2>1 DEF Admit
  <2>2. CASE \E r \in Calls : Reuse(m, r)
    BY <2>2 DEF Reuse
  <2>3. CASE \E r \in Calls : Count(m, r)
    BY <2>3 DEF Count
  <2>4. CASE Create(m)
    BY <2>4 DEF Create
  <2>5. CASE TakeCapacity(m)
    BY <2>5 DEF TakeCapacity
  <2>6. CASE CapacityReached(m) \/ ThreadsFull(m) \/ SpawnFails(m)
    BY <2>6 DEF CapacityReached, ThreadsFull, SpawnFails, Refuse
  <2>7. CASE SpawnWorker(m) \/ RecordWorker(m)
    BY <2>7 DEF SpawnWorker, RecordWorker
  <2>8. CASE StartThread(m)
    BY <2>8 DEF StartThread
  <2>9. CASE RecordFails(m) \/ ThreadStartFails(m)
    BY <2>9 DEF RecordFails, ThreadStartFails, Refuse
  <2>10. CASE RunStep(m)
    BY <2>10 DEF RunStep, Publish, MarkCancelling, Leave, Age
  <2>11. CASE WorkerDies(m)
    BY <2>11 DEF WorkerDies
  <2> QED
    BY <2>1, <2>2, <2>3, <2>4, <2>5, <2>6, <2>7, <2>8, <2>9, <2>10, <2>11
    DEF Moves, DispatchStep
<1> QED
  BY <1>1, <1>2, <1>3, <1>4

\* No run appears behind a scan that should see it: its caller holds a lock that the
\* scan holds.
LEMMA NoneBehind ==
  ASSUME Inv, NEW c \in Calls, Create(c), NEW d \in Calls \ {c}, pc[d] = "scanning"
  PROVE  ~ MayReuse(c, d)
<1>1. LockedOf(c) /\ LockedOf(d) /\ TypeOK
  BY DEF Inv, Placed
<1>2. pc[c] = "scanning"
  BY DEF Create, At
<1> QED
  BY <1>1, <1>2, OneLock DEF LockedOf

LEMMA ScannedStep == ASSUME Inv, NEW m \in Calls, Moves(m) PROVE Scanned'
<1> SUFFICES ASSUME NEW c \in Calls, NEW d \in Calls, pc'[d] = "scanning", c \in Runs',
                    MayReuse(c, d)'
             PROVE  c \in unread'[d] \/ Past(c)'
  BY DEF Scanned
<1>1. MayReuse(c, d)
  <2>1. ask' = ask
    BY OthersStand DEF Inv
  <2> QED
    BY <2>1 DEF MayReuse
<1>2. CASE c \in Runs
  <2>1. Past(c) => Past(c)'
    BY <1>2, PastStands
  <2>2. CASE d = m
    BY <1>1, <1>2, <2>1, <2>2, ScanOfMover
  <2>3. CASE d # m
    BY <1>1, <1>2, <2>1, <2>3, OthersStand DEF Inv, Scanned
  <2> QED
    BY <2>2, <2>3
<1>3. CASE c \notin Runs
  <2>1. c = m /\ Create(c)
    <3>1. status[c] = "none" /\ status'[c] # "none"
      BY <1>3 DEF Runs
    <3> QED
      BY <3>1, RunOfMover, OthersStand DEF Inv
  <2>2. CASE d = m
    BY <2>1, <2>2 DEF Create, Goto, Inv, TypeOK
  <2>3. CASE d # m
    <3>1. pc[d] = "scanning"
      BY <2>3, OthersStand DEF Inv
    <3> QED
      BY <1>1, <2>1, <2>3, <3>1, NoneBehind
  <2> QED
    BY <2>2, <2>3
<1> QED
  BY <1>2, <1>3

LEMMA MadeStep == ASSUME Inv, NEW m \in Calls, Moves(m) PROVE Made'
<1>1. \A i \in DOMAIN created : created[i] \in Runs
  BY DEF Inv, Made
<1>2. \A r \in Runs : r \in Runs' /\ (Past(r) => Past(r)')
  BY PastStands
<1>3. \A c, d \in Calls : MayReuse(c, d)' = MayReuse(c, d)
  <2>1. ask' = ask
    BY OthersStand DEF Inv
  <2> QED
    BY <2>1 DEF MayReuse
<1>4. created \in Seq(Calls)
  BY DEF Inv, TypeOK
<1>5. CASE created' = created
  <2>1. \A i \in DOMAIN created : created[i] \in Runs'
    BY <1>1, <1>2
  <2>2. ASSUME NEW i \in DOMAIN created, NEW j \in DOMAIN created, i < j,
               NEW r, NEW q, r = created[i], q = created[j], MayReuse(r, q)'
        PROVE  Past(r)'
    <3>1. r \in Calls /\ q \in Calls
      BY <1>4, <2>2
    <3>2. Past(r)
      BY <1>3, <2>2, <3>1 DEF Inv, Made
    <3> QED
      BY <1>1, <1>2, <2>2, <3>2
  <2> QED
    BY <1>5, <2>1, <2>2 DEF Made
<1>6. CASE Create(m)
  <2>1. created' = Append(created, m) /\ unread[m] = {} /\ pc[m] = "scanning"
    BY <1>6 DEF Create, At
  <2>2. /\ DOMAIN created' = 1 .. Len(created) + 1 /\ DOMAIN created = 1 .. Len(created)
        /\ Len(created) \in Nat
        /\ created'[Len(created) + 1] = m
        /\ \A i \in DOMAIN created : created'[i] = created[i]
    BY <1>4, <2>1
  <2>3. m \in Runs'
    BY <1>6 DEF Create, Runs, Inv, TypeOK
  <2>4. \A r \in Runs : MayReuse(r, m) => Past(r)
    BY <2>1 DEF Inv, Scanned, Runs
  <2>5. \A i \in DOMAIN created' : created'[i] \in Runs'
    BY <1>1, <1>2, <2>2, <2>3
  <2>6. ASSUME NEW i \in DOMAIN created', NEW j \in DOMAIN created', i < j,
               NEW r, NEW q, r = created'[i], q = created'[j], MayReuse(r, q)'
        PROVE  Past(r)'
    <3>1. i \in DOMAIN created /\ r = created[i] /\ r \in Runs
      BY <1>1, <2>2, <2>6
    <3>2. r \in Calls /\ q \in Calls
      BY <1>4, <2>2, <2>6, <3>1
    <3>3. MayReuse(r, q)
      BY <1>3, <2>6, <3>2
    <3>4. Past(r)
      <4>1. CASE j \in DOMAIN created
        BY <2>2, <2>6, <3>1, <3>3, <4>1 DEF Inv, Made
      <4>2. CASE j = Len(created) + 1
        BY <2>2, <2>4, <2>6, <3>1, <3>3, <4>2
      <4> QED
        BY <2>2, <2>6, <4>1, <4>2
    <3> QED
      BY <1>2, <3>1, <3>4
  <2> QED
    BY <2>5, <2>6 DEF Made
<1> QED
  BY <1>5, <1>6, RunOfMover

-----------------------------------------------------------------------------
(* Capacity                                                                 *)

\* Only the holder of the capacity lock adds to what the scan counts.
LEMMA CountedByMover ==
  ASSUME Inv, NEW m \in Calls, Moves(m)
  PROVE  /\ Counted' \subseteq Counted \cup {m} /\ Occupied' \subseteq Occupied \cup {m}
         /\ m \in Counted' => m \in Counted \/ RecordWorker(m)
         /\ m \in Occupied' => m \in Occupied \/ SpawnWorker(m)
<1>b. TypeOK /\ StageOf(m)
  BY DEF Inv, Placed
<1>0. Counted' \subseteq Counted \cup {m} /\ Occupied' \subseteq Occupied \cup {m}
  BY OthersStand DEF Inv, Counted, Occupied, Working
<1> USE <1>b DEF TypeOK, StageOf, Unborn, At, Goto, Counted, Occupied, Working, runState
<1>1. CASE Admit(m) \/ TakeFingerprint(m) \/ TakeCapacity(m)
  BY <1>0, <1>1 DEF Admit, TakeFingerprint, TakeCapacity
<1>2. CASE \E r \in Calls : ReadPast(m, r) \/ Reuse(m, r) \/ Count(m, r)
  BY <1>0, <1>2 DEF ReadPast, Reuse, Count
<1>3. CASE Create(m)
  BY <1>0, <1>3 DEF Create
<1>4. CASE CapacityReached(m) \/ ThreadsFull(m) \/ SpawnFails(m)
  BY <1>0, <1>4 DEF CapacityReached, ThreadsFull, SpawnFails, Refuse
<1>5. CASE SpawnWorker(m)
  BY <1>0, <1>5 DEF SpawnWorker
<1>6. CASE RecordWorker(m)
  BY <1>0, <1>6 DEF RecordWorker
<1>7. CASE StartThread(m)
  BY <1>0, <1>7 DEF StartThread
<1>8. CASE Publish(m) \/ MarkCancelling(m)
  BY <1>0, <1>8 DEF Publish, MarkCancelling
<1>9. CASE Leave(m) \/ Age(m)
  BY <1>0, <1>9 DEF Leave, Age
<1>10. CASE RecordFails(m) \/ ThreadStartFails(m)
  BY <1>0, <1>10 DEF RecordFails, ThreadStartFails, Refuse
<1>11. CASE WorkerDies(m)
  BY <1>0, <1>11 DEF WorkerDies
<1> QED
  BY <1>1, <1>2, <1>3, <1>4, <1>5, <1>6, <1>7, <1>8, <1>9, <1>10, <1>11
  DEF Moves, DispatchStep, RunStep

\* What a call's own step does to its count.
LEMMA TallyOfMover ==
  ASSUME Inv, NEW m \in Calls, Moves(m)
  PROVE  \/ /\ pc'[m] \in Unborn \cup {"created"} => pc[m] \in Unborn \cup {"created"}
            /\ pc'[m] = "counting" => pc[m] = "counting" /\ unread'[m] = unread[m]
            /\ active'[m] = active[m]
         \/ TakeCapacity(m)
         \/ \E r \in Calls : Count(m, r)
<1>b. TypeOK
  BY DEF Inv
<1> USE <1>b DEF TypeOK, Unborn, At, Goto, runState
<1>1. CASE Admit(m) \/ TakeFingerprint(m)
  BY <1>1 DEF Admit, TakeFingerprint
<1>2. CASE \E r \in Calls : ReadPast(m, r)
  BY <1>2 DEF ReadPast
<1>12. CASE \E r \in Calls : Reuse(m, r)
  BY <1>12 DEF Reuse
<1>3. CASE Create(m)
  BY <1>3 DEF Create
<1>4. CASE CapacityReached(m) \/ ThreadsFull(m) \/ SpawnFails(m)
  BY <1>4 DEF CapacityReached, ThreadsFull, SpawnFails, Refuse
<1>5. CASE SpawnWorker(m)
  BY <1>5 DEF SpawnWorker
<1>6. CASE RecordWorker(m)
  BY <1>6 DEF RecordWorker
<1>7. CASE StartThread(m)
  BY <1>7 DEF StartThread
<1>8. CASE Publish(m) \/ MarkCancelling(m)
  BY <1>8 DEF Publish, MarkCancelling
<1>9. CASE Leave(m) \/ Age(m)
  BY <1>9 DEF Leave, Age
<1>10. CASE RecordFails(m) \/ ThreadStartFails(m)
  BY <1>10 DEF RecordFails, ThreadStartFails, Refuse
<1>11. CASE WorkerDies(m)
  BY <1>11 DEF WorkerDies
<1> QED
  BY <1>1, <1>2, <1>3, <1>4, <1>5, <1>6, <1>7, <1>8, <1>9, <1>10, <1>11, <1>12
  DEF Moves, DispatchStep, RunStep

\* While a call counts, nobody is added behind its back.
LEMMA CountedShrinks ==
  ASSUME Inv, NEW m \in Calls, Moves(m), NEW v \in Calls, pc[v] = "counting"
  PROVE  Counted' \subseteq Counted
<1>1. ~ RecordWorker(m)
  <2>1. StageOf(m) /\ LockedOf(m) /\ LockedOf(v)
    BY DEF Inv, Placed
  <2> QED
    BY <2>1 DEF LockedOf, RecordWorker, At
<1> QED
  BY <1>1, CountedByMover

LEMMA CountsStep == ASSUME Inv, NEW m \in Calls, Moves(m) PROVE Counts'
<1> SUFFICES ASSUME NEW v \in Calls PROVE CountOf(v)'
  BY DEF Counts
<1>b. TypeOK /\ StageOf(m) /\ CountOf(v) /\ CountOf(m)
  BY DEF Inv, Placed, Counts
<1>c. Counted \in SUBSET Calls /\ Counted' \in SUBSET Calls
  BY DEF Counted
<1>1. ASSUME pc'[v] \in Unborn \cup {"created"} => pc[v] \in Unborn \cup {"created"},
             pc'[v] = "counting" => pc[v] = "counting" /\ unread'[v] = unread[v],
             active'[v] = active[v]
      PROVE  CountOf(v)'
  <2>1. pc'[v] \in Unborn \cup {"created"} => active'[v] = 0
    BY <1>1, <1>b DEF CountOf
  <2>2. ASSUME pc'[v] = "counting"
        PROVE  /\ Cardinality(Counted' \ unread'[v]) <= active'[v]
               /\ active'[v] + Cardinality(unread'[v]) <= Cardinality(Calls)
    <3>1. Counted' \subseteq Counted
      BY <1>1, <2>2, CountedShrinks
    <3> DEFINE S == Counted \ unread[v]
               T == Counted' \ unread[v]
    <3>2. Cardinality(T) <= Cardinality(S) /\ Cardinality(S) \in Nat /\ Cardinality(T) \in Nat
      <4>1. S \in SUBSET Calls /\ T \in SUBSET S /\ T \in SUBSET Calls
        BY <1>c, <3>1
      <4> HIDE DEF S, T
      <4> QED
        BY <4>1, FewerCount, Countable
    <3>3. Cardinality(S) <= active[v] /\ active[v] + Cardinality(unread[v]) <= Cardinality(Calls)
      BY <1>1, <1>b, <2>2 DEF CountOf
    <3>4. active[v] \in Nat
      BY <1>b DEF TypeOK
    <3>5. Cardinality(T) <= active[v]
      BY <3>2, <3>3, <3>4
    <3> QED
      BY <1>1, <2>2, <3>3, <3>5
  <2> QED
    BY <2>1, <2>2 DEF CountOf
<1>2. CASE v # m
  BY <1>1, <1>2, <1>b, OthersStand
<1>3. CASE v = m /\ TakeCapacity(m)
  <2>1. /\ pc'[m] = "counting" /\ unread'[m] = Runs \ {m} /\ active'[m] = active[m]
        /\ active[m] = 0
    BY <1>3, <1>b DEF TakeCapacity, Goto, TypeOK, CountOf, At
  <2>2. Counted' \ unread'[m] = {}
    <3>1. Counted' \subseteq Counted
      <4>1. ~ RecordWorker(m)
        BY <1>3 DEF TakeCapacity, RecordWorker, At
      <4> QED
        BY <4>1, CountedByMover
    <3>2. Counted \subseteq Runs
      BY DEF Counted, Runs, Working
    <3>3. m \notin Counted
      BY <1>3, <1>b DEF TakeCapacity, At, StageOf, Counted
    <3> QED
      BY <2>1, <3>1, <3>2, <3>3
  <2>3. Cardinality(Counted' \ unread'[m]) = 0
    BY <2>2, FS_EmptySet
  <2>4. Cardinality(unread'[m]) \in Nat /\ Cardinality(unread'[m]) <= Cardinality(Calls)
    <3>1. unread'[m] \in SUBSET Calls
      BY <2>1 DEF Runs
    <3> QED
      BY <3>1, Countable
  <2> QED
    BY <1>3, <2>1, <2>3, <2>4, CallsAreFinite DEF CountOf, Unborn
<1>4. CASE v = m /\ \E r \in Calls : Count(m, r)
  <2>1. PICK r \in Calls : Count(m, r)
    BY <1>4
  <2>2. /\ pc[m] = "counting" /\ pc'[m] = "counting" /\ r \in unread[m]
        /\ unread'[m] = unread[m] \ {r}
    BY <2>1, <1>b DEF Count, At, TypeOK
  <2>3. /\ r \in Counted => active'[m] = active[m] + 1
        /\ active'[m] \in {active[m], active[m] + 1} /\ active[m] \in Nat
    BY <2>1, <1>b DEF Count, TypeOK, Counted, Working
  <2>4. Counted' \subseteq Counted
    BY <2>2, CountedShrinks
  <2> DEFINE S == Counted \ unread[m]
             T == Counted' \ unread'[m]
             U == unread[m]
  <2>5. S \in SUBSET Calls /\ T \in SUBSET Calls /\ U \in SUBSET Calls
    BY <1>b, <1>c DEF TypeOK
  <2>6. T \subseteq S \cup {r} /\ (r \notin Counted => T \subseteq S)
    BY <2>2, <2>4
  <2>7. Cardinality(S) <= active[m] /\ active[m] + Cardinality(U) <= Cardinality(Calls)
    BY <1>4, <1>b, <2>2 DEF CountOf
  <2>u. unread'[m] = U \ {r} /\ r \in U
    BY <2>2
  <2> HIDE DEF S, T, U
  <2>8. /\ IsFiniteSet(S) /\ IsFiniteSet(U)
        /\ Cardinality(S) \in Nat /\ Cardinality(T) \in Nat /\ Cardinality(U) \in Nat
    BY <2>5, Countable
  <2>9. Cardinality(T) <= active'[m]
    <3>1. CASE r \in Counted
      <4>1. S \cup {r} \in SUBSET Calls /\ T \in SUBSET (S \cup {r})
        BY <2>5, <2>6
      <4>2. Cardinality(T) <= Cardinality(S \cup {r})
        BY <4>1, FewerCount
      <4>3. Cardinality(S \cup {r}) \in Nat /\ Cardinality(S \cup {r}) <= Cardinality(S) + 1
        BY <2>5, OneMore
      <4> QED
        BY <2>3, <2>7, <2>8, <3>1, <4>2, <4>3
    <3>2. CASE r \notin Counted
      <4>1. Cardinality(T) <= Cardinality(S)
        BY <2>5, <2>6, <3>2, FewerCount
      <4> QED
        BY <2>3, <2>7, <2>8, <4>1
    <3> QED
      BY <3>1, <3>2
  <2>10. active'[m] + Cardinality(unread'[m]) <= Cardinality(Calls)
    <3>1. Cardinality(unread'[m]) = Cardinality(U) - 1
      BY <2>u, <2>8, FS_RemoveElement
    <3> QED
      BY <2>3, <2>7, <2>8, <3>1, CallsAreFinite
  <2> QED
    BY <1>4, <2>2, <2>9, <2>10 DEF CountOf, Unborn, T
<1>5. CASE v = m /\ ~ TakeCapacity(m) /\ ~ \E r \in Calls : Count(m, r)
  BY <1>1, <1>5, TallyOfMover
<1> QED
  BY <1>2, <1>3, <1>4, <1>5

\* A worker is spawned by the only call that counts, and only below capacity.
LEMMA WithinStep == ASSUME Inv, NEW m \in Calls, Moves(m) PROVE Within'
<1>1. Occupied \in SUBSET Calls /\ Occupied' \in SUBSET Calls /\ Counted \in SUBSET Calls
  BY DEF Occupied, Counted
<1>2. Cardinality(Occupied) \in Nat /\ Cardinality(Occupied') \in Nat
      /\ Cardinality(Counted) \in Nat /\ IsFiniteSet(Counted)
  BY <1>1, Countable
<1>3. CASE ~ SpawnWorker(m)
  <2>1. Occupied' \in SUBSET Occupied
    BY <1>3, CountedByMover
  <2>2. Cardinality(Occupied') <= Cardinality(Occupied)
    BY <1>1, <2>1, FewerCount
  <2> QED
    BY <1>2, <2>2, BoundsAssumption DEF Inv, Within
<1>4. CASE SpawnWorker(m)
  <2>1. /\ pc[m] = "counting" /\ unread[m] = {} /\ active[m] < MaxAsync /\ active[m] \in Nat
    BY <1>4 DEF SpawnWorker, At, Inv, TypeOK
  <2>2. \A v \in Calls : pc[v] = "recording" => v = m
    BY <2>1 DEF Inv, Placed, LockedOf
  <2>3. Occupied \subseteq Counted
    BY <2>1, <2>2 DEF Occupied, Counted
  <2>4. Counted \ unread[m] = Counted
    BY <2>1
  <2>5. Cardinality(Counted) <= active[m]
    BY <2>1, <2>4 DEF Inv, Counts, CountOf
  <2>6. Occupied' \in SUBSET (Counted \cup {m}) /\ Counted \cup {m} \in SUBSET Calls
    BY <1>1, <2>3, CountedByMover
  <2>7. Cardinality(Occupied') <= Cardinality(Counted \cup {m})
    BY <2>6, FewerCount
  <2>8. /\ Cardinality(Counted \cup {m}) <= Cardinality(Counted) + 1
        /\ Cardinality(Counted \cup {m}) \in Nat
    BY <1>1, OneMore
  <2> QED
    BY <1>2, <2>1, <2>5, <2>7, <2>8, BoundsAssumption DEF Within
<1> QED
  BY <1>3, <1>4

\* What a call's own step does to its gateway's threads.
LEMMA ThreadsOfMover ==
  ASSUME Inv, NEW m \in Calls, Moves(m), NEW h, h = ask[m].home
  PROVE  \/ threads' = threads /\ (m \in Threads(h)' => m \in Threads(h))
         \/ threads' = [threads EXCEPT ![h] = @ + 1]
         \/ /\ ask[m].mode = "thread" /\ worker[m] = "live" /\ worker'[m] = "dead"
            /\ GiveBack(m)
<1>b. TypeOK /\ StageOf(m) /\ ask' = ask
  BY OthersStand DEF Inv, Placed
<1>t. m \in Threads(h)' <=> ask[m].mode = "thread" /\ worker'[m] = "live"
  BY <1>b DEF Threads
<1>u. m \in Threads(h) <=> ask[m].mode = "thread" /\ worker[m] = "live"
  BY DEF Threads
<1> USE <1>b, <1>t, <1>u DEF TypeOK, StageOf, At, locks, runState
<1> HIDE DEF Threads
<1>1. CASE Admit(m) \/ TakeFingerprint(m) \/ TakeCapacity(m)
  BY <1>1 DEF Admit, TakeFingerprint, TakeCapacity
<1>2. CASE \E r \in Calls : ReadPast(m, r) \/ Reuse(m, r) \/ Count(m, r)
  BY <1>2 DEF ReadPast, Reuse, Count
<1>3. CASE Create(m)
  BY <1>3 DEF Create
<1>4. CASE CapacityReached(m) \/ ThreadsFull(m) \/ RecordWorker(m) \/ SpawnFails(m)
  BY <1>4 DEF CapacityReached, ThreadsFull, RecordWorker, SpawnFails
<1>5. CASE SpawnWorker(m)
  BY <1>5 DEF SpawnWorker
<1>6. CASE StartThread(m) \/ ThreadStartFails(m)
  BY <1>6 DEF StartThread, ThreadStartFails
<1>7. CASE Publish(m) \/ MarkCancelling(m) \/ Age(m)
  BY <1>7 DEF Publish, MarkCancelling, Age
<1>8. CASE Leave(m)
  BY <1>8 DEF Leave, GiveBack
<1>9. CASE RecordFails(m)
  BY <1>9 DEF RecordFails
<1>10. CASE WorkerDies(m)
  BY <1>10 DEF WorkerDies, GiveBack
<1> QED
  BY <1>1, <1>2, <1>3, <1>4, <1>5, <1>6, <1>7, <1>8, <1>9, <1>10
  DEF Moves, DispatchStep, RunStep

\* A thread is counted before it lives, and gives its place back once.
LEMMA CoversStep == ASSUME Inv, NEW m \in Calls, Moves(m) PROVE Covers'
<1> SUFFICES ASSUME NEW g \in Gateways PROVE Cardinality(Threads(g)') <= threads'[g]
  BY DEF Covers
<1>b. TypeOK /\ Cardinality(Threads(g)) <= threads[g] /\ threads[g] \in Nat
  BY DEF Inv, Covers, TypeOK
<1>1. ask' = ask /\ \A v \in Calls \ {m} : v \in Threads(g)' => v \in Threads(g)
  BY OthersStand DEF Inv, Threads
<1>2. Threads(g) \in SUBSET Calls /\ Threads(g)' \in SUBSET Calls
  BY DEF Threads
<1>3. /\ Cardinality(Threads(g)) \in Nat /\ Cardinality(Threads(g)') \in Nat
      /\ IsFiniteSet(Threads(g))
  BY <1>2, Countable
<1>4. ASSUME Threads(g)' \subseteq Threads(g), threads'[g] = threads[g] \/ threads'[g] = threads[g] + 1
      PROVE  Cardinality(Threads(g)') <= threads'[g]
  <2>1. Cardinality(Threads(g)') <= Cardinality(Threads(g))
    BY <1>2, <1>4, FewerCount
  <2> QED
    BY <1>b, <1>3, <1>4, <2>1
<1>5. CASE ask[m].home # g
  <2>1. Threads(g)' \subseteq Threads(g)
    BY <1>1, <1>2, <1>5 DEF Threads
  <2>2. threads'[g] = threads[g]
    <3>1. CASE GiveBack(m)
      BY <1>5, <1>b, <3>1 DEF GiveBack, TypeOK
    <3>2. CASE threads' = threads
      BY <3>2
    <3>3. CASE threads' = [threads EXCEPT ![ask[m].home] = @ + 1]
      BY <1>5, <1>b, <3>3 DEF TypeOK
    <3> QED
      BY <3>1, <3>2, <3>3, ThreadsOfMover
  <2> QED
    BY <1>4, <2>1, <2>2
<1>6. CASE ask[m].home = g /\ threads' = threads /\ (m \in Threads(g)' => m \in Threads(g))
  BY <1>1, <1>2, <1>4, <1>6
<1>7. CASE ask[m].home = g /\ threads' = [threads EXCEPT ![g] = @ + 1]
  <2>1. threads'[g] = threads[g] + 1
    BY <1>7, <1>b DEF TypeOK
  <2> DEFINE S == Threads(g) \cup {m}
             T == Threads(g)'
  <2>2. S \in SUBSET Calls /\ T \in SUBSET S
    BY <1>1, <1>2
  <2>3. Cardinality(S) \in Nat /\ Cardinality(S) <= Cardinality(Threads(g)) + 1
    BY <1>2, OneMore
  <2> HIDE DEF S
  <2>4. Cardinality(T) <= Cardinality(S)
    BY <2>2, FewerCount
  <2> QED
    BY <1>b, <1>3, <2>1, <2>3, <2>4
<1>8. CASE /\ ask[m].home = g /\ ask[m].mode = "thread"
           /\ worker[m] = "live" /\ worker'[m] = "dead" /\ GiveBack(m)
  <2>1. m \in Threads(g) /\ m \notin Threads(g)'
    BY <1>8, <1>b DEF Threads, TypeOK
  <2>2. Cardinality(Threads(g)) >= 1
    BY <1>3, <2>1, FS_EmptySet
  <2>3. threads'[g] = threads[g] - 1
    BY <1>8, <1>b, <1>3, <2>2 DEF GiveBack, TypeOK
  <2> DEFINE S == Threads(g) \ {m}
             T == Threads(g)'
  <2>4. S \in SUBSET Calls /\ T \in SUBSET S
    BY <1>1, <1>2, <2>1
  <2>5. Cardinality(S) = Cardinality(Threads(g)) - 1
    BY <1>3, <2>1, FS_RemoveElement
  <2> HIDE DEF S
  <2>6. Cardinality(T) <= Cardinality(S)
    BY <2>4, FewerCount
  <2> QED
    BY <1>b, <1>3, <2>3, <2>5, <2>6
<1> QED
  BY <1>5, <1>6, <1>7, <1>8, ThreadsOfMover

-----------------------------------------------------------------------------
(* The death of a gateway                                                   *)

LEMMA DeathStep == ASSUME Inv, NEW g \in Gateways, GatewayDies(g) PROVE Inv'
<1> DEFINE own == {c \in Calls : ask[c].home = g}
<1>b. TypeOK /\ TypeOK'
  BY TypeDeath DEF Inv
<1>1. /\ UNCHANGED <<ask, unread, active, created, fresh, status, recorded>>
      /\ alive' = alive \ {g} /\ Release(own)
      /\ pc' = [c \in Calls |-> IF c \in own /\ pc[c] \notin Answered THEN "lost" ELSE pc[c]]
      /\ worker' = [c \in Calls |-> IF c \in own /\ ask[c].mode # "detached" /\ worker[c] = "live"
                                    THEN "dead" ELSE worker[c]]
      /\ threads' = [threads EXCEPT ![g] = 0]
  BY DEF GatewayDies
<1>2. ASSUME NEW v \in Calls
      PROVE  /\ pc'[v] = pc[v] \/ (pc'[v] = "lost" /\ pc[v] \notin Answered)
             /\ v \in own => pc'[v] \in Answered
             /\ pc'[v] = "lost" => v \in own \/ pc[v] = "lost"
             /\ worker'[v] = worker[v] \/ (worker[v] = "live" /\ worker'[v] = "dead")
             /\ v \in own /\ ask[v].mode # "detached" => worker'[v] # "live"
  BY <1>1, <1>b DEF Answered, TypeOK, PCs
<1> HIDE DEF own
<1>3. Placed'
  <2> SUFFICES ASSUME NEW v \in Calls PROVE StageOf(v)' /\ LockedOf(v)'
    BY DEF Placed
  <2>1. StageOf(v) /\ LockedOf(v)
    BY DEF Inv, Placed
  <2>2. StageOf(v)'
    <3>1. /\ ask' = ask /\ status' = status /\ recorded' = recorded /\ unread' = unread
          /\ worker'[v] = worker[v] \/ (worker[v] = "live" /\ worker'[v] = "dead")
      BY <1>1, <1>2
    <3>4. pc'[v] = "lost" => ask[v].home \notin alive'
      BY <1>1, <1>2, <2>1 DEF StageOf, own
    <3>2. CASE pc'[v] = pc[v]
      BY <2>1, <3>1, <3>2, <3>4 DEF StageOf, Unborn
    <3>3. CASE pc'[v] = "lost" /\ pc[v] \notin Answered
      BY <2>1, <3>1, <3>3, <3>4 DEF StageOf, Unborn, Answered
    <3> QED
      BY <1>2, <3>2, <3>3
  <2>3. CASE pc'[v] \in Answered
    BY <2>2, <2>3 DEF LockedOf, Answered
  <2>4. CASE pc'[v] \notin Answered
    <3>1. pc'[v] = pc[v] /\ v \notin own /\ ask'[v] = ask[v]
      BY <1>1, <1>2, <2>4 DEF Answered
    <3>2. Conversation(ask[v]) \in Conversations /\ Fingerprint(ask[v]) \in Prints
      BY <1>b, AskedFor
    <3>3. /\ admission[Conversation(ask[v])] = v => admission'[Conversation(ask[v])] = v
          /\ fingerprint[Fingerprint(ask[v])] = v => fingerprint'[Fingerprint(ask[v])] = v
          /\ capacity = v => capacity' = v
      <4>1. \A x \in Conversations : admission[x] = v => admission'[x] = v
        BY <1>1, <3>1 DEF Release
      <4>2. \A x \in Prints : fingerprint[x] = v => fingerprint'[x] = v
        BY <1>1, <3>1 DEF Release
      <4>3. capacity = v => capacity' = v
        BY <1>1, <3>1 DEF Release
      <4> QED
        BY <3>2, <4>1, <4>2, <4>3
    <3> QED
      BY <2>1, <2>2, <3>1, <3>3 DEF LockedOf
  <2> QED
    BY <2>2, <2>3, <2>4
<1>4. \A r \in Runs : Past(r) => Past(r)'
  BY PastStands
<1>5. \A c, d \in Calls : MayReuse(c, d)' = MayReuse(c, d)
  BY <1>1 DEF MayReuse
<1>6. Runs' = Runs
  BY <1>1 DEF Runs
<1>7. Scanned'
  <2> SUFFICES ASSUME NEW c \in Calls, NEW d \in Calls, pc'[d] = "scanning", c \in Runs,
                      MayReuse(c, d)
               PROVE  c \in unread[d] \/ Past(c)'
    BY <1>1, <1>5, <1>6 DEF Scanned
  <2>1. pc[d] = "scanning"
    BY <1>2
  <2> QED
    BY <1>4, <2>1 DEF Inv, Scanned
<1>8. Made'
  <2>1. created \in Seq(Calls) /\ created' = created
    BY <1>b, <1>1 DEF TypeOK
  <2>2. ASSUME NEW i \in DOMAIN created, NEW j \in DOMAIN created, i < j,
               NEW r, NEW q, r = created[i], q = created[j], MayReuse(r, q)'
        PROVE  Past(r)'
    <3>1. r \in Calls /\ q \in Calls /\ r \in Runs
      BY <2>1, <2>2 DEF Inv, Made
    <3> QED
      BY <1>4, <1>5, <2>2, <3>1 DEF Inv, Made
  <2> QED
    BY <1>6, <2>1, <2>2 DEF Inv, Made
<1>9. Counted' \in SUBSET Counted /\ Occupied' \in SUBSET Occupied
  BY <1>1, <1>2 DEF Counted, Occupied, Working
<1>10. Counted \in SUBSET Calls /\ Occupied \in SUBSET Calls
  BY DEF Counted, Occupied
<1>11. Counts'
  <2> SUFFICES ASSUME NEW v \in Calls PROVE CountOf(v)'
    BY DEF Counts
  <2>1. CountOf(v) /\ (pc'[v] = pc[v] \/ pc'[v] = "lost")
    BY <1>2 DEF Inv, Counts
  <2>2. CASE pc'[v] = "lost"
    BY <2>2 DEF CountOf, Unborn
  <2>3. CASE pc'[v] = pc[v]
    <3> DEFINE S == Counted \ unread[v]
               T == Counted' \ unread[v]
    <3>1. S \in SUBSET Calls /\ T \in SUBSET Calls /\ T \in SUBSET S
      BY <1>9, <1>10
    <3> HIDE DEF S, T
    <3>2. Cardinality(T) <= Cardinality(S) /\ Cardinality(S) \in Nat /\ Cardinality(T) \in Nat
      BY <3>1, FewerCount, Countable
    <3>3. active[v] \in Nat /\ active'[v] = active[v] /\ unread'[v] = unread[v]
      BY <1>1, <1>b DEF TypeOK
    <3>4. pc[v] = "counting" => Cardinality(T) <= active[v]
      BY <2>1, <3>2, <3>3 DEF CountOf, S
    <3> QED
      BY <2>1, <2>3, <3>3, <3>4 DEF CountOf, T
  <2> QED
    BY <2>1, <2>2, <2>3
<1>12. Within'
  <2>1. Occupied' \in SUBSET Calls
    BY <1>9, <1>10
  <2>2. /\ Cardinality(Occupied') <= Cardinality(Occupied)
        /\ Cardinality(Occupied) \in Nat /\ Cardinality(Occupied') \in Nat
    BY <1>9, <1>10, <2>1, FewerCount, Countable
  <2> QED
    BY <2>2, BoundsAssumption DEF Inv, Within
<1>13. Covers'
  <2> SUFFICES ASSUME NEW h \in Gateways PROVE Cardinality(Threads(h)') <= threads'[h]
    BY DEF Covers
  <2>1. CASE h = g
    <3>1. Threads(h)' = {}
      BY <1>1, <1>2, <2>1 DEF Threads, own
    <3>2. threads'[h] = 0
      BY <1>1, <1>b, <2>1 DEF TypeOK
    <3> QED
      BY <3>1, <3>2, FS_EmptySet
  <2>2. CASE h # g
    <3>1. Threads(h) \in SUBSET Calls /\ Threads(h)' \in SUBSET Threads(h)
      BY <1>1, <1>2 DEF Threads
    <3>2. Threads(h)' \in SUBSET Calls
      BY <3>1
    <3>3. /\ Cardinality(Threads(h)') <= Cardinality(Threads(h))
          /\ Cardinality(Threads(h)) \in Nat /\ Cardinality(Threads(h)') \in Nat
      BY <3>1, <3>2, FewerCount, Countable
    <3>4. threads'[h] = threads[h] /\ threads[h] \in Nat
      BY <1>1, <1>b, <2>2 DEF TypeOK
    <3> QED
      BY <3>3, <3>4 DEF Inv, Covers
  <2> QED
    BY <2>1, <2>2
<1> QED
  BY <1>b, <1>3, <1>7, <1>8, <1>11, <1>12, <1>13 DEF Inv

-----------------------------------------------------------------------------
(* The theorems                                                             *)

\* What the locks, the scans and the counters keep, through every interleaving of
\* calls and every death.
THEOREM Invariance == Spec => []Inv
<1>1. Inv /\ [Next]_vars => Inv'
  <2> SUFFICES ASSUME Inv, [Next]_vars PROVE Inv'
    OBVIOUS
  <2>1. ASSUME NEW c \in Calls, Moves(c) PROVE Inv'
    <3>1. Placed'
      BY <2>1, OnePlaced, OthersPlaced DEF Placed
    <3> QED
      BY <2>1, <3>1, TypeStep, ScannedStep, MadeStep, CountsStep, WithinStep, CoversStep DEF Inv
  <2>2. ASSUME NEW g \in Gateways, GatewayDies(g) PROVE Inv'
    BY <2>2, DeathStep
  <2>3. CASE UNCHANGED vars
    <3> USE <2>3 DEF vars
    <3>1. TypeOK' /\ Placed' /\ Scanned'
      BY DEF Inv, TypeOK, Placed, StageOf, LockedOf, Scanned, Runs, MayReuse, Past
    <3>2. Made'
      BY DEF Inv, Made, Runs, MayReuse, Past
    <3>3. Counted' = Counted /\ Occupied' = Occupied
      BY DEF Counted, Occupied, Working
    <3>4. Counts' /\ Within'
      BY <3>3 DEF Inv, Counts, CountOf, Within
    <3>5. Covers'
      BY DEF Inv, Covers, Threads
    <3> QED
      BY <3>1, <3>2, <3>4, <3>5 DEF Inv
  <2> QED
    BY <2>1, <2>2, <2>3 DEF Next, FaultStep, Moves
<1> QED
  BY <1>1, Initially, PTL DEF Spec

\* _dispatch_admitted: two equal requests of a conversation are never both at work
\* while the gateway of the first lives, for any calls in any number of processes.
THEOREM EqualRequestsWorkOnce == Spec => []NoDuplicateWork
<1>1. Inv => NoDuplicateWork
  <2> SUFFICES ASSUME Inv, NEW c \in Calls, NEW d \in Calls, Entitled(c, d), Working(c)
               PROVE  ask[c].home \notin alive
    BY DEF NoDuplicateWork
  <2>1. PICK i \in DOMAIN created, j \in DOMAIN created :
          i < j /\ created[i] = c /\ created[j] = d
    BY DEF Entitled, Older
  <2>2. MayReuse(c, d)
    BY DEF Entitled, MayReuse
  <2>3. Past(c)
    BY <2>1, <2>2 DEF Inv, Made
  <2> QED
    BY <2>3 DEF Past, Entitled, Working
<1> QED
  BY <1>1, Invariance, PTL

\* _start_detached_background_worker, _start_background_thread: no interleaving of
\* admissions exceeds the capacity.
THEOREM CapacityIsKept == Spec => []CapacityHolds
<1>1. Inv => CapacityHolds
  BY DEF Inv, TypeOK, Within, Occupied, Covers, Threads, CapacityHolds
<1> QED
  BY <1>1, Invariance, PTL

\* _raise_background_launch_failure: a launch that does not start a worker ends its
\* run, unless its gateway dies or the failure cannot be published.
THEOREM LaunchesAreDecided == Spec => []LaunchedOrFinal
<1>1. Inv => LaunchedOrFinal
  BY DEF Inv, TypeOK, PCs, Placed, StageOf, Unborn, Runs, LaunchedOrFinal
<1> QED
  BY <1>1, Invariance, PTL

\* _dispatch_admitted: the locks of the call that reuses a run are those under which
\* the run was launched, so that it never finds a launch under way.
THEOREM OnlyDecidedRunsAreReused == Spec => ReusedRunsAreDecided
<1>1. ASSUME Inv, NEW c \in Calls, NEW r \in Calls, Reuse(c, r)
      PROVE  pc[r] \in {"launched", "unpublished"}
  <2>1. /\ pc[c] = "scanning" /\ r \in unread[c] /\ Matches(r, c)
    BY <1>1 DEF Reuse, At
  <2>2. TypeOK /\ StageOf(r) /\ LockedOf(r) /\ LockedOf(c)
    BY <1>1 DEF Inv, Placed
  <2>7. StageOf(c)
    BY <1>1 DEF Inv, Placed
  <2>3. status[r] = "running" /\ ask[r].home \in alive
    BY <2>1 DEF Matches
  <2>4. pc[r] \notin {"created", "counting", "recording"}
    <3> SUFFICES ASSUME pc[r] \in {"created", "counting", "recording"} PROVE FALSE
      OBVIOUS
    <3>2. r # c
      BY <2>1
    <3>3. ask[c].reuse
      BY <2>1, <2>7 DEF StageOf
    <3>4. MayReuse(r, c)
      BY <2>1, <3>3 DEF Matches, MayReuse
    <3>5. \/ Conversation(ask[r]) = Conversation(ask[c])
          \/ Fingerprint(ask[r]) = Fingerprint(ask[c])
      BY <2>2, <3>4, OneLock
    <3> QED
      BY <2>1, <2>2, <3>2, <3>5 DEF LockedOf
  <2>5. pc[r] # "lost"
    BY <2>2, <2>3 DEF StageOf
  <2>6. pc[r] \notin Unborn \cup {"refused"}
    BY <2>2, <2>3 DEF StageOf
  <2> QED
    BY <2>2, <2>4, <2>5, <2>6 DEF TypeOK, PCs, Unborn
<1>2. Inv /\ [Next]_vars => [\A c, r \in Calls : Reuse(c, r) => pc[r] \in {"launched", "unpublished"}]_vars
  BY <1>1
<1> QED
  BY <1>2, Invariance, PTL DEF Spec, ReusedRunsAreDecided
=============================================================================
