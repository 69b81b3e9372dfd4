---------------------------- MODULE EventJournal ----------------------------
(***************************************************************************)
(* The event journal of a run (event_journal.py) and a spectator that      *)
(* follows it (spectator.py).                                              *)
(*                                                                         *)
(* Writers project the frames of their gateway into numbered records of    *)
(* events.jsonl.  Each of them keeps a checkpoint of the file in memory    *)
(* and, under events.lock, first reads what lies behind it: records of a   *)
(* peer, a marker, a torn tail to be cut off.  The spectator takes no lock *)
(* and polls the events and then the status of the run.                    *)
(*                                                                         *)
(* A frame is known by its writer and its number; a record lists the       *)
(* frames it stands for.  Sizes stand for bytes.                           *)
(***************************************************************************)
EXTENDS Naturals, SequencesExt

CONSTANTS Writers,    \* EventJournal objects opened on the run
          MaxFrames,  \* bound on the frames they are given
          MaxEvents,  \* max_events
          MaxBytes,   \* max_bytes
          Reserve,    \* terminal_reserve_bytes
          MaxBuffer,  \* max_pre_session_events
          Coalesce,   \* coalesce_chars, in deltas
          MaxFaults,  \* bound on failing calls and deaths
          Nobody

ASSUME JournalAssumption ==
  /\ {MaxFrames, MaxEvents, MaxBytes, Reserve, MaxBuffer, MaxFaults} \subseteq Nat
  /\ Coalesce \in Nat \ {0}
  /\ Reserve <= MaxBytes
  /\ Nobody \notin Writers

\* What a record takes: a small event takes less than the marker, a large one
\* more.
Small    == 1
MarkSize == 2
Large    == 4

\* Every writer finds room in the reserve for its terminal record.
ASSUME ReserveAssumption ==
  IsFiniteSet(Writers) /\ Cardinality(Writers) * MarkSize <= Reserve

Kinds  == {"event", "message.delta", "journal.truncated", "terminal"}
Record == [kind : Kinds, by : Writers, frames : Seq(1 .. MaxFrames), size : 1 .. Large]

VARIABLES
  file,      \* the complete records, each with its seq
  torn,      \* the file ends in part of a record
  first,     \* that part, if it is all of the first record but its newline
  stamp,     \* st_ctime_ns: how often the file changed but by growing
  lock,      \* events.lock
  mode,      \* the writer's life
  session,   \* ui_session_id is set
  given,     \* frames handed to ingest so far
  buffer,    \* pre_session
  pending,   \* pending_text
  todo,      \* records the call in progress has still to append
  out,       \* the record being written under the lock
  view,      \* seq, event_count, bytes_written, _verified_stat, ...
  degraded,  \* degraded, disabled and degradation_reason
  status,    \* whether the lifecycle in status.json is terminal
  shown,     \* what the spectator printed
  watch,     \* what it does next
  faults

disk    == <<file, torn, first, stamp, lock>>
work    == <<todo, out, view, degraded>>
intake  == <<session, given, buffer, pending>>
watcher == <<shown, watch>>
vars    == <<disk, mode, intake, work, status, watcher, faults>>

Numbered == [seq : Nat, record : Record]
Frame    == [kind : {"small", "large", "delta"}, number : 1 .. MaxFrames]
View     == [seq : Nat, count : Nat, read : Nat, marked : BOOLEAN, truncated : BOOLEAN,
             stat : [known : BOOLEAN, records : Nat, stamp : Nat]]

Nothing == [kind |-> "nothing"]

Failures    == {"open", "write", "fsync"}
Degradation == [noted : BOOLEAN, disabled : BOOLEAN,
                reason : Failures \cup {"", "pre_session_overflow", "journal_shrunk",
                                        "corrupt_complete_record", "terminal_reserve_exhausted"}]
Sound       == [noted |-> FALSE, disabled |-> FALSE, reason |-> ""]
Blank   == [seq |-> 0, count |-> 0, read |-> 0, marked |-> FALSE, truncated |-> FALSE,
            stat |-> [known |-> FALSE, records |-> 0, stamp |-> 0]]

TypeOK ==
  /\ file \in Seq(Numbered) /\ torn \in BOOLEAN /\ stamp \in Nat
  /\ first \in Numbered \cup {Nothing}
  /\ lock \in Writers \cup {Nobody}
  /\ mode \in [Writers -> {"new", "open", "closing", "closed", "dead"}]
  /\ session \in [Writers -> BOOLEAN]
  /\ given \in [Writers -> 0 .. MaxFrames]
  /\ \A w \in Writers :
       /\ buffer[w] \in Seq(Frame) /\ Len(buffer[w]) <= MaxBuffer
       /\ pending[w] \in Seq(1 .. MaxFrames) /\ Len(pending[w]) <= Coalesce
       /\ todo[w] \in Seq(Record)
       /\ out[w] \in Record \cup {Nothing}
  /\ view \in [Writers -> View]
  /\ degraded \in [Writers -> Degradation]
  /\ status \in {"running", "terminal"}
  /\ shown \in Seq(Numbered)
  /\ watch \in {"reading", "asking", "doubting", "gone"}
  /\ faults \in 0 .. MaxFaults

Init ==
  /\ file = <<>> /\ torn = FALSE /\ first = Nothing /\ stamp = 0 /\ lock = Nobody
  /\ mode = [w \in Writers |-> "new"]
  /\ session = [w \in Writers |-> FALSE]
  /\ given = [w \in Writers |-> 0]
  /\ buffer = [w \in Writers |-> <<>>]
  /\ pending = [w \in Writers |-> <<>>]
  /\ todo = [w \in Writers |-> <<>>]
  /\ out = [w \in Writers |-> Nothing]
  /\ view = [w \in Writers |-> Blank]
  /\ degraded = [w \in Writers |-> Sound]
  /\ status = "running" /\ shown = <<>> /\ watch = "reading"
  /\ faults = 0

Fault == faults < MaxFaults /\ faults' = faults + 1

Degrade(w, why) ==
  degraded' = [degraded EXCEPT ![w] = [noted |-> TRUE, disabled |-> TRUE, reason |-> why]]
Disabled(w) == degraded[w].disabled

-----------------------------------------------------------------------------
(* The file                                                                 *)

Ordinary(r) == r.kind \notin {"journal.truncated", "terminal"}

Bytes(s)  == LET upTo[n \in 0 .. Len(s)] == IF n = 0 THEN 0 ELSE upTo[n - 1] + s[n].record.size
             IN  upTo[Len(s)]
Events(s) == Len(SelectSeq(s, LAMBDA e : Ordinary(e.record)))
Marks(s)  == \E i \in DOMAIN s : s[i].record.kind = "journal.truncated"

\* From where _recover_locked reads: the checkpoint, or the beginning when the
\* file changed without growing.
Base(v) ==
  IF v.stat.known /\ ~ (v.stat.records = Len(file) /\ ~ torn /\ v.stat.stamp # stamp)
  THEN v ELSE Blank

Unread(v) == SubSeq(file, v.read + 1, Len(file))

\* A file shorter than it was found or left disables its reader.
Shrunk(v) == Len(file) < v.read

\* So does a record out of sequence.
Spoiled(v) == \E i \in DOMAIN Unread(v) : Unread(v)[i].seq # v.seq + i

CutStamp == IF torn THEN stamp + 1 ELSE stamp

\* Mutant: the checkpoint is trusted, and what a peer wrote is not read.
RecoveredStale(v) ==
  [v EXCEPT !.read = Len(file),
            !.stat = [known |-> TRUE, records |-> Len(file), stamp |-> CutStamp]]

Recovered(v) ==
  [seq |-> v.seq + Len(Unread(v)), count |-> v.count + Events(Unread(v)), read |-> Len(file),
   marked |-> v.marked \/ Marks(Unread(v)), truncated |-> v.truncated \/ Marks(Unread(v)),
   stat |-> [known |-> TRUE, records |-> Len(file), stamp |-> CutStamp]]

\* Mutant: a torn tail is cut off together with the record before it.
CutTooFar ==
  /\ torn' = FALSE /\ first' = Nothing /\ stamp' = CutStamp
  /\ file' = IF torn /\ file # <<>> THEN Front(file) ELSE file

\* The torn tail goes, and only the torn tail.
Cut == torn' = FALSE /\ first' = Nothing /\ stamp' = CutStamp /\ file' = file

\* What a write that failed may have left behind the complete records.  A
\* spectator looks at it when there is no complete record yet.
LeavesPart(w) ==
  /\ torn' \in BOOLEAN
  /\ first' \in {Nothing} \cup IF torn' /\ file = <<>> THEN {[seq |-> 1, record |-> out[w]]} ELSE {}

-----------------------------------------------------------------------------
(* Opening                                                                  *)

\* _open: fchmod changes the ctime of the file before it is read.
Open(w) ==
  /\ mode[w] = "new" /\ lock = Nobody
  /\ torn' = FALSE /\ first' = Nothing /\ stamp' = CutStamp + 1 /\ file' = file
  /\ view' = [view EXCEPT ![w] = [Recovered(Blank) EXCEPT !.stat.stamp = CutStamp + 1]]
  /\ mode' = [mode EXCEPT ![w] = "open"]
  /\ UNCHANGED <<lock, intake, todo, out, degraded, status, watcher, faults>>

OpenFails(w) ==
  /\ Fault
  /\ mode[w] = "new"
  /\ mode' = [mode EXCEPT ![w] = "open"]
  /\ Degrade(w, "open")
  /\ UNCHANGED <<disk, intake, todo, out, view, status, watcher>>

-----------------------------------------------------------------------------
(* ingest                                                                   *)

Idle(w) == mode[w] = "open" /\ todo[w] = <<>> /\ out[w] = Nothing

\* set_session returns when the buffer is replayed.
Replayed(w) == session[w] => buffer[w] = <<>>

Rec(w, kind, frames, size) == [kind |-> kind, by |-> w, frames |-> frames, size |-> size]

\* An event, or the event.dropped that replaces one too large for a record.
Projected(w, f) == Rec(w, "event", <<f.number>>, IF f.kind = "small" THEN Small ELSE Large)

Delta(w, frames) ==
  IF frames = <<>> THEN <<>>
  ELSE <<Rec(w, "message.delta", frames, IF Len(frames) = 1 THEN Small ELSE Large)>>

\* Mutant: an event overtakes the text that came before it.
IngestEventUnflushed(w, f) ==
  /\ f.kind # "delta"
  /\ todo' = [todo EXCEPT ![w] = <<Projected(w, f)>>]
  /\ UNCHANGED pending

\* An event goes out behind the text gathered so far.
IngestEvent(w, f) ==
  /\ f.kind # "delta"
  /\ todo' = [todo EXCEPT ![w] = Append(Delta(w, pending[w]), Projected(w, f))]
  /\ pending' = [pending EXCEPT ![w] = <<>>]

\* Text is gathered up to a limit; text of another message first flushes it.
IngestDelta(w, f) ==
  /\ f.kind = "delta"
  /\ \E other \in BOOLEAN :
       LET kept == IF other THEN <<>> ELSE pending[w]
           text == Append(kept, f.number)
           before == IF other THEN Delta(w, pending[w]) ELSE <<>>
       IN IF Len(text) >= Coalesce
          THEN /\ todo' = [todo EXCEPT ![w] = before \o Delta(w, text)]
               /\ pending' = [pending EXCEPT ![w] = <<>>]
          ELSE /\ todo' = [todo EXCEPT ![w] = before]
               /\ pending' = [pending EXCEPT ![w] = text]

Ingest(w, f) == IngestEvent(w, f) \/ IngestDelta(w, f)

NextFrame(w, kind) == [kind |-> kind, number |-> given[w] + 1]

FramesLeft == FoldFunction(+, 0, given) < MaxFrames

Give(w) ==
  /\ Idle(w) /\ FramesLeft
  /\ Replayed(w)
  /\ given' = [given EXCEPT ![w] = @ + 1]

FrameArrives(w) ==
  /\ Give(w) /\ session[w] /\ ~ Disabled(w)
  /\ \E kind \in {"small", "large", "delta"} : Ingest(w, NextFrame(w, kind))
  /\ UNCHANGED <<disk, mode, session, buffer, out, view, degraded, status, watcher, faults>>

\* A disabled journal ignores its frames.
FrameIgnored(w) ==
  /\ Give(w) /\ Disabled(w)
  /\ UNCHANGED <<disk, mode, session, buffer, pending, work, status, watcher, faults>>

\* Frames from before the identity of the session are kept, up to a limit.
FrameBuffered(w) ==
  /\ Give(w) /\ ~ session[w] /\ ~ Disabled(w)
  /\ Len(buffer[w]) < MaxBuffer
  /\ \E kind \in {"small", "delta"} :
       buffer' = [buffer EXCEPT ![w] = Append(@, NextFrame(w, kind))]
  /\ UNCHANGED <<disk, mode, session, pending, work, status, watcher, faults>>

BufferOverflows(w) ==
  /\ Give(w) /\ ~ session[w] /\ ~ Disabled(w)
  /\ Len(buffer[w]) = MaxBuffer
  /\ degraded' = [degraded EXCEPT ![w].noted = TRUE, ![w].reason = "pre_session_overflow"]
  /\ UNCHANGED <<disk, mode, session, buffer, pending, todo, out, view, status, watcher, faults>>

SetSession(w) ==
  /\ Idle(w) /\ ~ session[w]
  /\ session' = [session EXCEPT ![w] = TRUE]
  /\ UNCHANGED <<disk, mode, given, buffer, pending, work, status, watcher, faults>>

\* The frames of the buffer are ingested one by one, before any other.
Replay(w) ==
  /\ Idle(w) /\ session[w] /\ buffer[w] # <<>>
  /\ buffer' = [buffer EXCEPT ![w] = Tail(@)]
  /\ IF Disabled(w) THEN UNCHANGED <<todo, pending>> ELSE Ingest(w, Head(buffer[w]))
  /\ UNCHANGED <<disk, mode, session, given, out, view, degraded, status, watcher, faults>>

\* flush: the poll loop of the coordinator writes text that waited long enough.
Flush(w) ==
  /\ Idle(w) /\ Replayed(w) /\ pending[w] # <<>>
  /\ todo' = [todo EXCEPT ![w] = Delta(w, pending[w])]
  /\ pending' = [pending EXCEPT ![w] = <<>>]
  /\ UNCHANGED <<disk, mode, session, given, buffer, out, view, degraded, status, watcher, faults>>

-----------------------------------------------------------------------------
(* _append_projected                                                        *)

Limit(r) == IF r.kind = "terminal" THEN MaxBytes ELSE MaxBytes - Reserve

Exceeds(v, r) ==
  \/ Ordinary(r) /\ v.count >= MaxEvents
  \/ Bytes(file) + r.size > Limit(r)

Mark(w) == Rec(w, "journal.truncated", <<>>, MarkSize)

\* Mutant: the marker is written where the terminal record has its place.
MarkIntoReserve(v) == ~ v.marked

\* _truncate_locked writes its marker once, and only where an ordinary record
\* could be written.
MarkFits(v) == ~ v.marked /\ Bytes(file) + MarkSize <= MaxBytes - Reserve

\* What comes out of the decision taken under the lock: a record to write, or
\* the reason why there is none.
Decide(w, r) ==
  LET v == Recovered(Base(view[w])) IN
  IF Spoiled(Base(view[w]))
  THEN /\ Degrade(w, "corrupt_complete_record") /\ UNCHANGED <<view, out, lock>>
  ELSE IF v.truncated /\ r.kind # "terminal"
  THEN view' = [view EXCEPT ![w] = v] /\ UNCHANGED <<degraded, out, lock>>
  ELSE IF ~ Exceeds(v, r)
  THEN /\ view' = [view EXCEPT ![w] = v]
       /\ out' = [out EXCEPT ![w] = r] /\ lock' = w /\ UNCHANGED degraded
  ELSE IF r.kind = "terminal"
  THEN /\ view' = [view EXCEPT ![w] = v]
       /\ Degrade(w, "terminal_reserve_exhausted") /\ UNCHANGED <<out, lock>>
  ELSE IF MarkFits(v)
  THEN /\ view' = [view EXCEPT ![w] = v]
       /\ out' = [out EXCEPT ![w] = Mark(w)] /\ lock' = w /\ UNCHANGED degraded
  ELSE /\ view' = [view EXCEPT ![w] = [v EXCEPT !.truncated = TRUE]]
       /\ UNCHANGED <<degraded, out, lock>>

\* _recover_locked, and what is decided on what it found.
Recover(w, r) ==
  IF Shrunk(view[w])
  THEN Degrade(w, "journal_shrunk") /\ UNCHANGED <<disk, view, out>>
  ELSE Decide(w, r) /\ Cut

\* Mutant: peers append whenever they like.
BeginUnlocked(w) ==
  /\ todo[w] # <<>> /\ out[w] = Nothing /\ ~ Disabled(w)
  /\ todo' = [todo EXCEPT ![w] = Tail(@)]
  /\ Recover(w, Head(todo[w]))
  /\ UNCHANGED <<mode, intake, status, watcher, faults>>

Begin(w) ==
  /\ lock = Nobody
  /\ todo[w] # <<>> /\ out[w] = Nothing /\ ~ Disabled(w)
  /\ todo' = [todo EXCEPT ![w] = Tail(@)]
  /\ Recover(w, Head(todo[w]))
  /\ UNCHANGED <<mode, intake, status, watcher, faults>>

\* A disabled journal appends nothing.
Skip(w) ==
  /\ todo[w] # <<>> /\ out[w] = Nothing /\ Disabled(w)
  /\ todo' = [todo EXCEPT ![w] = <<>>]
  /\ UNCHANGED <<disk, mode, intake, out, view, degraded, status, watcher, faults>>

Write(w) ==
  /\ out[w] # Nothing
  /\ file' = Append(file, [seq |-> view[w].seq + 1, record |-> out[w]])
  /\ view' = [view EXCEPT ![w] =
                [seq |-> @.seq + 1,
                 count |-> IF Ordinary(out[w]) THEN @.count + 1 ELSE @.count,
                 read |-> @.read + 1,
                 marked |-> @.marked \/ out[w].kind = "journal.truncated",
                 truncated |-> @.truncated \/ out[w].kind = "journal.truncated",
                 stat |-> [known |-> TRUE, records |-> @.read + 1, stamp |-> stamp]]]
  /\ out' = [out EXCEPT ![w] = Nothing]
  /\ lock' = Nobody
  /\ UNCHANGED <<torn, first, stamp, mode, intake, todo, degraded, status, watcher, faults>>

\* A short write or none disables the writer and leaves the rest to the next.
WriteFails(w) ==
  /\ Fault
  /\ out[w] # Nothing
  /\ LeavesPart(w)
  /\ out' = [out EXCEPT ![w] = Nothing]
  /\ lock' = Nobody
  /\ Degrade(w, "write")
  /\ UNCHANGED <<file, stamp, mode, intake, todo, view, status, watcher>>

\* The record is written, and the fsync of a forced flush fails behind it: the
\* record that was to follow, or the terminal record, is not written any more.
SyncFails(w) ==
  /\ Fault
  /\ mode[w] \in {"open", "closing"} /\ out[w] = Nothing /\ ~ Disabled(w)
  /\ Len(todo[w]) <= 1
  /\ Degrade(w, "fsync")
  /\ UNCHANGED <<disk, mode, intake, todo, out, view, status, watcher>>

-----------------------------------------------------------------------------
(* The end                                                                  *)

\* The coordinator publishes its run and then finalizes the journal: text still
\* pending and the terminal record come after the terminal status.
Finalize(w) ==
  /\ Idle(w) /\ Replayed(w)
  /\ status' = "terminal"
  /\ todo' = [todo EXCEPT ![w] = Append(Delta(w, pending[w]), Rec(w, "terminal", <<>>, MarkSize))]
  /\ pending' = [pending EXCEPT ![w] = <<>>]
  /\ mode' = [mode EXCEPT ![w] = "closing"]
  /\ UNCHANGED <<disk, session, given, buffer, out, view, degraded, watcher, faults>>

Close(w) ==
  /\ mode[w] = "closing" /\ todo[w] = <<>> /\ out[w] = Nothing
  /\ mode' = [mode EXCEPT ![w] = "closed"]
  /\ UNCHANGED <<disk, intake, work, status, watcher, faults>>

\* The kernel frees the lock; a write may be left half done.
Die(w) ==
  /\ Fault
  /\ mode[w] \in {"open", "closing"}
  /\ mode' = [mode EXCEPT ![w] = "dead"]
  /\ lock' = IF lock = w THEN Nobody ELSE lock
  /\ IF out[w] # Nothing THEN LeavesPart(w) ELSE UNCHANGED <<torn, first>>
  /\ out' = [out EXCEPT ![w] = Nothing]
  /\ todo' = [todo EXCEPT ![w] = <<>>]
  /\ UNCHANGED <<file, stamp, intake, view, degraded, status, watcher>>

\* An operator repairs the run of a dead worker.
Repair ==
  /\ status = "running" /\ \E w \in Writers : mode[w] = "dead"
  /\ status' = "terminal"
  /\ UNCHANGED <<disk, mode, intake, work, watcher, faults>>

-----------------------------------------------------------------------------
(* watch_run                                                                *)

\* An unfinished line behind a complete one is left out.  In a file without a
\* newline rsplit leaves the whole of it, and the line is taken for a record.
Readable == IF file = <<>> /\ first # Nothing THEN <<first>> ELSE file
Broken   == file = <<>> /\ torn /\ first = Nothing

\* What was already shown is not shown again.
News ==
  FlattenSeq([n \in DOMAIN Readable |->
    IF \A i \in DOMAIN shown : Readable[n].seq > shown[i].seq THEN <<Readable[n]>> ELSE <<>>])

ReadEvents ==
  /\ watch \in {"reading", "doubting"}
  /\ ~ Broken
  /\ shown' = shown \o News
  /\ watch' = "asking"
  /\ UNCHANGED <<disk, mode, intake, work, status, faults>>

\* Part of a line cannot be decoded, and the spectator gives up.
ReadFails ==
  /\ watch \in {"reading", "doubting"}
  /\ Broken
  /\ watch' = "gone"
  /\ UNCHANGED <<disk, mode, intake, work, status, shown, faults>>

\* A worker seen dead twice, two seconds apart, ends the watch as well.
WorkerGone == \E w \in Writers : mode[w] = "dead"

ReadStatus ==
  /\ watch = "asking"
  /\ watch' \in IF status = "terminal" THEN {"gone"}
                ELSE IF WorkerGone THEN {"doubting", "gone"} ELSE {"reading"}
  /\ UNCHANGED <<disk, mode, intake, work, status, shown, faults>>

-----------------------------------------------------------------------------
Step(w) ==
  \/ Open(w) \/ FrameArrives(w) \/ FrameIgnored(w) \/ FrameBuffered(w) \/ BufferOverflows(w)
  \/ SetSession(w) \/ Replay(w) \/ Flush(w) \/ Begin(w) \/ Skip(w) \/ Write(w)
  \/ Finalize(w) \/ Close(w)

Failure(w) == OpenFails(w) \/ WriteFails(w) \/ SyncFails(w) \/ Die(w)

Next == (\E w \in Writers : Step(w) \/ Failure(w)) \/ Repair \/ ReadEvents \/ ReadFails \/ ReadStatus

Spec == Init /\ [][Next]_vars

-----------------------------------------------------------------------------
(* Safety *)

\* The records are numbered from one without a gap, whoever wrote them, died on
\* them or cut off a torn tail.
SeqIsGapless == \A i \in DOMAIN file : file[i].seq = i

\* There is at most one truncation marker, and no event behind it.
NothingBehindTheMarker ==
  \A i, j \in DOMAIN file :
    file[i].record.kind = "journal.truncated" /\ i < j => file[j].record.kind = "terminal"

FramesOf(w, s) == FlattenSeq([i \in DOMAIN s |-> IF s[i].by = w THEN s[i].frames ELSE <<>>])
Stored(w) == FramesOf(w, [i \in DOMAIN file |-> file[i].record])
Held(w) ==
  (IF out[w] = Nothing THEN <<>> ELSE out[w].frames) \o FramesOf(w, todo[w]) \o pending[w]
    \o [i \in DOMAIN buffer[w] |-> buffer[w][i].number]

\* A truncation leaves its mark in the file when there is room for one; without
\* a marker it is known to its writer alone, until a peer opens the file and
\* makes that writer read it afresh.
TruncationIsKept(w) ==
  \/ Bytes(file) + MarkSize <= MaxBytes - Reserve
  \/ \A v \in Writers \ {w} : mode[v] = "new"

\* Between two calls, a writer that reports neither degradation nor truncation
\* has written or still holds every frame it was given, once and in the order of
\* arrival.
LossIsReported ==
  \A w \in Writers :
    mode[w] # "dead" /\ out[w].kind # "journal.truncated" /\ TruncationIsKept(w)
    /\ ~ degraded[w].noted /\ ~ view[w].truncated =>
      Stored(w) \o Held(w) = [i \in 1 .. given[w] |-> i]

\* A writer is disabled by a failing call of its own, never by what a peer wrote,
\* tore or cut off, nor for want of room for its terminal record: events and
\* marker leave the reserve alone.
PeersNeverDisable == \A w \in Writers : Disabled(w) => degraded[w].reason \in Failures

\* Whose write of a record came to nothing.
Stopped(w) == mode[w] = "dead" \/ Disabled(w)

\* The spectator has shown the records of the journal from the first one on, each
\* of them once.  Only the first can be another than the journal's: the one of a
\* writer that failed or died on its newline.
ShownOnce ==
  \A i \in DOMAIN shown :
    /\ shown[i].seq = i
    /\ \/ i \in DOMAIN file /\ shown[i] = file[i]
       \/ i = 1 /\ Stopped(shown[1].record.by)

\* Whatever is recorded, the file stays within its cap.
CapIsKept == Bytes(file) <= MaxBytes

-----------------------------------------------------------------------------
(* Refinement *)

Log == INSTANCE EventLog WITH log <- file, seen <- shown

\* The file, the lock and the memories of all writers together behave as one log that only
\* grows, and the polls of a spectator as looks at the whole of it, or before anything is
\* recorded at a first record that its writer never finished.
ImplementsLog == Log!Spec
=============================================================================
