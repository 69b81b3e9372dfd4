------------------------------- MODULE TuiRpc -------------------------------
(***************************************************************************)
(* The client's end of the two pipes to a gateway process (TuiRpcClient):   *)
(* one synchronous call at a time, events interleaved with its answer,      *)
(* answers that come after the caller has given up, frames that do not fit  *)
(* into a pipe, and the staged teardown.  The gateway is the environment.   *)
(***************************************************************************)
EXTENDS Naturals, Sequences

CONSTANTS
  Says,       \* what an event or a result can tell
  MaxCalls,   \* calls of one client
  MaxEvents,  \* events the gateway emits by itself
  Room,       \* frames the gateway's output pipe holds
  MaxFaults   \* deaths, hangs and malformed frames

ASSUME TuiRpcAssumption ==
  /\ Says # {}
  /\ MaxCalls \in Nat /\ MaxEvents \in Nat /\ MaxFaults \in Nat
  /\ Room \in Nat \ {0}

VARIABLES
  phase,      \* where the client is
  call,       \* the id of the call being made, or 0
  unsent,     \* parts of its frame still to be written
  nextId,     \* _next_id
  abandoned,  \* _abandoned_ids
  answered,   \* history: calls whose result or error their caller got
  error,      \* what the last operation raised
  stdin,      \* "open" or "closed" on the client's side
  inPipe,     \* written, and not yet read by the gateway
  held,       \* the call whose first part alone the gateway has read, or 0
  accepted,   \* calls the gateway works on
  replied,    \* calls the gateway has answered
  outPipe,    \* frames of the gateway that the client has not read
  events,     \* events emitted so far
  gateway,    \* the process
  signal,     \* the last signal its group was sent
  broken,     \* history: the gateway died or broke the protocol
  faults

client == <<phase, call, unsent, nextId, abandoned, answered, error, stdin>>
host   == <<held, accepted, replied, events, gateway, broken>>
pipes  == <<inPipe, outPipe>>
vars   == <<client, host, pipes, signal, faults>>

Ids     == 1..MaxCalls
Waiting == {"starting", "writing", "calling", "drain", "term", "kill"}
Nobody  == CHOOSE s \in Says : TRUE

Frame(kind, id, says) == [kind |-> kind, id |-> id, says |-> says]
Frames == [kind : {"ready", "event", "reply", "junk"}, id : 0..MaxCalls, says : Says]

TypeOK ==
  /\ phase \in Waiting \cup {"idle", "closed", "kept"}
  /\ call \in 0..MaxCalls
  /\ unsent \in 0..2
  /\ nextId \in 1..(MaxCalls + 1)
  /\ abandoned \subseteq Ids
  /\ answered \subseteq Ids
  /\ error \in {"none", "timeout", "remote", "transport", "protocol"}
  /\ stdin \in {"open", "closed"}
  /\ inPipe \in Seq(Ids \X BOOLEAN) /\ Len(inPipe) <= 1
  /\ held \in 0..MaxCalls
  /\ accepted \subseteq Ids
  /\ replied \subseteq Ids
  /\ outPipe \in Seq(Frames) /\ Len(outPipe) <= Room
  /\ events \in 0..MaxEvents
  /\ gateway \in {"booting", "serving", "hung", "stuck", "exited"}
  /\ signal \in {"none", "SIGTERM", "SIGKILL"}
  /\ broken \in BOOLEAN
  /\ faults \in 0..MaxFaults

\* launch_gateway: the process runs, and the client waits for gateway.ready.
Init ==
  /\ phase = "starting"
  /\ call = 0 /\ unsent = 0 /\ nextId = 1
  /\ abandoned = {} /\ answered = {}
  /\ error = "none"
  /\ stdin = "open"
  /\ inPipe = <<>> /\ outPipe = <<>>
  /\ held = 0
  /\ accepted = {} /\ replied = {}
  /\ events = 0
  /\ gateway = "booting"
  /\ signal = "none"
  /\ broken = FALSE
  /\ faults = 0

-----------------------------------------------------------------------------
(* The gateway, as the client relies on it.  It reads while it is able to   *)
(* write, answers each request once and in any order, emits events, and     *)
(* exits at the end of its input, with its remaining output unread or not.  *)

Fault == faults < MaxFaults /\ faults' = faults + 1

CanEmit == gateway \in {"booting", "serving"} /\ Len(outPipe) < Room

Emit(f) == outPipe' = Append(outPipe, f)

GatewayReady ==
  /\ gateway = "booting" /\ CanEmit
  /\ gateway' = "serving"
  /\ Emit(Frame("ready", 0, Nobody))
  /\ UNCHANGED <<client, held, accepted, replied, events, broken, inPipe, signal, faults>>

\* A part of another frame behind an unfinished one is answered as garbage.
GatewayReads ==
  /\ gateway = "serving" /\ CanEmit
  /\ inPipe # <<>>
  /\ inPipe' = Tail(inPipe)
  /\ LET id   == Head(inPipe)[1]
         last == Head(inPipe)[2]
     IN  IF held \in {0, id}
         THEN /\ held' = IF last THEN 0 ELSE id
              /\ accepted' = IF last THEN accepted \cup {id} ELSE accepted
              /\ UNCHANGED outPipe
         ELSE /\ held' = 0
              /\ Emit(Frame("junk", 0, Nobody))
              /\ UNCHANGED accepted
  /\ UNCHANGED <<client, replied, events, gateway, broken, signal, faults>>

GatewayReplies(id, s) ==
  /\ gateway = "serving" /\ CanEmit
  /\ id \in accepted \ replied
  /\ replied' = replied \cup {id}
  /\ Emit(Frame("reply", id, s))
  /\ UNCHANGED <<client, held, accepted, events, gateway, broken, inPipe, signal, faults>>

GatewayEmits(s) ==
  /\ CanEmit
  /\ events < MaxEvents
  /\ events' = events + 1
  /\ Emit(Frame("event", 0, s))
  /\ UNCHANGED <<client, held, accepted, replied, gateway, broken, inPipe, signal, faults>>

\* A frame that is no frame, or an answer for the second time.
GatewayMisbehaves ==
  /\ CanEmit /\ Fault
  /\ broken' = TRUE
  /\ \/ Emit(Frame("junk", 0, Nobody))
     \/ \E id \in replied : Emit(Frame("reply", id, Nobody))
  /\ UNCHANGED <<client, held, accepted, replied, events, gateway, inPipe, signal>>

\* It stops working, and minds SIGKILL only, or not even that.
GatewayHangs ==
  /\ gateway \in {"booting", "serving"} /\ Fault
  /\ gateway' \in {"hung", "stuck"}
  /\ UNCHANGED <<client, held, accepted, replied, events, broken, pipes, signal>>

\* It dies; what it was writing then ends in the middle.
GatewayDies ==
  /\ gateway # "exited" /\ gateway # "stuck" /\ Fault
  /\ gateway' = "exited"
  /\ broken' = TRUE
  /\ outPipe' \in {outPipe, IF Len(outPipe) < Room
                            THEN Append(outPipe, Frame("junk", 0, Nobody)) ELSE outPipe}
  /\ UNCHANGED <<client, held, accepted, replied, events, inPipe, signal>>

\* End of input: it says what is left to say, and exits.
GatewayExits ==
  /\ gateway \in {"booting", "serving"}
  /\ stdin = "closed" /\ inPipe = <<>>
  /\ CanEmit
  /\ gateway' = "exited"
  /\ UNCHANGED <<client, held, accepted, replied, events, broken, pipes, signal, faults>>

GatewayIsKilled ==
  /\ \/ signal = "SIGTERM" /\ gateway \in {"booting", "serving"}
     \/ signal = "SIGKILL" /\ gateway \in {"booting", "serving", "hung"}
  /\ gateway' = "exited"
  /\ UNCHANGED <<client, held, accepted, replied, events, broken, pipes, signal, faults>>

Gateway ==
  \/ GatewayReady \/ GatewayReads
  \/ \E id \in Ids, s \in Says : GatewayReplies(id, s)
  \/ \E s \in Says : GatewayEmits(s)
  \/ GatewayMisbehaves \/ GatewayHangs \/ GatewayDies
  \/ GatewayExits \/ GatewayIsKilled

-----------------------------------------------------------------------------
(* Making a call.                                                           *)

\* The operation in progress is over.
Return(e) ==
  /\ phase' = "idle"
  /\ call' = 0
  /\ unsent' = 0
  /\ error' = e

\* The budget is spent before anything is sent: no id is used.
CallTooLate ==
  /\ phase = "idle" /\ nextId <= MaxCalls
  /\ Return("timeout")
  /\ UNCHANGED <<nextId, abandoned, answered, stdin, host, pipes, signal, faults>>

\* call: the id is taken, whether the frame can be written or not.
Call(parts) ==
  /\ phase = "idle" /\ nextId <= MaxCalls
  /\ nextId' = nextId + 1
  /\ IF stdin = "open"
     THEN /\ phase' = "writing" /\ call' = nextId /\ unsent' = parts /\ error' = "none"
     ELSE Return("transport")
  /\ UNCHANGED <<abandoned, answered, stdin, host, pipes, signal, faults>>

\* _write: a part goes into the pipe when there is room.
Write ==
  /\ phase = "writing"
  /\ inPipe = <<>> /\ gateway # "exited"
  /\ inPipe' = <<<<call, unsent = 1>>>>
  /\ unsent' = unsent - 1
  /\ phase' = IF unsent = 1 THEN "calling" ELSE "writing"
  /\ UNCHANGED <<call, nextId, abandoned, answered, error, stdin, outPipe, host, signal, faults>>

\* Mutant: the pipe stays open behind an incomplete frame.
WriteAbandoned ==
  /\ phase = "writing"
  /\ Return("timeout")
  /\ UNCHANGED <<nextId, abandoned, answered, stdin, host, pipes, signal, faults>>

\* The dispatch deadline, or a broken pipe: no frame may follow.
WriteFails ==
  /\ phase = "writing"
  /\ stdin' = "closed"
  /\ Return(IF gateway = "exited" THEN "transport" ELSE "timeout")
  /\ UNCHANGED <<nextId, abandoned, answered, host, pipes, signal, faults>>

-----------------------------------------------------------------------------
(* Reading.  Late is an answer whose caller has given up: it is dropped      *)
(* once, by whoever reads next.                                             *)

Reads == phase \in {"starting", "idle", "calling"} /\ outPipe # <<>>
Front == Head(outPipe)
Late  == Front.kind = "reply" /\ Front.id \in abandoned

DropLate ==
  /\ Reads /\ Late
  /\ outPipe' = Tail(outPipe)
  /\ abandoned' = abandoned \ {Front.id}
  /\ UNCHANGED <<phase, call, unsent, nextId, answered, error, stdin, inPipe, host, signal, faults>>

\* An event goes to the caller's callback, whatever the client waits for.
TakeEvent ==
  /\ Reads
  /\ \/ Front.kind = "event"
     \/ Front.kind = "ready" /\ phase # "starting"
  /\ outPipe' = Tail(outPipe)
  /\ UNCHANGED <<client, inPipe, host, signal, faults>>

\* wait_ready
TakeReady ==
  /\ Reads /\ phase = "starting"
  /\ Front.kind = "ready"
  /\ outPipe' = Tail(outPipe)
  /\ Return("none")
  /\ UNCHANGED <<nextId, abandoned, answered, stdin, inPipe, host, signal, faults>>

\* Mutant: any answer will do.
TakeAnyAnswer ==
  /\ Reads /\ phase = "calling"
  /\ Front.kind = "reply" /\ ~ Late
  /\ outPipe' = Tail(outPipe)
  /\ answered' = answered \cup {call}
  /\ Return("none")
  /\ UNCHANGED <<nextId, abandoned, stdin, inPipe, host, signal, faults>>

\* The answer to this very call: its result is returned, its error raised.
TakeAnswer ==
  /\ Reads /\ phase = "calling"
  /\ Front.kind = "reply" /\ ~ Late
  /\ Front.id = call
  /\ outPipe' = Tail(outPipe)
  /\ answered' = answered \cup {call}
  /\ \E e \in {"none", "remote"} : Return(e)
  /\ UNCHANGED <<nextId, abandoned, stdin, inPipe, host, signal, faults>>

\* Anything else is fatal to the operation, and before gateway.ready to all.
Refuse ==
  /\ Reads /\ ~ Late
  /\ \/ Front.kind = "junk"
     \/ Front.kind = "reply" /\ (phase = "calling" => Front.id # call)
  /\ outPipe' = Tail(outPipe)
  /\ Return("protocol")
  /\ UNCHANGED <<nextId, abandoned, answered, stdin, inPipe, host, signal, faults>>

EndOfOutput ==
  /\ phase \in {"starting", "calling"}
  /\ gateway = "exited" /\ outPipe = <<>>
  /\ Return("transport")
  /\ UNCHANGED <<nextId, abandoned, answered, stdin, host, pipes, signal, faults>>

\* Mutant: an answer given up is not remembered.
TimeOutForget ==
  /\ phase \in {"starting", "calling"}
  /\ Return("timeout")
  /\ UNCHANGED <<nextId, abandoned, answered, stdin, host, pipes, signal, faults>>

\* The deadline passes with the answer still to come.
TimeOut ==
  /\ phase \in {"starting", "calling"}
  /\ abandoned' = abandoned \cup ({call} \ {0})
  /\ Return("timeout")
  /\ UNCHANGED <<nextId, answered, stdin, host, pipes, signal, faults>>

-----------------------------------------------------------------------------
(* close: the end of input, then SIGTERM, then SIGKILL, within one budget.  *)

Close ==
  /\ phase = "idle"
  /\ phase' = "drain"
  /\ stdin' = "closed"
  /\ error' = "none"
  /\ UNCHANGED <<call, unsent, nextId, abandoned, answered, pipes, host, signal, faults>>

\* Mutant: it waits for the exit without reading.
DrainNothing == FALSE /\ UNCHANGED vars

\* _wait_draining: output is read and discarded until the process has exited.
Drain ==
  /\ phase \in {"drain", "term"}
  /\ gateway # "exited" /\ outPipe # <<>>
  /\ outPipe' = Tail(outPipe)
  /\ UNCHANGED <<client, inPipe, host, signal, faults>>

Reap ==
  /\ phase \in {"drain", "term", "kill"}
  /\ gateway = "exited"
  /\ phase' = "closed"
  /\ UNCHANGED <<call, unsent, nextId, abandoned, answered, error, stdin, pipes, host, signal, faults>>

\* A stage has used up its share.  After the last one the child is the
\* owner's to reap.
Escalate ==
  /\ \/ phase = "drain" /\ phase' = "term" /\ signal' = "SIGTERM"
     \/ phase = "term" /\ phase' = "kill" /\ signal' = "SIGKILL"
     \/ phase = "kill" /\ phase' = "kept" /\ UNCHANGED signal
  /\ gateway # "exited"
  /\ UNCHANGED <<call, unsent, nextId, abandoned, answered, error, stdin, pipes, host, faults>>

-----------------------------------------------------------------------------
Reader == DropLate \/ TakeEvent \/ TakeReady \/ TakeAnswer \/ Refuse \/ EndOfOutput

Client ==
  \/ CallTooLate \/ (\E parts \in {1, 2} : Call(parts)) \/ Write \/ WriteFails
  \/ Reader \/ TimeOut
  \/ Close \/ Drain \/ Reap \/ Escalate

Next == Client \/ Gateway

Spec == Init /\ [][Next]_vars

(***************************************************************************)
(* The client reads, writes and drains when it can.  A gateway that does     *)
(* not hang goes on, but nothing makes it emit events.  Deadlines do pass,   *)
(* and are taken to pass only where they are needed: when the gateway hangs, *)
(* and when both pipes are full, the client writing and not reading.        *)
(***************************************************************************)
Hanging == gateway \in {"hung", "stuck"}

Fairness ==
  /\ WF_vars(Write) /\ WF_vars(Reader) /\ WF_vars(Drain) /\ WF_vars(Reap)
  /\ WF_vars(WriteFails /\ (Hanging \/ gateway = "exited" \/ Len(outPipe) = Room))
  /\ WF_vars(Hanging /\ (TimeOut \/ Escalate))
  /\ WF_vars(GatewayReady) /\ WF_vars(GatewayReads)
  /\ WF_vars(\E id \in Ids, s \in Says : GatewayReplies(id, s))
  /\ WF_vars(GatewayExits) /\ WF_vars(GatewayIsKilled)

FairSpec == Spec /\ Fairness

-----------------------------------------------------------------------------
(* Safety *)

\* A gateway that keeps to the protocol and lives is never taken for one that
\* does not, however late it answers and however often its caller gave up.
HonestGatewayIsAccepted == error = "protocol" => broken

(* Refinement *)

StateOf(c) == CASE c \in answered            -> "answered"
                [] c = call                   -> "open"
                [] c < nextId /\ c # call /\ c \notin answered -> "given up"
                [] OTHER                      -> "new"

Abstract == INSTANCE SynchronousCalls WITH
  Calls <- Ids,
  state <- [c \in Ids |-> StateOf(c)],
  done  <- replied

\* Answers are correlated: a call is answered by the gateway's own answer to it,
\* at most once, and a late answer reaches nobody.
ImplementsCalls == Abstract!Spec

(* Liveness *)

\* Waiting for the gateway, writing to it and closing it come to an end; and
\* unless the gateway hangs or both pipes are full, without any deadline.
EveryCallReturns == phase \in Waiting ~> phase \in {"idle", "closed", "kept"}
=============================================================================
