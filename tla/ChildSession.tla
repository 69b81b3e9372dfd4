---------------------------- MODULE ChildSession ----------------------------
(***************************************************************************)
(* A worker starts or resumes the child's session over TuiRpc and learns    *)
(* who the child is: from the answer to session.create or session.resume,   *)
(* and from session.info events that overtake it, while native compression  *)
(* keeps giving the conversation new sessions.  Composes TuiRpc with        *)
(* SessionLineage.                                                          *)
(***************************************************************************)
EXTENDS TuiRpc, SessionLineage

CONSTANT MaxStartup   \* startup events retained, max_pre_session_events

ASSUME ChildSessionAssumption ==
  MaxStartup \in Nat /\ MaxSessions # 0 /\ Says = 0..MaxSessions

VARIABLES
  asked,     \* the session to resume, or 0 for a new one
  tip,       \* the session the gateway's conversation is in, 0 before any
  told,      \* what the answer to the start is going to say, once it is made
  reply,     \* the identity of that answer, as the worker got it
  retained,  \* startup_identity_events
  stage,     \* how far start_session and the turn are
  child,     \* child_session_id, 0 before it is bound
  heard,     \* history: the newest identity the worker was told
  lied       \* history: the gateway told another identity than its own

worker == <<reply, retained, stage, child, heard>>
own    == <<asked, tip, told, worker, lied>>
cvars  == <<vars, lineage, own>>

Stages == {"start", "select", "bind", "submit", "turn"}

ChildTypeOK ==
  /\ TypeOK /\ LineageTypeOK
  /\ {asked, tip, told, reply, child, heard} \subseteq 0..MaxSessions
  /\ retained \in Seq(Sessions) /\ Len(retained) <= MaxStartup
  /\ stage \in Stages
  /\ lied \in BOOLEAN

CInit ==
  /\ Init
  /\ \/ asked = 0 /\ LineageInit
     \/ /\ asked = 1
        /\ \E l \in Lanes : db = <<Opened(0, l, NoMark)>>
        /\ conversation = <<1>>
        /\ blurred = {}
  /\ tip = asked
  /\ told = 0 /\ reply = 0 /\ child = 0 /\ heard = 0
  /\ retained = <<>>
  /\ stage = "start"
  /\ lied = FALSE

-----------------------------------------------------------------------------
(* The host.                                                                *)

\* session.create or session.resume is carried out; its answer is made now,
\* and may be sent later.
HostOpens ==
  /\ gateway = "serving"
  /\ 1 \in accepted \ replied /\ told = 0
  /\ \/ /\ asked # 0
        /\ told' = tip
        /\ UNCHANGED <<lineage, tip>>
     \/ /\ asked = 0
        /\ \E l \in Lanes : Begin(l)
        /\ tip' = Fresh /\ told' = Fresh
  /\ UNCHANGED <<vars, asked, worker, lied>>

\* While the worker listens, and before it does.
Listening == phase \notin {"drain", "term", "kill", "closed", "kept"}

\* Compression goes on at any time, and before the start too.
HostCompresses ==
  /\ Listening /\ tip # 0
  /\ \E l \in Lanes : Compress(tip, l)
  /\ tip' = Fresh
  /\ UNCHANGED <<vars, asked, told, worker, lied>>

\* Somebody branches off the conversation, or its table is damaged.
HostBranches ==
  /\ Listening /\ tip # 0
  /\ \/ Depart(tip, "branch")
     \/ \E s \in Known : Blur(s, db[s].mark)
  /\ UNCHANGED <<vars, own>>

\* What the gateway says: its own identity, or one lie.
Speaks(s, honest) ==
  /\ s \in honest \/ (s \in Known /\ ~ lied)
  /\ lied' = (lied \/ s \notin honest)
  /\ UNCHANGED <<lineage, asked, tip, told, worker>>

GatewayTells ==
  \/ \E s \in Says : GatewayEmits(s) /\ Speaks(s, {0, tip})
  \/ told # 0 /\ \E s \in Says \ {0} : GatewayReplies(1, s) /\ Speaks(s, {told})
  \/ \E id \in Ids \ {1} : GatewayReplies(id, 0) /\ Speaks(0, {0})

Apart(A) == A /\ UNCHANGED <<lineage, own>>

-----------------------------------------------------------------------------
\* Outside a call the worker reads during the turn only.
Polls == phase = "idle" => stage = "turn"

(* start_session: the start, a selection if one is asked for, the binding,  *)
(* and the first prompt, whose frame may be larger than a pipe.  An error on *)
(* the way leaves only the teardown.                                        *)

Ready == phase = "idle" /\ (error = "none" \/ stage = "turn")

MakeCall ==
  /\ Ready /\ stage # "bind"
  /\ nextId = 1 <=> stage = "start"
  /\ CallTooLate \/ Call(IF stage = "submit" THEN 2 ELSE 1)
  /\ UNCHANGED <<lineage, own>>

\* The answer says who the child is; a selection, or none, follows.
Started ==
  /\ stage = "start" /\ call = 1
  /\ TakeAnswer
  /\ IF error' = "none"
     THEN /\ reply' = Front.says
          /\ heard' = IF Front.says > heard THEN Front.says ELSE heard
          /\ stage' \in {"select", "bind"}
     ELSE UNCHANGED <<reply, heard, stage>>
  /\ UNCHANGED <<lineage, asked, tip, told, retained, child, lied>>

Selected ==
  /\ stage = "select"
  /\ TakeAnswer
  /\ stage' = IF error' = "none" THEN "bind" ELSE stage
  /\ UNCHANGED <<lineage, asked, tip, told, reply, retained, child, heard, lied>>

Submitted ==
  /\ stage \in {"submit", "turn"}
  /\ TakeAnswer
  /\ stage' = IF error' = "none" THEN "turn" ELSE stage
  /\ UNCHANGED <<lineage, asked, tip, told, reply, retained, child, heard, lied>>

\* An identity is the same, or a proven continuation.
Proven(p, c) == p = c \/ Continues(p, c, TRUE)

\* What was retained, replayed from its first identity in the order of the wire;
\* 0 once an identity does not follow.
First == IF retained = <<>> THEN reply ELSE Head(retained)

Replay ==
  LET at[n \in 0..Len(retained)] ==
        IF n = 0 THEN First
        ELSE IF at[n - 1] # 0 /\ Proven(at[n - 1], retained[n]) THEN retained[n] ELSE 0
  IN at

Replayed == Replay[Len(retained)]

\* Mutant: the answer is newer than whatever overtook it.
OnOneChainForward(s) == s # 0 /\ Proven(s, reply)

\* The answer may be older or newer than what overtook it.
OnOneChain(s) == s # 0 /\ (Proven(s, reply) \/ Proven(reply, s))

Acceptable ==
  /\ asked # 0 => Proven(asked, reply)
  /\ OnOneChain(First)
  /\ OnOneChain(Replayed)

Newest(s) == IF Proven(s, reply) THEN reply ELSE s

\* Mutant: the answer is believed, whatever overtook it.
BindReply ==
  /\ Ready /\ stage = "bind"
  /\ IF Acceptable THEN child' = reply /\ stage' = "submit" /\ Return("none")
                   ELSE Return("protocol") /\ UNCHANGED <<child, stage>>
  /\ UNCHANGED <<nextId, abandoned, answered, stdin, pipes, host, signal, faults>>
  /\ UNCHANGED <<lineage, asked, tip, told, reply, retained, heard, lied>>

\* bind_startup_identity
Bind ==
  /\ Ready /\ stage = "bind"
  /\ IF Acceptable THEN child' = Newest(Replayed) /\ stage' = "submit" /\ Return("none")
                   ELSE Return("protocol") /\ UNCHANGED <<child, stage>>
  /\ UNCHANGED <<nextId, abandoned, answered, stdin, pipes, host, signal, faults>>
  /\ UNCHANGED <<lineage, asked, tip, told, reply, retained, heard, lied>>

\* What cannot be accepted ends the operation that was reading.
Reject ==
  /\ outPipe' = Tail(outPipe)
  /\ Return("protocol")
  /\ UNCHANGED <<nextId, abandoned, answered, stdin, inPipe, host, signal, faults>>
  /\ UNCHANGED worker

Hear(s) == heard' = IF s > heard THEN s ELSE heard

\* Before the child is bound identities are retained, up to a bound.
RetainIdentity ==
  /\ Polls /\ Reads /\ Front.kind = "event" /\ Front.says # 0
  /\ child = 0
  /\ IF Len(retained) < MaxStartup
     THEN /\ TakeEvent
          /\ retained' = Append(retained, Front.says)
          /\ Hear(Front.says)
          /\ UNCHANGED <<reply, stage, child>>
     ELSE Reject
  /\ UNCHANGED <<lineage, asked, tip, told, lied>>

\* Mutant: an identity is taken as it comes.
ObserveAnyIdentity ==
  /\ Polls /\ Reads /\ Front.kind = "event" /\ Front.says # 0
  /\ child # 0
  /\ TakeEvent /\ child' = Front.says /\ Hear(Front.says)
  /\ UNCHANGED <<reply, retained, stage>>
  /\ UNCHANGED <<lineage, asked, tip, told, lied>>

\* observe_identity: afterwards one at a time, forward only.
ObserveIdentity ==
  /\ Polls /\ Reads /\ Front.kind = "event" /\ Front.says # 0
  /\ child # 0
  /\ IF Proven(child, Front.says)
     THEN /\ TakeEvent
          /\ child' = Front.says
          /\ Hear(Front.says)
          /\ UNCHANGED <<reply, retained, stage>>
     ELSE Reject
  /\ UNCHANGED <<lineage, asked, tip, told, lied>>

OtherEvent == Polls /\ Reads /\ Front.says = 0 /\ Apart(TakeEvent)

-----------------------------------------------------------------------------
\* The steps of TuiRpc but for the faults of the gateway, which are studied there.
Transport ==
  \/ GatewayReady \/ GatewayReads \/ GatewayExits \/ GatewayIsKilled
  \/ Write \/ WriteFails \/ TakeReady \/ (Polls /\ (DropLate \/ Refuse)) \/ TimeOut
  \/ ((error # "none" \/ stage = "turn") /\ Close)
  \/ Drain \/ Reap \/ Escalate

CNext ==
  \/ Apart(Transport)
  \/ HostOpens \/ HostCompresses \/ HostBranches \/ GatewayTells
  \/ MakeCall \/ Started \/ Selected \/ Submitted \/ Bind
  \/ RetainIdentity \/ ObserveIdentity \/ OtherEvent

CSpec == CInit /\ [][CNext]_cvars

-----------------------------------------------------------------------------
(* Safety *)

\* A gateway that speaks for its own session is never refused, in whatever order
\* answer, events and compressions interleave, unless the startup events are more
\* than are retained or the table is damaged.
HonestSessionIsAccepted ==
  error = "protocol" =>
    lied \/ blurred # {} \/ Len(retained) = MaxStartup

\* The child is a session of the conversation that was resumed, whatever the
\* gateway claims; of a new conversation, if it does not lie about that.
ChildIsTheConversation ==
  child # 0 =>
    /\ asked # 0 => Follows(asked, child)
    /\ ~ lied => conversation[child] = conversation[tip]

\* The newest identity the worker was told is the one that is recorded: an older
\* answer or event never takes it back.
NewestIdentityIsKept == child # 0 => child = heard
=============================================================================
