----------------------------- MODULE ChannelProofs -----------------------------
(***************************************************************************)
(* The channel to the gateway, for any number of calls, events, faults and    *)
(* sessions and any room in the pipe: an honest gateway is never taken for    *)
(* one that breaks the protocol, the two pipes implement synchronous calls,  *)
(* and over them a worker learns who its child is (ChildSession).            *)
(***************************************************************************)
EXTENDS ChildSession, LineageProofs, TLAPS

-----------------------------------------------------------------------------
(* The inductive invariant *)

Part  == Head(inPipe)
InUse == phase \in {"starting", "idle", "writing", "calling"}

IsReply(i) == i \in 1..Len(outPipe) /\ outPipe[i].kind = "reply"

\* The answers somebody is prepared to take.
Expected == abandoned \cup (IF phase = "calling" THEN {call} ELSE {})

\* A call is open exactly while its frame is written and its answer awaited;
\* it is the youngest.
CallsMatch ==
  /\ call # 0 <=> phase \in {"writing", "calling"}
  /\ call # 0 => call = nextId - 1 /\ call \notin answered
  /\ answered \subseteq replied
  /\ replied \subseteq accepted
  /\ \A c \in accepted : c < nextId
  /\ inPipe # <<>> => Part[1] < nextId

\* Every answer is to a call that was carried out.
AnswersMatch == \A i \in 1..Len(outPipe) : IsReply(i) => outPipe[i].id \in replied

Correlated == CallsMatch /\ AnswersMatch

\* An unfinished frame is the one being written, or the last one ever.
Framed ==
  /\ phase \in {"writing", "calling"} => stdin = "open"
  /\ phase = "writing" => unsent # 0 /\ call \notin accepted
  /\ inPipe # <<>> =>
       /\ Part[1] \notin accepted
       /\ held \in {0, Part[1]}
       /\ phase = "writing" => (Part[1] = call <=> ~ Part[2])
       /\ stdin = "open" /\ phase # "writing" => Part[2]
  /\ inPipe = <<>> /\ stdin = "open" =>
       held \in {0, call} /\ (held # 0 => phase = "writing")

\* A gateway that did not break the protocol lives while it is used, ...
Lives ==
  /\ signal # "none" => ~ InUse
  /\ ~ broken /\ gateway = "exited" => stdin = "closed" \/ ~ InUse

\* ... says nothing twice and nothing that is no frame, ...
Clean ==
  ~ broken =>
    /\ \A i \in 1..Len(outPipe) : outPipe[i].kind # "junk"
    /\ \A i, j \in 1..Len(outPipe) :
         IsReply(i) /\ IsReply(j) /\ outPipe[i].id = outPipe[j].id => i = j

\* ... and whatever it may still answer, and has, is expected.
Awaited ==
  ~ broken /\ InUse =>
    /\ accepted \ replied \subseteq Expected
    /\ \A i \in 1..Len(outPipe) : IsReply(i) => outPipe[i].id \in Expected
    /\ inPipe # <<>> /\ Part[2] => Part[1] \in Expected

Honest == Lives /\ Clean /\ Awaited

Base == TypeOK /\ Correlated /\ Framed
Inv  == Base /\ Honest
-----------------------------------------------------------------------------
(* The pipe to the client *)

\* Reading takes the oldest frame and leaves the others.
LEMMA Taken ==
  ASSUME TypeOK, outPipe # <<>>, outPipe' = Tail(outPipe)
  PROVE  /\ outPipe' \in Seq(Frames) /\ Len(outPipe) \in Nat /\ Len(outPipe') = Len(outPipe) - 1
         /\ Front = outPipe[1] /\ 1 \in 1..Len(outPipe) /\ Front \in Frames
         /\ \A i \in 1..Len(outPipe') : i + 1 \in 1..Len(outPipe) /\ outPipe'[i] = outPipe[i + 1]
  BY DEF TypeOK, Front

\* Writing adds one frame behind the others.
LEMMA Emitted ==
  ASSUME TypeOK, NEW f \in Frames, Len(outPipe) < Room, Emit(f)
  PROVE  /\ outPipe' \in Seq(Frames) /\ Len(outPipe) \in Nat /\ Len(outPipe') = Len(outPipe) + 1
         /\ Len(outPipe') <= Room
         /\ \A i \in 1..Len(outPipe') :
              \/ i \in 1..Len(outPipe) /\ outPipe'[i] = outPipe[i]
              \/ i = Len(outPipe') /\ outPipe'[i] = f
  BY TuiRpcAssumption DEF TypeOK, Emit

\* What that means for the answers on their way.
LEMMA AnswersTaken ==
  ASSUME TypeOK, outPipe # <<>>, outPipe' = Tail(outPipe)
  PROVE  \A i : IsReply(i)' =>
           i \in 1..Len(outPipe') /\ i + 1 # 1 /\ IsReply(i + 1) /\ outPipe'[i] = outPipe[i + 1]
  BY Taken DEF IsReply

LEMMA AnswersEmitted ==
  ASSUME TypeOK, NEW f \in Frames, Len(outPipe) < Room, Emit(f)
  PROVE  \A i : IsReply(i)' =>
           \/ IsReply(i) /\ outPipe'[i] = outPipe[i]
           \/ i = Len(outPipe') /\ outPipe'[i] = f /\ f.kind = "reply"
  BY Emitted DEF IsReply

LEMMA NobodySays == Nobody \in Says
  BY TuiRpcAssumption DEF Nobody

LEMMA FramesAreFrames ==
  ASSUME NEW kind \in {"ready", "event", "reply", "junk"}, NEW id \in 0..MaxCalls, NEW s \in Says
  PROVE  /\ Frame(kind, id, s) \in Frames
         /\ Frame(kind, id, s).kind = kind /\ Frame(kind, id, s).id = id /\ Frame(kind, id, s).says = s
  BY DEF Frame, Frames

\* The pipe to the gateway holds one part at most.
LEMMA OnePart ==
  ASSUME NEW S, NEW x \in S
  PROVE  <<x>> \in Seq(S) /\ Len(<<x>>) = 1 /\ Head(<<x>>) = x /\ <<x>> # <<>>
  OBVIOUS

LEMMA NoPart ==
  ASSUME NEW S, NEW s \in Seq(S), Len(s) <= 1, s # <<>>
  PROVE  Tail(s) = <<>> /\ Head(s) \in S
  OBVIOUS

\* What reading a part comes to: the end of a frame, its beginning, or garbage.
LEMMA Reading ==
  ASSUME TypeOK, GatewayReads
  PROVE  /\ inPipe # <<>> /\ inPipe' = <<>> /\ Part[1] \in Ids /\ Part[2] \in BOOLEAN
         /\ \/ /\ held \in {0, Part[1]} /\ Part[2] /\ held' = 0
               /\ accepted' = accepted \cup {Part[1]} /\ outPipe' = outPipe
            \/ /\ held \in {0, Part[1]} /\ ~ Part[2] /\ held' = Part[1]
               /\ accepted' = accepted /\ outPipe' = outPipe
            \/ /\ held \notin {0, Part[1]} /\ held' = 0
               /\ accepted' = accepted /\ Emit(Frame("junk", 0, Nobody)) /\ CanEmit
<1>1. inPipe # <<>> /\ inPipe' = Tail(inPipe) /\ CanEmit
  BY DEF GatewayReads
<1>2. inPipe' = <<>> /\ Part \in Ids \X BOOLEAN
  BY <1>1, NoPart DEF TypeOK, Part
<1>3. Part[1] \in Ids /\ Part[2] \in BOOLEAN
  BY <1>2
<1> QED
  BY <1>1, <1>2, <1>3, Zenon DEF GatewayReads, Part

LEMMA Initially == Init => Inv
<1> SUFFICES ASSUME Init PROVE Inv
  OBVIOUS
<1> USE TuiRpcAssumption DEF Init
<1>1. TypeOK
  <2>1. inPipe \in Seq(Ids \X BOOLEAN) /\ Len(inPipe) <= 1
    OBVIOUS
  <2>2. outPipe \in Seq(Frames) /\ Len(outPipe) <= Room
    OBVIOUS
  <2>3. /\ call \in 0..MaxCalls /\ held \in 0..MaxCalls /\ unsent \in 0..2 /\ nextId \in 1..(MaxCalls + 1)
        /\ events \in 0..MaxEvents /\ faults \in 0..MaxFaults
    OBVIOUS
  <2>4. abandoned \subseteq Ids /\ answered \subseteq Ids /\ accepted \subseteq Ids /\ replied \subseteq Ids
    OBVIOUS
  <2> QED
    BY <2>1, <2>2, <2>3, <2>4, Zenon DEF TypeOK, Waiting
<1>2. Len(outPipe) = 0
  OBVIOUS
<1> QED
  <2>1. Correlated /\ Framed
    BY <1>1, <1>2 DEF Correlated, CallsMatch, AnswersMatch, Framed
  <2>2. Honest
    BY <1>1, <1>2 DEF Honest, Lives, Clean, Awaited, InUse, Expected, IsReply
  <2> QED
    BY <1>1, <2>1, <2>2 DEF Inv, Base

-----------------------------------------------------------------------------
(* Types *)

LEMMA ReadersKeepTypes ==
  ASSUME TypeOK, Correlated, Drain \/ DropLate \/ TakeEvent \/ TakeReady \/ TakeAnswer \/ Refuse
  PROVE  TypeOK'
<1> USE TuiRpcAssumption DEF client, host, Return, Waiting
<1>1. outPipe # <<>> /\ outPipe' = Tail(outPipe)
  BY DEF DropLate, TakeEvent, TakeReady, TakeAnswer, Refuse, Drain, Reads
<1>2. outPipe' \in Seq(Frames) /\ Len(outPipe') <= Room
  BY <1>1, Taken, TuiRpcAssumption DEF TypeOK
<1>3. CASE Drain \/ TakeEvent
  BY <1>2, <1>3 DEF TypeOK, Drain, TakeEvent
<1>4. CASE DropLate
  <2>1. abandoned' \subseteq Ids
    BY <1>4 DEF TypeOK, DropLate
  <2> QED
    BY <1>2, <1>4, <2>1 DEF TypeOK, DropLate
<1>5. CASE TakeReady
  BY <1>2, <1>5 DEF TypeOK, TakeReady
<1>6. CASE Refuse
  BY <1>2, <1>6 DEF TypeOK, Refuse
<1>7. CASE TakeAnswer
  <2>1. call \in Ids
    BY <1>7 DEF TypeOK, Correlated, CallsMatch, TakeAnswer, Ids
  <2>2. answered' \subseteq Ids /\ error' \in {"none", "remote"}
    BY <1>7, <2>1 DEF TypeOK, TakeAnswer
  <2> QED
    BY <1>2, <1>7, <2>2 DEF TypeOK, TakeAnswer
<1> QED
  BY <1>3, <1>4, <1>5, <1>6, <1>7

LEMMA ClientKeepsTypes == ASSUME TypeOK, Correlated, Framed, Client PROVE TypeOK'
<1> USE TuiRpcAssumption DEF client, host, pipes, Return, Waiting
<1>1. CASE CallTooLate \/ Close \/ Reap \/ Escalate
  BY <1>1 DEF TypeOK, CallTooLate, Close, Reap, Escalate
<1>2. ASSUME NEW parts \in {1, 2}, Call(parts) PROVE TypeOK'
  BY <1>2 DEF TypeOK, Call
<1>3. CASE Write
  <2>1. call \in Ids /\ unsent \in 1..2
    BY <1>3 DEF TypeOK, Correlated, CallsMatch, Framed, Write, Ids
  <2>2. inPipe' \in Seq(Ids \X BOOLEAN) /\ Len(inPipe') <= 1
    <3>1. <<call, unsent = 1>> \in Ids \X BOOLEAN
      BY <2>1
    <3>2. inPipe' = <<<<call, unsent = 1>>>>
      BY <1>3 DEF Write
    <3> QED
      BY <3>1, <3>2, OnePart
  <2>3. phase' \in Waiting /\ unsent' \in 0..2
    BY <1>3, <2>1 DEF Write
  <2>4. /\ call' = call /\ nextId' = nextId /\ abandoned' = abandoned /\ answered' = answered
        /\ error' = error /\ stdin' = stdin /\ outPipe' = outPipe /\ signal' = signal /\ faults' = faults
        /\ held' = held /\ accepted' = accepted /\ replied' = replied /\ events' = events
        /\ gateway' = gateway /\ broken' = broken
    BY <1>3 DEF Write
  <2> QED
    BY <2>2, <2>3, <2>4, Zenon DEF TypeOK
<1>4. CASE WriteFails \/ EndOfOutput
  BY <1>4 DEF TypeOK, WriteFails, EndOfOutput
<1>5. CASE TimeOut
  BY <1>5 DEF TypeOK, TimeOut, Ids
<1>6. CASE Drain \/ DropLate \/ TakeEvent \/ TakeReady \/ TakeAnswer \/ Refuse
  BY <1>6, ReadersKeepTypes
<1> QED
  BY <1>1, <1>2, <1>3, <1>4, <1>5, <1>6 DEF Client, Reader

LEMMA GatewayKeepsTypes == ASSUME TypeOK, Gateway PROVE TypeOK'
<1> USE TuiRpcAssumption DEF client, host, pipes, Fault
<1>1. CASE GatewayHangs \/ GatewayExits \/ GatewayIsKilled
  BY <1>1 DEF TypeOK, GatewayHangs, GatewayExits, GatewayIsKilled
<1>2. CASE GatewayReady
  <2>1. outPipe' \in Seq(Frames) /\ Len(outPipe') <= Room
    BY <1>2, FramesAreFrames, NobodySays, Emitted DEF CanEmit, GatewayReady
  <2> QED
    BY <1>2, <2>1 DEF TypeOK, GatewayReady
<1>3. CASE GatewayReads
  <2>1. inPipe' \in Seq(Ids \X BOOLEAN) /\ Len(inPipe') <= 1
    BY <1>3, Reading
  <2>2. outPipe' \in Seq(Frames) /\ Len(outPipe') <= Room
    BY <1>3, Reading, FramesAreFrames, NobodySays, Emitted DEF CanEmit, TypeOK
  <2>3. held' \in 0..MaxCalls /\ accepted' \subseteq Ids
    <3>1. held' = 0 \/ held' = Part[1]
      BY <1>3, Reading, Zenon
    <3>2. accepted' = accepted \/ accepted' = accepted \cup {Part[1]}
      BY <1>3, Reading, Zenon
    <3>3. Part[1] \in Ids
      BY <1>3, Reading, Zenon
    <3>4. accepted \subseteq Ids
      BY DEF TypeOK
    <3>5. held' \in 0..MaxCalls
      BY <3>1, <3>3 DEF Ids
    <3> QED
      BY <3>2, <3>3, <3>4, <3>5
  <2> QED
    <3>1. /\ phase' = phase /\ call' = call /\ unsent' = unsent /\ nextId' = nextId
          /\ abandoned' = abandoned /\ answered' = answered /\ error' = error /\ stdin' = stdin
          /\ replied' = replied /\ events' = events /\ gateway' = gateway /\ broken' = broken
          /\ signal' = signal /\ faults' = faults
      BY <1>3 DEF GatewayReads
    <3> QED
      BY <2>1, <2>2, <2>3, <3>1, Zenon DEF TypeOK
<1>4. ASSUME NEW id \in Ids, NEW s \in Says, GatewayReplies(id, s) PROVE TypeOK'
  <2>1. outPipe' \in Seq(Frames) /\ Len(outPipe') <= Room
    <3>1. id \in 0..MaxCalls
      BY DEF Ids
    <3> QED
      BY <1>4, <3>1, FramesAreFrames, Emitted DEF CanEmit, GatewayReplies
  <2> QED
    BY <1>4, <2>1 DEF TypeOK, GatewayReplies
<1>5. ASSUME NEW s \in Says, GatewayEmits(s) PROVE TypeOK'
  <2>1. outPipe' \in Seq(Frames) /\ Len(outPipe') <= Room
    BY <1>5, FramesAreFrames, NobodySays, Emitted DEF CanEmit, GatewayEmits
  <2> QED
    BY <1>5, <2>1 DEF TypeOK, GatewayEmits
<1>6. CASE GatewayMisbehaves
  <2>1. outPipe' \in Seq(Frames) /\ Len(outPipe') <= Room
    BY <1>6, FramesAreFrames, NobodySays, Emitted DEF CanEmit, GatewayMisbehaves, TypeOK, Ids
  <2> QED
    BY <1>6, <2>1 DEF TypeOK, GatewayMisbehaves
<1>7. CASE GatewayDies
  <2>1. outPipe' \in Seq(Frames) /\ Len(outPipe') <= Room
    BY <1>7, FramesAreFrames, NobodySays DEF GatewayDies, TypeOK
  <2> QED
    BY <1>7, <2>1 DEF TypeOK, GatewayDies
<1> QED
  BY <1>1, <1>2, <1>3, <1>4, <1>5, <1>6, <1>7 DEF Gateway

-----------------------------------------------------------------------------
(* Correlation *)

LEMMA CallsStep == ASSUME Base, Next PROVE CallsMatch'
<1> USE DEF client, host, pipes, Return
<1>0. TypeOK /\ CallsMatch /\ AnswersMatch
  BY DEF Base, Correlated
<1>1. CASE CallTooLate \/ Close \/ Reap \/ Escalate \/ WriteFails \/ EndOfOutput \/ TimeOut
  BY <1>0, <1>1
  DEF CallsMatch, Part, CallTooLate, Close, Reap, Escalate, WriteFails, EndOfOutput, TimeOut
<1>2. ASSUME NEW parts \in {1, 2}, Call(parts) PROVE CallsMatch'
  <2>1. /\ nextId \in Nat \ {0} /\ nextId' = nextId + 1 /\ phase = "idle"
        /\ UNCHANGED <<answered, replied, accepted, inPipe>>
    BY <1>0, <1>2, TuiRpcAssumption DEF Call, TypeOK
  <2>2. /\ \A c \in accepted : c \in Nat /\ c < nextId'
        /\ inPipe' # <<>> => Part'[1] < nextId'
    <3>1. inPipe # <<>> => Part[1] \in Nat
      BY <1>0, NoPart, TuiRpcAssumption DEF TypeOK, Part, Ids
    <3> QED
      BY <1>0, <2>1, <3>1, TuiRpcAssumption DEF CallsMatch, TypeOK, Ids, Part
  <2>3. nextId \notin answered
    BY <1>0, <2>1, <2>2 DEF CallsMatch
  <2>4. \/ call' = 0 /\ phase' = "idle"
        \/ call' = nextId /\ phase' = "writing"
    BY <1>2 DEF Call
  <2> QED
    BY <1>0, <2>1, <2>2, <2>3, <2>4 DEF CallsMatch
<1>3. CASE Write
  <2>1. Part'[1] = call /\ inPipe' # <<>> /\ call # 0
    BY <1>0, <1>3 DEF Part, Write, CallsMatch
  <2> QED
    BY <1>0, <1>3, <2>1 DEF CallsMatch, Write, TypeOK
<1>4. CASE Drain \/ DropLate \/ TakeEvent \/ TakeReady \/ Refuse
  BY <1>0, <1>4 DEF CallsMatch, Part, Drain, DropLate, TakeEvent, TakeReady, Refuse
<1>5. CASE TakeAnswer
  <2>1. call \in replied
    <3>1. IsReply(1) /\ outPipe[1].id = call
      BY <1>0, <1>5, Taken DEF TakeAnswer, IsReply, Reads
    <3> QED
      BY <1>0, <3>1 DEF AnswersMatch, IsReply
  <2> QED
    BY <1>0, <1>5, <2>1 DEF CallsMatch, Part, TakeAnswer
<1>6. CASE GatewayReads
  BY <1>0, <1>6, Reading DEF CallsMatch, GatewayReads
<1>7. ASSUME NEW id \in Ids, NEW s \in Says, GatewayReplies(id, s) PROVE CallsMatch'
  BY <1>0, <1>7 DEF CallsMatch, Part, GatewayReplies
<1>8. ASSUME NEW s \in Says, GatewayEmits(s) PROVE CallsMatch'
  BY <1>0, <1>8 DEF CallsMatch, Part, GatewayEmits
<1>9. CASE GatewayReady \/ GatewayMisbehaves \/ GatewayHangs \/ GatewayDies \/ GatewayExits \/ GatewayIsKilled
  BY <1>0, <1>9 DEF CallsMatch, Part, GatewayReady, GatewayMisbehaves, GatewayHangs, GatewayDies,
                    GatewayExits, GatewayIsKilled
<1> QED
  BY <1>1, <1>2, <1>3, <1>4, <1>5, <1>6, <1>7, <1>8, <1>9 DEF Next, Client, Reader, Gateway

LEMMA AnswersStep == ASSUME Base, Next PROVE AnswersMatch'
<1> USE DEF client, host, pipes, Return
<1>0. TypeOK /\ AnswersMatch
  BY DEF Base, Correlated
<1>1. CASE outPipe' = outPipe /\ replied \subseteq replied'
  BY <1>0, <1>1 DEF AnswersMatch, IsReply
<1>2. CASE outPipe # <<>> /\ outPipe' = Tail(outPipe) /\ replied' = replied
  BY <1>0, <1>2, AnswersTaken DEF AnswersMatch, IsReply
<1>3. ASSUME NEW f \in Frames, Len(outPipe) < Room, Emit(f), replied \subseteq replied',
             f.kind = "reply" => f.id \in replied'
      PROVE  AnswersMatch'
  BY <1>0, <1>3, AnswersEmitted DEF AnswersMatch, IsReply
<1>4. CASE GatewayReads
  <2>1. replied' = replied
    BY <1>4 DEF GatewayReads
  <2>2. CASE outPipe' = outPipe
    BY <1>1, <2>1, <2>2
  <2>3. CASE Emit(Frame("junk", 0, Nobody)) /\ CanEmit
    BY <1>3, <2>1, <2>3, FramesAreFrames, NobodySays, TuiRpcAssumption DEF CanEmit
  <2> QED
    BY <1>0, <1>4, <2>2, <2>3, Reading, Zenon
<1>5. ASSUME NEW id \in Ids, NEW s \in Says, GatewayReplies(id, s) PROVE AnswersMatch'
  <2>1. Frame("reply", id, s) \in Frames /\ Frame("reply", id, s).id = id
    BY FramesAreFrames, NobodySays, TuiRpcAssumption DEF Ids
  <2> QED
    BY <1>3, <1>5, <2>1 DEF GatewayReplies, CanEmit
<1>6. ASSUME NEW s \in Says, GatewayEmits(s) PROVE AnswersMatch'
  BY <1>3, <1>6, FramesAreFrames, NobodySays, TuiRpcAssumption DEF GatewayEmits, CanEmit
<1>7. CASE GatewayReady
  BY <1>3, <1>7, FramesAreFrames, NobodySays, TuiRpcAssumption DEF GatewayReady, CanEmit
<1>8. CASE GatewayMisbehaves
  <2>1. CASE Emit(Frame("junk", 0, Nobody))
    BY <1>3, <1>8, <2>1, FramesAreFrames, NobodySays, TuiRpcAssumption DEF GatewayMisbehaves, CanEmit
  <2>2. ASSUME NEW id \in replied, Emit(Frame("reply", id, Nobody)) PROVE AnswersMatch'
    <3>1. id \in 0..MaxCalls
      BY <1>0 DEF TypeOK, Ids
    <3>2. Frame("reply", id, Nobody) \in Frames /\ Frame("reply", id, Nobody).id = id
      BY <3>1, FramesAreFrames, NobodySays
    <3>3. replied' = replied /\ Len(outPipe) < Room
      BY <1>8 DEF GatewayMisbehaves, CanEmit
    <3>4. id \in replied' /\ replied \subseteq replied'
      BY <3>3, <2>2
    <3> QED
      BY <1>3, <2>2, <3>2, <3>3, <3>4, Zenon
  <2> QED
    BY <1>8, <2>1, <2>2 DEF GatewayMisbehaves, CanEmit
<1>9. CASE GatewayDies
  <2>1. CASE Len(outPipe) < Room /\ outPipe' = Append(outPipe, Frame("junk", 0, Nobody))
    BY <1>3, <1>9, <2>1, FramesAreFrames, NobodySays, TuiRpcAssumption DEF GatewayDies, Emit
  <2> QED
    BY <1>1, <1>9, <2>1 DEF GatewayDies
<1>10. CASE GatewayHangs \/ GatewayExits \/ GatewayIsKilled
  BY <1>1, <1>10 DEF GatewayHangs, GatewayExits, GatewayIsKilled
<1>11. CASE Drain \/ DropLate \/ TakeEvent \/ TakeReady \/ TakeAnswer \/ Refuse
  BY <1>2, <1>11 DEF Drain, DropLate, TakeEvent, TakeReady, TakeAnswer, Refuse, Reads
<1>12. CASE CallTooLate \/ Close \/ Reap \/ Escalate \/ WriteFails \/ EndOfOutput \/ TimeOut \/ Write
  BY <1>1, <1>12 DEF CallTooLate, Close, Reap, Escalate, WriteFails, EndOfOutput, TimeOut, Write
<1>13. ASSUME NEW parts \in {1, 2}, Call(parts) PROVE AnswersMatch'
  BY <1>1, <1>13 DEF Call
<1> QED
  BY <1>4, <1>5, <1>6, <1>7, <1>8, <1>9, <1>10, <1>11, <1>12, <1>13 DEF Next, Client, Reader, Gateway

-----------------------------------------------------------------------------
(* Framing *)

LEMMA FramedStep == ASSUME Base, Next PROVE Framed'
<1> USE DEF client, host, pipes, Return
<1>0. TypeOK /\ CallsMatch /\ Framed
  BY DEF Base, Correlated
<1>1. CASE CallTooLate \/ Close \/ Reap \/ Escalate
  BY <1>0, <1>1 DEF Framed, CallsMatch, Part, CallTooLate, Close, Reap, Escalate
<1>2. ASSUME NEW parts \in {1, 2}, Call(parts) PROVE Framed'
  <2>1. call = 0 /\ phase = "idle" /\ UNCHANGED <<stdin, inPipe, held, accepted>>
    BY <1>0, <1>2 DEF CallsMatch, Call
  <2>2. \/ phase' = "idle" /\ call' = 0
        \/ phase' = "writing" /\ call' = nextId /\ unsent' # 0 /\ stdin = "open"
    BY <1>2 DEF Call
  <2>3. nextId \notin accepted /\ (inPipe # <<>> => Part[1] # nextId)
    <3>1. inPipe # <<>> => Part[1] \in Nat
      BY <1>0, NoPart, TuiRpcAssumption DEF TypeOK, Part, Ids
    <3> QED
      BY <1>0, <3>1, TuiRpcAssumption DEF CallsMatch, TypeOK, Ids
  <2> QED
    BY <1>0, <2>1, <2>2, <2>3 DEF Framed, Part
<1>3. CASE Write
  <2>1. /\ inPipe' # <<>> /\ Part'[1] = call /\ Part'[2] = (unsent = 1) /\ inPipe = <<>>
        /\ UNCHANGED <<call, stdin, held, accepted>>
    BY <1>3 DEF Part, Write
  <2>2. /\ phase = "writing" /\ stdin = "open" /\ held \in {0, call} /\ call \notin accepted
        /\ unsent \in 1..2
    BY <1>0, <1>3 DEF Framed, Write, TypeOK
  <2>3. \/ phase' = "calling" /\ Part'[2]
        \/ phase' = "writing" /\ unsent' = 1 /\ ~ Part'[2]
    <3>1. CASE unsent = 1
      BY <1>3, <2>1, <3>1 DEF Write
    <3>2. CASE unsent = 2
      <4>1. (unsent = 1) = FALSE
        BY <3>2
      <4>2. ~ Part'[2]
        BY <2>1, <4>1, Zenon
      <4> QED
        BY <1>3, <3>2, <4>2 DEF Write
    <3> QED
      BY <2>2, <3>1, <3>2
  <2>4. CASE phase' = "calling" /\ Part'[2]
    BY <2>1, <2>2, <2>4 DEF Framed
  <2>5. CASE phase' = "writing" /\ unsent' = 1 /\ ~ Part'[2]
    BY <2>1, <2>2, <2>5 DEF Framed
  <2> QED
    BY <2>3, <2>4, <2>5
<1>4. CASE WriteFails \/ EndOfOutput \/ TimeOut
  BY <1>0, <1>4 DEF Framed, CallsMatch, Part, WriteFails, EndOfOutput, TimeOut
<1>5. CASE Drain \/ DropLate \/ TakeEvent
  BY <1>0, <1>5 DEF Framed, Part, Drain, DropLate, TakeEvent
<1>6. CASE TakeReady \/ TakeAnswer \/ Refuse
  BY <1>0, <1>6 DEF Framed, CallsMatch, Part, TakeReady, TakeAnswer, Refuse, Reads
<1>7. CASE GatewayReads
  <2>1. UNCHANGED <<phase, stdin, unsent, call>>
    BY <1>7 DEF GatewayReads
  <2> QED
    BY <1>0, <1>7, <2>1, Reading DEF Framed
<1>8. ASSUME NEW id \in Ids, NEW s \in Says, GatewayReplies(id, s) PROVE Framed'
  BY <1>0, <1>8 DEF Framed, Part, GatewayReplies
<1>9. ASSUME NEW s \in Says, GatewayEmits(s) PROVE Framed'
  BY <1>0, <1>9 DEF Framed, Part, GatewayEmits
<1>10. CASE GatewayReady \/ GatewayMisbehaves \/ GatewayHangs \/ GatewayDies \/ GatewayExits \/ GatewayIsKilled
  BY <1>0, <1>10 DEF Framed, Part, GatewayReady, GatewayMisbehaves, GatewayHangs, GatewayDies,
                     GatewayExits, GatewayIsKilled
<1> QED
  BY <1>1, <1>2, <1>3, <1>4, <1>5, <1>6, <1>7, <1>8, <1>9, <1>10 DEF Next, Client, Reader, Gateway

-----------------------------------------------------------------------------
(* An honest gateway *)

\* Nothing that it says is refused: an answer is to the call being made, or late.
LEMMA NeverRefused == ASSUME Inv, ~ broken PROVE ~ Refuse
<1> SUFFICES ASSUME Refuse PROVE FALSE
  OBVIOUS
<1>0. TypeOK /\ CallsMatch /\ Clean /\ Awaited
  BY DEF Inv, Base, Correlated, Honest
<1>1. /\ outPipe # <<>> /\ phase \in {"starting", "idle", "calling"} /\ ~ Late
      /\ \/ Front.kind = "junk"
         \/ Front.kind = "reply" /\ (phase = "calling" => Front.id # call)
  BY DEF Refuse, Reads
<1>2. 1 \in 1..Len(outPipe) /\ Front = outPipe[1] /\ outPipe' = Tail(outPipe)
  BY <1>0, <1>1, Taken DEF Refuse
<1>3. Front.kind = "reply"
  BY <1>0, <1>1, <1>2 DEF Clean
<1>4. Front.id \in Expected
  BY <1>0, <1>1, <1>2, <1>3 DEF Awaited, IsReply, InUse
<1> QED
  BY <1>1, <1>3, <1>4 DEF Expected, Late

LEMMA LivesStep == ASSUME Inv, Next PROVE Lives'
<1> USE DEF client, host, pipes, Return
<1>0. TypeOK /\ CallsMatch /\ Framed /\ Lives /\ broken \in BOOLEAN
  BY DEF Inv, Base, Correlated, Honest, TypeOK
<1>1. CASE CallTooLate \/ Write \/ WriteFails \/ DropLate \/ TakeEvent \/ TakeReady \/ TakeAnswer \/ TimeOut
  BY <1>0, <1>1 DEF Lives, InUse, CallTooLate, Write, WriteFails, DropLate, TakeEvent, TakeReady,
                    TakeAnswer, TimeOut, Reads
<1>2. ASSUME NEW parts \in {1, 2}, Call(parts) PROVE Lives'
  BY <1>0, <1>2 DEF Lives, InUse, Call
<1>3. CASE Refuse
  <2>1. broken
    BY <1>3, NeverRefused
  <2> QED
    BY <1>0, <1>3, <2>1 DEF Lives, InUse, Refuse, Reads
<1>4. CASE EndOfOutput
  BY <1>0, <1>4 DEF Lives, InUse, EndOfOutput, Framed
<1>5. CASE Close \/ Drain \/ Reap \/ Escalate
  BY <1>0, <1>5 DEF Lives, InUse, Close, Drain, Reap, Escalate
<1>6. CASE GatewayReads
  BY <1>0, <1>6 DEF Lives, InUse, GatewayReads
<1>7. ASSUME NEW id \in Ids, NEW s \in Says, GatewayReplies(id, s) PROVE Lives'
  BY <1>0, <1>7 DEF Lives, InUse, GatewayReplies
<1>8. ASSUME NEW s \in Says, GatewayEmits(s) PROVE Lives'
  BY <1>0, <1>8 DEF Lives, InUse, GatewayEmits
<1>9. CASE GatewayReady \/ GatewayMisbehaves \/ GatewayHangs \/ GatewayDies \/ GatewayExits \/ GatewayIsKilled
  BY <1>0, <1>9 DEF Lives, InUse, GatewayReady, GatewayMisbehaves, GatewayHangs, GatewayDies,
                    GatewayExits, GatewayIsKilled
<1> QED
  BY <1>1, <1>2, <1>3, <1>4, <1>5, <1>6, <1>7, <1>8, <1>9 DEF Next, Client, Reader, Gateway

LEMMA CleanStep == ASSUME Inv, Next PROVE Clean'
<1> USE DEF client, host, pipes, Return
<1>0. TypeOK /\ Clean /\ AnswersMatch /\ broken \in BOOLEAN
  BY DEF Inv, Base, Correlated, Honest, TypeOK
<1>1. CASE broken'
  BY <1>1 DEF Clean
<1>2. CASE ~ broken /\ outPipe' = outPipe
  BY <1>0, <1>2 DEF Clean, IsReply
<1>3. CASE ~ broken /\ outPipe # <<>> /\ outPipe' = Tail(outPipe)
  <2>1. \A i \in 1..Len(outPipe') : outPipe'[i].kind # "junk"
    BY <1>0, <1>3, Taken DEF Clean
  <2>2. ASSUME NEW i \in 1..Len(outPipe'), NEW j \in 1..Len(outPipe'),
               IsReply(i)', IsReply(j)', outPipe'[i].id = outPipe'[j].id
        PROVE  i = j
    <3>1. i + 1 = j + 1
      BY <1>0, <1>3, <2>2, AnswersTaken DEF Clean, IsReply
    <3> QED
      BY <3>1
  <2> QED
    BY <2>1, <2>2 DEF Clean
\* A frame that is no answer, or the first answer to its call.
<1>4. ASSUME ~ broken, NEW f \in Frames, Len(outPipe) < Room, Emit(f), f.kind # "junk",
             f.kind = "reply" => f.id \notin replied
      PROVE  Clean'
  <2>1. \A i \in 1..Len(outPipe') : outPipe'[i].kind # "junk"
    BY <1>0, <1>4, Emitted DEF Clean
  <2>2. ASSUME NEW i \in 1..Len(outPipe'), NEW j \in 1..Len(outPipe'),
               IsReply(i)', IsReply(j)', outPipe'[i].id = outPipe'[j].id
        PROVE  i = j
    <3>1. \A k : IsReply(k) => outPipe[k].id \in replied
      BY <1>0 DEF AnswersMatch, IsReply
    <3> QED
      BY <1>0, <1>4, <2>2, <3>1, AnswersEmitted DEF Clean, IsReply
  <2> QED
    BY <2>1, <2>2 DEF Clean
<1>5. CASE GatewayReads
  <2>1. held \in {0, Part[1]} /\ broken' = broken
    BY <1>0, <1>5, Reading DEF Inv, Base, Framed, GatewayReads
  <2>2. outPipe' = outPipe
    BY <1>0, <1>5, <2>1, Reading
  <2> QED
    BY <1>0, <1>1, <1>2, <2>1, <2>2
<1>6. ASSUME NEW id \in Ids, NEW s \in Says, GatewayReplies(id, s) PROVE Clean'
  <2>1. id \in 0..MaxCalls /\ broken' = broken
    BY <1>6 DEF Ids, GatewayReplies
  <2>2. Frame("reply", id, s) \in Frames /\ Frame("reply", id, s).id = id
        /\ Frame("reply", id, s).kind = "reply"
    BY <2>1, FramesAreFrames
  <2> QED
    BY <1>0, <1>1, <1>4, <1>6, <2>1, <2>2 DEF GatewayReplies, CanEmit
<1>7. ASSUME NEW s \in Says, GatewayEmits(s) PROVE Clean'
  BY <1>0, <1>1, <1>4, <1>7, FramesAreFrames, TuiRpcAssumption DEF GatewayEmits, CanEmit
<1>8. CASE GatewayReady
  BY <1>0, <1>1, <1>4, <1>8, FramesAreFrames, NobodySays, TuiRpcAssumption DEF GatewayReady, CanEmit
<1>9. CASE GatewayMisbehaves \/ GatewayDies
  BY <1>1, <1>9 DEF GatewayMisbehaves, GatewayDies
<1>10. CASE GatewayHangs \/ GatewayExits \/ GatewayIsKilled
  BY <1>0, <1>1, <1>2, <1>10 DEF GatewayHangs, GatewayExits, GatewayIsKilled
<1>11. CASE Drain \/ DropLate \/ TakeEvent \/ TakeReady \/ TakeAnswer \/ Refuse
  BY <1>0, <1>1, <1>3, <1>11 DEF Drain, DropLate, TakeEvent, TakeReady, TakeAnswer, Refuse, Reads
<1>12. CASE CallTooLate \/ Close \/ Reap \/ Escalate \/ WriteFails \/ EndOfOutput \/ TimeOut \/ Write
  BY <1>0, <1>1, <1>2, <1>12
  DEF CallTooLate, Close, Reap, Escalate, WriteFails, EndOfOutput, TimeOut, Write
<1>13. ASSUME NEW parts \in {1, 2}, Call(parts) PROVE Clean'
  BY <1>0, <1>1, <1>2, <1>13 DEF Call
<1> QED
  BY <1>5, <1>6, <1>7, <1>8, <1>9, <1>10, <1>11, <1>12, <1>13 DEF Next, Client, Reader, Gateway

\* With the answer to a call the last is heard of that call.
LEMMA LastOfIt ==
  ASSUME Inv, ~ broken, InUse, outPipe # <<>>, outPipe' = Tail(outPipe), Front.kind = "reply",
         NEW S, Expected \subseteq S \cup {Front.id}
  PROVE  /\ accepted \ replied \subseteq S
         /\ \A i : IsReply(i)' => outPipe'[i].id \in S
         /\ inPipe # <<>> /\ Part[2] => Part[1] \in S
<1>0. TypeOK /\ CallsMatch /\ AnswersMatch /\ Framed /\ Clean /\ Awaited
  BY DEF Inv, Base, Correlated, Honest
<1>1. IsReply(1) /\ Front = outPipe[1] /\ 1 \in 1..Len(outPipe)
  BY <1>0, Taken DEF IsReply
<1>2. Front.id \in replied /\ Front.id \in accepted
  BY <1>0, <1>1 DEF AnswersMatch, CallsMatch
<1>3. accepted \ replied \subseteq S
  BY <1>0, <1>2 DEF Awaited
<1>4. inPipe # <<>> /\ Part[2] => Part[1] \in S
  BY <1>0, <1>2 DEF Awaited, Framed
<1>5. ASSUME NEW i, IsReply(i)' PROVE outPipe'[i].id \in S
  <2>1. IsReply(i + 1) /\ i + 1 # 1 /\ outPipe'[i] = outPipe[i + 1] /\ i + 1 \in 1..Len(outPipe)
    BY <1>0, <1>5, AnswersTaken DEF IsReply
  <2>2. outPipe[i + 1].id # Front.id
    BY <1>0, <1>1, <2>1 DEF Clean
  <2>3. outPipe[i + 1].id \in Expected
    BY <1>0, <2>1 DEF Awaited
  <2> QED
    BY <2>1, <2>2, <2>3
<1> QED
  BY <1>3, <1>4, <1>5

LEMMA AwaitedStep == ASSUME Inv, Next PROVE Awaited'
<1> USE DEF client, host, pipes, Return
<1>0. TypeOK /\ CallsMatch /\ AnswersMatch /\ Framed /\ Lives /\ Clean /\ Awaited /\ broken \in BOOLEAN
  BY DEF Inv, Base, Correlated, Honest, TypeOK
<1>1. CASE broken' \/ ~ InUse'
  BY <1>1 DEF Awaited
\* What may still come is as before, or less, and nobody stops waiting for it.
<1>2. ASSUME ~ broken, InUse, Expected \subseteq Expected', accepted' = accepted, replied \subseteq replied',
             \A i : IsReply(i)' => \E j \in 1..Len(outPipe) : IsReply(j) /\ outPipe'[i].id = outPipe[j].id,
             inPipe' # <<>> /\ Part'[2] => Part'[1] \in Expected'
      PROVE  Awaited'
  <2>1. \A j \in 1..Len(outPipe) : IsReply(j) => outPipe[j].id \in Expected'
    BY <1>0, <1>2 DEF Awaited
  <2>2. accepted' \ replied' \subseteq Expected'
    BY <1>0, <1>2 DEF Awaited
  <2> QED
    BY <1>2, <2>1, <2>2 DEF Awaited
<1>3. CASE CallTooLate \/ WriteFails \/ TimeOut
  <2>1. /\ Expected \subseteq Expected' /\ InUse /\ broken' = broken
        /\ UNCHANGED <<accepted, replied, outPipe, inPipe>>
    BY <1>0, <1>3 DEF CallsMatch, Expected, InUse, CallTooLate, WriteFails, TimeOut
  <2> QED
    BY <1>0, <1>1, <1>2, <2>1 DEF Awaited, IsReply, Part
<1>4. ASSUME NEW parts \in {1, 2}, Call(parts) PROVE Awaited'
  <2>1. /\ Expected \subseteq Expected' /\ InUse /\ broken' = broken
        /\ UNCHANGED <<accepted, replied, outPipe, inPipe>>
    BY <1>0, <1>4 DEF Expected, InUse, Call
  <2> QED
    BY <1>0, <1>1, <1>2, <2>1 DEF Awaited, IsReply, Part
<1>5. CASE Write
  <2>1. /\ Expected \subseteq Expected' /\ InUse /\ broken' = broken
        /\ UNCHANGED <<accepted, replied, outPipe>>
    BY <1>0, <1>5 DEF Expected, InUse, Write
  <2>2. Part'[2] => Part'[1] \in Expected'
    <3>1. Part'[1] = call /\ Part'[2] = (unsent = 1)
      BY <1>5 DEF Part, Write
    <3>2. CASE unsent = 1
      BY <1>5, <3>1, <3>2 DEF Write, Expected
    <3>3. CASE unsent # 1
      BY <3>1, <3>3, Zenon
    <3> QED
      BY <3>2, <3>3
  <2> QED
    BY <1>0, <1>1, <1>2, <2>1, <2>2 DEF IsReply
<1>6. CASE EndOfOutput
  <2>1. phase = "starting" \/ broken
    BY <1>0, <1>6 DEF EndOfOutput, Framed, Lives, InUse
  <2>2. CASE phase = "starting"
    <3>1. /\ Expected \subseteq Expected' /\ InUse /\ broken' = broken
          /\ UNCHANGED <<accepted, replied, outPipe, inPipe>>
      BY <1>6, <2>2 DEF Expected, InUse, EndOfOutput
    <3> QED
      BY <1>0, <1>1, <1>2, <3>1 DEF Awaited, IsReply, Part
  <2> QED
    BY <1>1, <1>6, <2>1, <2>2 DEF EndOfOutput
<1>7. CASE DropLate \/ TakeAnswer
  <2>1. /\ outPipe # <<>> /\ outPipe' = Tail(outPipe) /\ Front.kind = "reply" /\ InUse
        /\ UNCHANGED <<accepted, replied, inPipe, broken>>
    BY <1>7 DEF DropLate, TakeAnswer, Reads, Late, InUse
  <2>2. Expected \subseteq Expected' \cup {Front.id}
    BY <1>7 DEF DropLate, TakeAnswer, Expected
  <2>3. CASE ~ broken
    <3>1. /\ accepted \ replied \subseteq Expected'
          /\ \A i : IsReply(i)' => outPipe'[i].id \in Expected'
          /\ inPipe # <<>> /\ Part[2] => Part[1] \in Expected'
      BY <2>1, <2>2, <2>3, LastOfIt
    <3> QED
      BY <2>1, <3>1 DEF Awaited, Part
  <2> QED
    BY <1>1, <2>1, <2>3
<1>8. CASE TakeEvent \/ TakeReady
  <2>1. /\ outPipe # <<>> /\ outPipe' = Tail(outPipe) /\ InUse /\ Expected \subseteq Expected'
        /\ UNCHANGED <<accepted, replied, inPipe, broken>>
    BY <1>8 DEF TakeEvent, TakeReady, Reads, InUse, Expected
  <2>2. \A i : IsReply(i)' => \E j \in 1..Len(outPipe) : IsReply(j) /\ outPipe'[i].id = outPipe[j].id
    BY <1>0, <2>1, AnswersTaken DEF IsReply
  <2> QED
    BY <1>0, <1>1, <1>2, <2>1, <2>2 DEF Awaited, Part
<1>9. CASE Refuse
  <2>1. broken /\ broken' = broken
    BY <1>9, NeverRefused DEF Refuse
  <2> QED
    BY <1>1, <2>1
<1>10. CASE Close \/ Drain \/ Reap \/ Escalate
  BY <1>1, <1>10 DEF InUse, Close, Drain, Reap, Escalate
<1>11. CASE GatewayReads
  <2>1. /\ inPipe # <<>> /\ inPipe' = <<>> /\ held \in {0, Part[1]}
        /\ UNCHANGED <<phase, call, abandoned, replied, broken>>
    BY <1>0, <1>11, Reading DEF Framed, GatewayReads
  <2>2. /\ outPipe' = outPipe
        /\ \/ Part[2] /\ accepted' = accepted \cup {Part[1]}
           \/ accepted' = accepted
    BY <1>0, <1>11, <2>1, Reading
  <2>3. Expected' = Expected /\ InUse' = InUse
    BY <2>1 DEF Expected, InUse
  <2> QED
    BY <1>0, <2>1, <2>2, <2>3 DEF Awaited, IsReply
<1>12. ASSUME NEW id \in Ids, NEW s \in Says, GatewayReplies(id, s) PROVE Awaited'
  <2>1. /\ replied' = replied \cup {id} /\ id \in accepted \ replied
        /\ UNCHANGED <<phase, call, abandoned, accepted, inPipe, broken>>
    BY <1>12 DEF GatewayReplies
  <2>2. Expected' = Expected /\ InUse' = InUse /\ Part' = Part
    BY <2>1 DEF Expected, InUse, Part
  <2>3. \A i : IsReply(i)' => outPipe'[i].id = id \/ (IsReply(i) /\ outPipe'[i] = outPipe[i])
    <3>1. id \in 0..MaxCalls
      BY DEF Ids
    <3>2. Frame("reply", id, s) \in Frames /\ Frame("reply", id, s).id = id
      BY <3>1, FramesAreFrames
    <3> QED
      BY <1>0, <1>12, <3>2, AnswersEmitted DEF GatewayReplies, CanEmit
  <2> QED
    BY <1>0, <2>1, <2>2, <2>3 DEF Awaited, IsReply
\* Frames that are no answers.
<1>13. ASSUME NEW f \in Frames, Len(outPipe) < Room, Emit(f), f.kind # "reply",
              UNCHANGED <<phase, call, abandoned, accepted, replied, inPipe, broken>>
       PROVE  Awaited'
  <2>1. Expected' = Expected /\ InUse' = InUse /\ Part' = Part
    BY <1>13 DEF Expected, InUse, Part
  <2>2. \A i : IsReply(i)' => IsReply(i) /\ outPipe'[i] = outPipe[i]
    BY <1>0, <1>13, AnswersEmitted
  <2> QED
    BY <1>0, <1>13, <2>1, <2>2 DEF Awaited, IsReply
<1>14. ASSUME NEW s \in Says, GatewayEmits(s) PROVE Awaited'
  BY <1>13, <1>14, FramesAreFrames, TuiRpcAssumption DEF GatewayEmits, CanEmit
<1>15. CASE GatewayReady
  BY <1>13, <1>15, FramesAreFrames, NobodySays, TuiRpcAssumption DEF GatewayReady, CanEmit
<1>16. CASE GatewayMisbehaves \/ GatewayDies
  BY <1>1, <1>16 DEF GatewayMisbehaves, GatewayDies
<1>17. CASE GatewayHangs \/ GatewayExits \/ GatewayIsKilled
  <2>1. UNCHANGED <<phase, call, abandoned, accepted, replied, inPipe, outPipe, broken>>
    BY <1>17 DEF GatewayHangs, GatewayExits, GatewayIsKilled
  <2> QED
    BY <1>0, <2>1 DEF Awaited, IsReply, Expected, InUse, Part
<1> QED
  BY <1>3, <1>4, <1>5, <1>6, <1>7, <1>8, <1>9, <1>10, <1>11, <1>12, <1>14, <1>15, <1>16, <1>17
  DEF Next, Client, Reader, Gateway

-----------------------------------------------------------------------------
\* What holds whoever rejects what, ...
LEMMA BaseStep == Base /\ [Next]_vars => Base'
<1>1. ASSUME Base, Next PROVE Base'
  <2>1. TypeOK'
    BY <1>1, ClientKeepsTypes, GatewayKeepsTypes DEF Base, Next
  <2>2. Correlated' /\ Framed'
    BY <1>1, CallsStep, AnswersStep, FramedStep DEF Correlated
  <2> QED
    BY <2>1, <2>2 DEF Base
<1>2. ASSUME Base, UNCHANGED vars PROVE Base'
  <2> USE DEF vars, client, host, pipes
  <2>1. TypeOK'
    BY <1>2 DEF Base, TypeOK
  <2>2. Correlated' /\ Framed'
    BY <1>2 DEF Base, Correlated, CallsMatch, AnswersMatch, Framed, IsReply, Part
  <2> QED
    BY <2>1, <2>2 DEF Base
<1> QED
  BY <1>1, <1>2

\* ... and what holds with a client that gives up by the deadline only.
LEMMA HonestStep == Inv /\ [Next]_vars => Honest'
<1>1. ASSUME Inv, Next PROVE Honest'
  BY <1>1, LivesStep, CleanStep, AwaitedStep DEF Honest
<1>2. ASSUME Inv, UNCHANGED vars PROVE Honest'
  BY <1>2 DEF Inv, Honest, Lives, Clean, Awaited, IsReply, Part, InUse, Expected,
              vars, client, host, pipes
<1> QED
  BY <1>1, <1>2

\* Only what is refused is a breach.
LEMMA RefusalsOnly ==
  ASSUME Inv, HonestGatewayIsAccepted, [Next]_vars
  PROVE  HonestGatewayIsAccepted'
<1> USE DEF client, host, pipes, Return, HonestGatewayIsAccepted
<1>0. broken \in BOOLEAN
  BY DEF Inv, Base, TypeOK
<1>1. CASE Refuse
  <2>1. broken
    BY <1>1, NeverRefused
  <2> QED
    BY <1>1, <2>1 DEF Refuse
<1>2. CASE \/ CallTooLate \/ WriteFails \/ TakeReady \/ TakeAnswer \/ EndOfOutput \/ TimeOut \/ Close
  BY <1>2 DEF CallTooLate, WriteFails, TakeReady, TakeAnswer, EndOfOutput, TimeOut, Close
<1>3. ASSUME NEW parts \in {1, 2}, Call(parts) PROVE HonestGatewayIsAccepted'
  BY <1>3 DEF Call
<1>4. CASE Write \/ DropLate \/ TakeEvent \/ Drain \/ Reap \/ Escalate \/ UNCHANGED vars
  BY <1>4 DEF Write, DropLate, TakeEvent, Drain, Reap, Escalate, vars
<1>5. CASE Gateway
  <2>1. error' = error /\ (broken => broken')
    BY <1>5 DEF Gateway, GatewayReady, GatewayReads, GatewayReplies, GatewayEmits, GatewayMisbehaves,
                GatewayHangs, GatewayDies, GatewayExits, GatewayIsKilled
  <2> QED
    BY <2>1
<1> QED
  BY <1>1, <1>2, <1>3, <1>4, <1>5 DEF Next, Client, Reader

\* The inductive invariant holds in every reachable state.
THEOREM Invariance == Spec => []Inv
<1>1. Inv /\ [Next]_vars => Inv'
  BY BaseStep, HonestStep DEF Inv
<1> QED
  BY Initially, <1>1, PTL DEF Spec

\* A gateway that keeps to the protocol and lives is never refused: of whatever
\* it says, in whatever order, none is taken for a breach (TuiRpcClient._receive).
THEOREM HonestGatewaysAreAccepted == Spec => []HonestGatewayIsAccepted
<1>1. Init => HonestGatewayIsAccepted
  BY DEF Init, HonestGatewayIsAccepted
<1>2. Inv /\ HonestGatewayIsAccepted /\ [Next]_vars => HonestGatewayIsAccepted'
  BY RefusalsOnly
<1> QED
  BY <1>1, <1>2, Invariance, PTL DEF Spec

-----------------------------------------------------------------------------
(* Refinement *)

States == [c \in Ids |-> StateOf(c)]

\* An operation that is over gives up the call it was for, if any.
LEMMA GivesUp ==
  ASSUME Inv, call' = 0, UNCHANGED <<nextId, answered, replied>>
  PROVE  Abstract!Next \/ UNCHANGED <<States, replied>>
<1>0. TypeOK /\ CallsMatch
  BY DEF Inv, Base, Correlated
<1>1. CASE call = 0
  BY <1>1 DEF States, StateOf
<1>2. CASE call # 0
  <2>1. call \in Ids /\ call < nextId /\ call \notin answered
    BY <1>0, <1>2, TuiRpcAssumption DEF TypeOK, CallsMatch, Ids
  <2>2. PICK c \in Ids : c = call
    BY <2>1
  <2>3. StateOf(c) = "open" /\ StateOf(c)' = "given up"
    BY <1>2, <2>1, <2>2 DEF StateOf, Ids
  <2>4. \A d \in Ids \ {c} : StateOf(d)' = StateOf(d)
    BY <1>2, <2>2 DEF StateOf, Ids
  <2>5. Abstract!GiveUp(c)
    BY <2>3, <2>4 DEF Abstract!GiveUp
  <2> QED
    BY <2>5 DEF Abstract!Next
<1> QED
  BY <1>1, <1>2

\* A call that is begun is open, or given up at once.
LEMMA Opens ==
  ASSUME Inv, NEW parts \in {1, 2}, Call(parts)
  PROVE  Abstract!Next
<1>0. TypeOK /\ CallsMatch
  BY DEF Inv, Base, Correlated
<1>1. /\ call = 0 /\ nextId \in Ids /\ nextId' = nextId + 1 /\ UNCHANGED <<answered, replied>>
      /\ call' \in {0, nextId}
  BY <1>0, TuiRpcAssumption DEF TypeOK, CallsMatch, Call, Return, host, Ids
<1>2. PICK c \in Ids : c = nextId
  BY <1>1
<1>3. c \notin answered
  <2>1. c \in Nat /\ (c \in answered => c < c)
    BY <1>0, <1>2, TuiRpcAssumption DEF CallsMatch, Ids
  <2> QED
    BY <2>1
<1>4. StateOf(c) = "new" /\ StateOf(c)' \in {"open", "given up"}
  BY <1>1, <1>2, <1>3 DEF StateOf, Ids
<1>5. \A d \in Ids \ {c} : StateOf(d)' = StateOf(d)
  BY <1>1, <1>2 DEF StateOf, Ids
<1>6. \A d \in Ids : d < c => StateOf(d) \in {"answered", "given up"}
  BY <1>1, <1>2 DEF StateOf, Ids
<1>7. Abstract!Open(c)
  BY <1>1, <1>4, <1>5, <1>6 DEF Abstract!Open
<1> QED
  BY <1>7 DEF Abstract!Next

LEMMA StepRefines == Inv /\ [Next]_vars => [Abstract!Next]_<<States, replied>>
<1> SUFFICES ASSUME Inv, [Next]_vars PROVE Abstract!Next \/ UNCHANGED <<States, replied>>
  OBVIOUS
<1> USE DEF client, host, pipes, Return
<1>0. TypeOK /\ CallsMatch /\ AnswersMatch
  BY DEF Inv, Base, Correlated
<1>1. CASE UNCHANGED <<call, nextId, answered, replied>>
  BY <1>1 DEF States, StateOf
<1>2. CASE TakeAnswer
  <2>1. /\ call \in Ids /\ call \notin answered /\ answered' = answered \cup {call} /\ call' = 0
        /\ nextId' = nextId /\ replied' = replied
    BY <1>0, <1>2 DEF TypeOK, CallsMatch, TakeAnswer, Ids
  <2>2. call \in replied
    <3>1. IsReply(1) /\ outPipe[1].id = call
      BY <1>0, <1>2, Taken DEF TakeAnswer, IsReply, Reads
    <3> QED
      BY <1>0, <3>1 DEF AnswersMatch, IsReply
  <2>3. PICK c \in Ids : c = call
    BY <2>1
  <2>4. StateOf(c) = "open" /\ StateOf(c)' = "answered"
    <3>1. c \notin answered /\ c \in answered' /\ c # call'
      BY <2>1, <2>3 DEF Ids
    <3> QED
      BY <2>3, <3>1 DEF StateOf
  <2>5. ASSUME NEW d \in Ids \ {c} PROVE StateOf(d)' = StateOf(d)
    <3>1. (d \in answered' <=> d \in answered) /\ d # call /\ d # call' /\ nextId' = nextId
      BY <2>1, <2>3 DEF Ids
    <3>2. CASE d \in answered
      BY <3>1, <3>2 DEF StateOf
    <3>3. CASE d \notin answered
      BY <3>1, <3>3 DEF StateOf
    <3> QED
      BY <3>2, <3>3
  <2>6. Abstract!Answer(c)
    BY <2>1, <2>2, <2>3, <2>4, <2>5 DEF Abstract!Answer
  <2> QED
    BY <2>6 DEF Abstract!Next
<1>3. ASSUME NEW id \in Ids, NEW s \in Says, GatewayReplies(id, s) PROVE Abstract!Next
  <2>1. /\ id \in accepted \ replied /\ replied' = replied \cup {id}
        /\ UNCHANGED <<call, nextId, answered>>
    BY <1>3 DEF GatewayReplies
  <2>2. id < nextId /\ id \notin answered
    BY <1>0, <2>1 DEF CallsMatch
  <2>3. StateOf(id) \in {"open", "given up"}
    BY <2>2 DEF StateOf
  <2>4. UNCHANGED States
    BY <2>1 DEF States, StateOf
  <2>5. Abstract!CarryOut(id)
    BY <2>1, <2>3, <2>4 DEF Abstract!CarryOut, States
  <2> QED
    BY <2>5 DEF Abstract!Next
<1>4. CASE CallTooLate \/ WriteFails \/ EndOfOutput \/ TimeOut \/ TakeReady \/ Refuse
  BY <1>4, GivesUp DEF CallTooLate, WriteFails, EndOfOutput, TimeOut, TakeReady, Refuse
<1>5. CASE Write \/ DropLate \/ TakeEvent \/ Close \/ Drain \/ Reap \/ Escalate
  BY <1>1, <1>5 DEF Write, DropLate, TakeEvent, Close, Drain, Reap, Escalate
<1>6. ASSUME NEW s \in Says, GatewayEmits(s) PROVE UNCHANGED <<States, replied>>
  BY <1>1, <1>6 DEF GatewayEmits, States, StateOf
<1>7. CASE GatewayReady \/ GatewayReads \/ GatewayMisbehaves \/ GatewayHangs \/ GatewayDies
           \/ GatewayExits \/ GatewayIsKilled
  BY <1>1, <1>7 DEF GatewayReady, GatewayReads, GatewayMisbehaves, GatewayHangs, GatewayDies,
                    GatewayExits, GatewayIsKilled
<1>8. CASE UNCHANGED vars
  BY <1>1, <1>8 DEF vars
<1> QED
  BY <1>2, <1>3, <1>4, <1>5, <1>6, <1>7, <1>8, Opens DEF Next, Client, Reader, Gateway

\* The two pipes implement synchronous calls: answers are correlated, at most one
\* for each call, and a late one reaches nobody (TuiRpcClient.call).
THEOREM Refinement == Spec => ImplementsCalls
<1>1. Init => Abstract!Init
  BY TuiRpcAssumption DEF Init, Abstract!Init, StateOf, Ids
<1>2. Inv /\ [Next]_vars => [Abstract!Next]_<<States, replied>>
  BY StepRefines
<1> QED
  BY <1>1, <1>2, Invariance, PTL DEF Spec, ImplementsCalls, Abstract!Spec, States

-----------------------------------------------------------------------------
(* The session of the child: the inductive invariant                        *)

\* What the gateway says on the wire about who the child is.
Event(i)  == i \in 1..Len(outPipe) /\ outPipe[i].kind = "event" /\ outPipe[i].says # 0
Answer(i) == i \in 1..Len(outPipe) /\ outPipe[i].kind = "reply" /\ outPipe[i].id = 1

Named(s) == s = 0 \/ s \in Known

\* Only sessions of the table are named.
Identities ==
  /\ Named(asked) /\ Named(tip) /\ Named(told) /\ Named(reply) /\ Named(child) /\ Named(heard)
  /\ retained \in Seq(Sessions) /\ Len(retained) <= MaxStartup
  /\ \A k \in 1..Len(retained) : retained[k] \in Known
  /\ \A i : Event(i) \/ Answer(i) => outPipe[i].says \in Known
  /\ lied \in BOOLEAN

\* The worker has the answer after the start, and a child from the binding on.
Staged ==
  /\ stage \in Stages
  /\ stage = "start" <=> reply = 0
  /\ child # 0 <=> stage \in {"submit", "turn"}

\* The gateway's conversation is the one asked for, or begins with its answer.
Tipped ==
  /\ asked # 0 => tip # 0 /\ Follows(asked, tip)
  /\ asked = 0 => (tip = 0 <=> told = 0)
  /\ \A s \in Known : db[s].end # "compressing"

\* Nothing the worker was told is newer than heard, which becomes the child.
HeardIsNewest ==
  /\ child = 0 =>
       /\ heard = 0 \/ heard = reply \/ \E k \in 1..Len(retained) : heard = retained[k]
       /\ reply <= heard
       /\ \A k \in 1..Len(retained) : retained[k] <= heard
  /\ child # 0 => child = heard

OnCourse == child # 0 /\ asked # 0 => Follows(asked, child)

OfTip(s) == s # 0 => tip # 0 /\ Follows(s, tip)

\* Without a lie the worker knows sessions of the gateway's conversation, in order, ...
Truthful ==
  ~ lied =>
    /\ OfTip(told) /\ OfTip(heard)
    /\ reply = 0 \/ reply = told
    /\ asked # 0 /\ told # 0 => Follows(asked, told)
    /\ \A k \in 1..Len(retained) : OfTip(retained[k])
    /\ \A k, m \in 1..Len(retained) : k <= m => retained[k] <= retained[m]

\* ... and what is still on the wire goes on from there; what was said behind the
\* answer is not older than it.
WireTruthful ==
  ~ lied =>
    /\ \A i : Event(i) => OfTip(outPipe[i].says) /\ heard <= outPipe[i].says
    /\ \A i : Answer(i) => told # 0 /\ outPipe[i].says = told
    /\ \A i, j : Event(i) /\ Event(j) /\ i < j => outPipe[i].says <= outPipe[j].says
    /\ \A i, j : Answer(i) /\ Event(j) /\ i < j => told <= outPipe[j].says

Excused == lied \/ blurred # {} \/ Len(retained) = MaxStartup

\* Until there is an excuse the client is one that gives up by the deadline only.
Unrefused == ~ broken /\ (~ Excused => Honest /\ error # "protocol")

Table == LineageInv /\ Chained

ChildInv ==
  /\ Base /\ Table
  /\ Identities /\ Staged /\ Tipped /\ HeardIsNewest /\ OnCourse
  /\ Truthful /\ WireTruthful
  /\ Unrefused

-----------------------------------------------------------------------------
(* The wire *)

\* What is said is what was said before, but for a frame that may have been taken.
Older(d) ==
  /\ \A i : Event(i)' => Event(i + d) /\ outPipe'[i].says = outPipe[i + d].says /\ i \in Nat
  /\ \A i : Answer(i)' => Answer(i + d) /\ outPipe'[i].says = outPipe[i + d].says /\ i \in Nat

LEMMA SameWire == ASSUME TypeOK, outPipe' = outPipe PROVE Older(0)
  BY DEF TypeOK, Older, Event, Answer

LEMMA WireTaken == ASSUME TypeOK, outPipe # <<>>, outPipe' = Tail(outPipe) PROVE Older(1)
  BY Taken DEF Older, Event, Answer

LEMMA WireEmitted ==
  ASSUME TypeOK, NEW f \in Frames, Len(outPipe) < Room, Emit(f)
  PROVE  /\ \A i : Event(i)' => \/ Event(i) /\ outPipe'[i] = outPipe[i]
                                \/ i = Len(outPipe') /\ outPipe'[i] = f
         /\ \A i : Answer(i)' => \/ Answer(i) /\ outPipe'[i] = outPipe[i]
                                 \/ i = Len(outPipe') /\ outPipe'[i] = f
         /\ \A i : Event(i) \/ Answer(i) => i < Len(outPipe')
  BY Emitted DEF Event, Answer

\* A frame that says nothing about the child.
LEMMA SaysNothing ==
  ASSUME TypeOK, NEW f \in Frames, Len(outPipe) < Room, Emit(f),
         f.kind = "event" => f.says = 0, f.kind = "reply" => f.id # 1
  PROVE  Older(0)
  BY Emitted DEF Older, Event, Answer

\* All that Transport does, calls and answers included, is silent in this sense.
LEMMA TransportIsSilent ==
  ASSUME Base, Transport
  PROVE  Older(0) \/ Older(1)
<1>0. TypeOK
  BY DEF Base
<1> USE DEF client, host, pipes
<1>1. CASE \/ GatewayExits \/ GatewayIsKilled \/ Write \/ WriteFails \/ TimeOut \/ Close \/ Reap \/ Escalate
  BY <1>0, <1>1, SameWire
  DEF GatewayExits, GatewayIsKilled, Write, WriteFails, TimeOut, Close, Reap, Escalate
<1>2. CASE TakeReady \/ DropLate \/ Refuse \/ Drain
  BY <1>0, <1>2, WireTaken DEF TakeReady, DropLate, Refuse, Drain, Reads
<1>3. CASE GatewayReady
  BY <1>0, <1>3, SaysNothing, FramesAreFrames, NobodySays, TuiRpcAssumption DEF GatewayReady, CanEmit
<1>4. CASE GatewayReads
  <2>1. CASE outPipe' = outPipe
    BY <1>0, <2>1, SameWire
  <2>2. CASE Emit(Frame("junk", 0, Nobody)) /\ CanEmit
    BY <1>0, <2>2, SaysNothing, FramesAreFrames, NobodySays, TuiRpcAssumption DEF CanEmit
  <2> QED
    BY <1>0, <1>4, <2>1, <2>2, Reading
<1> QED
  BY <1>1, <1>2, <1>3, <1>4 DEF Transport

-----------------------------------------------------------------------------
(* Identities *)

LEMMA NamedAreNumbers ==
  ASSUME LineageInv, NEW s, Named(s)
  PROVE  s \in Nat
  BY KnownAreNumbers DEF Named

\* What is proven follows, ...
LEMMA ProvenIsLater ==
  ASSUME LineageInv, NEW p \in Known, NEW c, Proven(p, c)
  PROVE  c \in Known /\ Follows(p, c) /\ p <= c
<1>1. CASE p = c
  BY <1>1, FollowsSelf DEF Follows
<1>2. CASE Continues(p, c, TRUE)
  BY <1>2, ContinuesFollows DEF Follows
<1> QED
  BY <1>1, <1>2 DEF Proven

\* ... and in a table that the host kept, what follows is proven.
LEMMA LaterIsProven ==
  ASSUME Table, Tipped, blurred = {}, NEW p \in Known, NEW c \in Known, Follows(p, c)
  PROVE  Proven(p, c)
  BY FollowersContinue DEF Proven, Table, Tipped

\* Two sessions of the gateway's conversation are one behind the other.
LEMMA OfOneTip ==
  ASSUME LineageInv, NEW p \in Known, NEW c \in Known, OfTip(p), OfTip(c), p <= c
  PROVE  Follows(p, c)
  BY KnownAreNumbers DEF OfTip, Follows

-----------------------------------------------------------------------------
(* Binding *)

\* What was retained is replayed one identity at a time.
LEMMA ReplaySteps ==
  ASSUME Len(retained) \in Nat
  PROVE  /\ Replay[0] = First
         /\ \A n \in 0..Len(retained) : n # 0 =>
              Replay[n] = IF Replay[n - 1] # 0 /\ Proven(Replay[n - 1], retained[n]) THEN retained[n] ELSE 0
<1> DEFINE Next1(x, n) == IF x # 0 /\ Proven(x, retained[n]) THEN retained[n] ELSE 0
           T == {m \in Nat : \E f : f = [n \in 0..m |-> IF n = 0 THEN First ELSE Next1(f[n - 1], n)]}
<1>1. 0 \in T
  <2> HIDE DEF Next1
  <2> DEFINE f == [n \in 0..0 |-> First]
  <2>1. f = [n \in 0..0 |-> IF n = 0 THEN First ELSE Next1(f[n - 1], n)]
    OBVIOUS
  <2> QED
    BY <2>1
<1>2. ASSUME NEW m \in Nat, m \in T PROVE m + 1 \in T
  <2> HIDE DEF Next1
  <2>1. PICK f : f = [n \in 0..m |-> IF n = 0 THEN First ELSE Next1(f[n - 1], n)]
    BY <1>2
  <2> DEFINE g == [n \in 0..(m + 1) |-> IF n = m + 1 THEN Next1(f[m], n) ELSE f[n]]
  <2>2. g = [n \in 0..(m + 1) |-> IF n = 0 THEN First ELSE Next1(g[n - 1], n)]
    BY <2>1
  <2> HIDE DEF g
  <2>3. \E h : h = [n \in 0..(m + 1) |-> IF n = 0 THEN First ELSE Next1(h[n - 1], n)]
    BY <2>2
  <2> QED
    BY <2>3
<1>3. Len(retained) \in T
  <2> HIDE DEF T
  <2>1. Nat \subseteq T
    BY <1>1, <1>2, Induction
  <2> QED
    BY <2>1
<1>4. PICK f : f = [n \in 0..Len(retained) |-> IF n = 0 THEN First ELSE Next1(f[n - 1], n)]
  BY <1>3
<1>5. Replay = [n \in 0..Len(retained) |-> IF n = 0 THEN First ELSE Next1(Replay[n - 1], n)]
  BY <1>4 DEF Replay
<1> HIDE DEF Next1
<1>6. Replay[0] = First
  BY <1>5
<1>7. ASSUME NEW n \in 0..Len(retained), n # 0 PROVE Replay[n] = Next1(Replay[n - 1], n)
  BY <1>5, <1>7
<1> QED
  BY <1>6, <1>7 DEF Next1

\* As far as it gets, it has passed nothing newer.
Replays(n) ==
  Replay[n] # 0 =>
    /\ Replay[n] \in Known
    /\ \A k \in 1..n : retained[k] <= Replay[n]
    /\ n # 0 => Replay[n] = retained[n]

LEMMA ReplayGrows ==
  ASSUME LineageInv, Identities, reply # 0
  PROVE  \A n \in 0..Len(retained) : Replays(n)
<1> DEFINE T == {n \in Nat : n \in 0..Len(retained) => Replays(n)}
<1>0. /\ Len(retained) \in Nat /\ \A k \in 1..Len(retained) : retained[k] \in Known /\ retained[k] \in Nat
      /\ First \in Known
  <2>1. Len(retained) \in Nat /\ \A k \in 1..Len(retained) : retained[k] \in Known
    BY DEF Identities
  <2>2. retained # <<>> => Head(retained) = retained[1] /\ 1 \in 1..Len(retained)
    BY DEF Identities
  <2> QED
    BY <2>1, <2>2, KnownAreNumbers DEF First, Identities, Named
<1>1. 0 \in T
  BY <1>0, ReplaySteps DEF Replays
<1>2. ASSUME NEW n \in Nat, n \in T PROVE n + 1 \in T
  <2> SUFFICES ASSUME n + 1 \in 0..Len(retained), Replay[n + 1] # 0 PROVE Replays(n + 1)
    BY DEF Replays
  <2>1. n \in 0..Len(retained) /\ n + 1 \in 1..Len(retained) /\ (n + 1) - 1 = n
    BY <1>0
  <2>2. Replay[n + 1] = IF Replay[n] # 0 /\ Proven(Replay[n], retained[n + 1]) THEN retained[n + 1] ELSE 0
    BY <1>0, <2>1, ReplaySteps
  <2>3. Replay[n] # 0 /\ Proven(Replay[n], retained[n + 1]) /\ Replay[n + 1] = retained[n + 1]
    BY <2>2
  <2>4. PICK x : x = Replay[n]
    OBVIOUS
  <2>5. x \in Known /\ \A k \in 1..n : retained[k] <= x
    BY <1>2, <2>1, <2>3, <2>4 DEF Replays
  <2>6. x <= retained[n + 1] /\ x \in Nat
    BY <2>3, <2>4, <2>5, ProvenIsLater, KnownAreNumbers
  <2>7. \A k \in 1..(n + 1) : retained[k] <= retained[n + 1]
    <3> TAKE k \in 1..(n + 1)
    <3>1. CASE k = n + 1
      BY <1>0, <2>1, <3>1
    <3>2. CASE k # n + 1
      BY <1>0, <2>1, <2>5, <2>6, <3>2
    <3> QED
      BY <3>1, <3>2
  <2> QED
    BY <1>0, <2>1, <2>3, <2>7 DEF Replays
<1>3. Nat \subseteq T
  <2> HIDE DEF T
  <2> QED
    BY <1>1, <1>2, Induction
<1> QED
  BY <1>0, <1>3

\* What is bound is the newest of what was told, and a session of the conversation
\* asked for.
LEMMA Binding ==
  ASSUME LineageInv, Identities, reply # 0, Acceptable, NEW new, new = Newest(Replayed)
  PROVE  /\ new \in Known /\ new # 0
         /\ new = reply \/ \E k \in 1..Len(retained) : new = retained[k]
         /\ reply <= new /\ \A k \in 1..Len(retained) : retained[k] <= new
         /\ asked # 0 => Follows(asked, new)
<1>1. reply \in Known /\ reply \in Nat /\ Len(retained) \in Nat
      /\ \A k \in 1..Len(retained) : retained[k] \in Nat
  BY KnownAreNumbers DEF Identities, Named
<1>2. PICK last : last = Replayed
  OBVIOUS
<1>3. last # 0 /\ (Proven(last, reply) \/ Proven(reply, last)) /\ (asked # 0 => Proven(asked, reply))
  BY <1>2 DEF Acceptable, OnOneChain
<1>4. /\ last \in Known /\ last \in Nat /\ \A k \in 1..Len(retained) : retained[k] <= last
      /\ last = reply \/ \E k \in 1..Len(retained) : last = retained[k]
  <2>1. last = Replay[Len(retained)] /\ Len(retained) \in 0..Len(retained)
    BY <1>1, <1>2 DEF Replayed
  <2>2. Replays(Len(retained))
    BY <2>1, ReplayGrows
  <2>3. /\ last \in Known /\ \A k \in 1..Len(retained) : retained[k] <= last
        /\ Len(retained) # 0 => last = retained[Len(retained)]
    BY <1>3, <2>1, <2>2 DEF Replays
  <2>4. Len(retained) = 0 => last = reply
    <3>1. Len(retained) = 0 => retained = <<>>
      BY DEF Identities
    <3> QED
      BY <1>1, <2>1, <3>1, ReplaySteps DEF First
  <2> QED
    BY <1>1, <2>3, <2>4, KnownAreNumbers
<1>5. asked # 0 => Follows(asked, reply) /\ asked \in Known
  BY <1>3, ProvenIsLater DEF Identities, Named
<1>6. CASE Proven(last, reply)
  <2>1. new = reply
    BY <1>2, <1>6 DEF Newest
  <2>2. last <= reply
    BY <1>4, <1>6, ProvenIsLater
  <2> QED
    BY <1>1, <1>4, <1>5, <2>1, <2>2, KnownAreNumbers
<1>7. CASE ~ Proven(last, reply)
  <2>1. new = last
    BY <1>2, <1>7 DEF Newest
  <2>2. Follows(reply, last) /\ reply <= last
    BY <1>1, <1>3, <1>7, ProvenIsLater
  <2> QED
    BY <1>1, <1>3, <1>4, <1>5, <2>1, <2>2, FollowsTransitive
<1> QED
  BY <1>6, <1>7

\* What a gateway that did not lie told can be bound.
LEMMA HonestBinding ==
  ASSUME Table, Tipped, Identities, Truthful, ~ lied, blurred = {}, reply # 0
  PROVE  Acceptable
<1> DEFINE T == {n \in Nat : n \in 0..Len(retained) =>
                   Replay[n] \in Known /\ OfTip(Replay[n])}
<1>0. /\ LineageInv /\ reply \in Known /\ OfTip(reply) /\ Len(retained) \in Nat
      /\ \A k \in 1..Len(retained) : retained[k] \in Known /\ retained[k] \in Nat /\ OfTip(retained[k])
      /\ \A k, m \in 1..Len(retained) : k <= m => retained[k] <= retained[m]
  <2>1. LineageInv /\ reply \in Known /\ Len(retained) \in Nat /\ \A k \in 1..Len(retained) : retained[k] \in Known
    BY DEF Table, Identities, Named
  <2> QED
    BY <2>1, KnownAreNumbers DEF Truthful
<1>1. First \in Known /\ OfTip(First) /\ (retained # <<>> => First = retained[1] /\ 1 \in 1..Len(retained))
  BY <1>0 DEF First, Identities
<1>2. 0 \in T
  BY <1>0, <1>1, ReplaySteps
<1>3. ASSUME NEW n \in Nat, n \in T PROVE n + 1 \in T
  <2> SUFFICES ASSUME n + 1 \in 0..Len(retained)
               PROVE  Replay[n + 1] \in Known /\ OfTip(Replay[n + 1])
    OBVIOUS
  <2>1. n \in 0..Len(retained) /\ n + 1 \in 1..Len(retained) /\ (n + 1) - 1 = n
    BY <1>0
  <2>2. Replay[n + 1] = IF Replay[n] # 0 /\ Proven(Replay[n], retained[n + 1]) THEN retained[n + 1] ELSE 0
    BY <1>0, <2>1, ReplaySteps
  <2>3. PICK x : x = Replay[n]
    OBVIOUS
  <2>4. x \in Known /\ OfTip(x) /\ x # 0
    BY <1>0, <1>3, <2>1, <2>3, KnownAreNumbers
  <2>5. x <= retained[n + 1]
    <3>1. CASE n = 0
      <4>1. x = First
        BY <1>0, <2>3, <3>1, ReplaySteps
      <4>2. retained # <<>>
        BY <2>1, <3>1 DEF Identities
      <4> QED
        BY <1>0, <1>1, <2>1, <3>1, <4>1, <4>2
    <3>2. CASE n # 0
      <4>1. Replays(n)
        BY <1>0, <2>1, ReplayGrows
      <4>2. x = retained[n]
        BY <2>3, <2>4, <3>2, <4>1 DEF Replays
      <4> QED
        BY <1>0, <2>1, <3>2, <4>2
    <3> QED
      BY <3>1, <3>2
  <2>6. Proven(x, retained[n + 1])
    BY <1>0, <2>1, <2>4, <2>5, OfOneTip, LaterIsProven
  <2>7. Replay[n + 1] = retained[n + 1]
    BY <2>2, <2>3, <2>4, <2>6
  <2> QED
    BY <1>0, <2>1, <2>7
<1>4. Replayed \in Known /\ OfTip(Replayed)
  <2>1. Nat \subseteq T
    <3> HIDE DEF T
    <3> QED
      BY <1>2, <1>3, Induction
  <2> QED
    BY <1>0, <2>1 DEF Replayed
<1>5. ASSUME NEW x \in Known, OfTip(x) PROVE OnOneChain(x)
  <2>1. x \in Nat /\ x # 0 /\ reply \in Nat
    BY <1>0, KnownAreNumbers
  <2>2. CASE x <= reply
    BY <1>0, <1>5, <2>1, <2>2, OfOneTip, LaterIsProven DEF OnOneChain
  <2>3. CASE reply <= x
    BY <1>0, <1>5, <2>1, <2>3, OfOneTip, LaterIsProven DEF OnOneChain
  <2> QED
    BY <2>1, <2>2, <2>3
<1>6. asked # 0 => Proven(asked, reply)
  <2> SUFFICES ASSUME asked # 0 PROVE Proven(asked, reply)
    OBVIOUS
  <2>1. asked \in Known /\ Follows(asked, reply)
    BY DEF Truthful, Identities, Named
  <2> QED
    BY <1>0, <2>1, LaterIsProven
<1> QED
  BY <1>1, <1>4, <1>5, <1>6 DEF Acceptable

-----------------------------------------------------------------------------
(* What the steps do to the client's half                                   *)

\* An operation given up, or over, outside TuiRpc's own steps: at the binding, or
\* with an identity that is rejected.
LEMMA GivingUp ==
  ASSUME Base, phase \in {"starting", "idle", "calling"}, NEW e \in {"none", "protocol"}, Return(e),
         outPipe' = outPipe \/ (outPipe # <<>> /\ outPipe' = Tail(outPipe)),
         UNCHANGED <<nextId, abandoned, answered, stdin, inPipe, host, signal, faults>>
  PROVE  Base'
<1> USE DEF host, Return
<1>0. TypeOK /\ CallsMatch /\ AnswersMatch /\ Framed
  BY DEF Base, Correlated
<1>1. outPipe' \in Seq(Frames) /\ Len(outPipe') <= Room
  BY <1>0, Taken, TuiRpcAssumption DEF TypeOK
<1>2. TypeOK'
  BY <1>0, <1>1, TuiRpcAssumption DEF TypeOK, Waiting
<1>3. CallsMatch' /\ Framed'
  BY <1>0 DEF CallsMatch, Framed, Part
<1>4. AnswersMatch'
  <2>1. CASE outPipe' = outPipe
    BY <1>0, <2>1 DEF AnswersMatch, IsReply
  <2>2. CASE outPipe # <<>> /\ outPipe' = Tail(outPipe)
    BY <1>0, <2>2, AnswersTaken DEF AnswersMatch, IsReply
  <2> QED
    BY <2>1, <2>2
<1> QED
  BY <1>2, <1>3, <1>4 DEF Base, Correlated

\* A binding leaves what is expected as it was.
LEMMA BindingIsHonest ==
  ASSUME Honest, phase = "idle", NEW e, Return(e),
         UNCHANGED <<nextId, abandoned, answered, stdin, pipes, host, signal, faults>>
  PROVE  Honest'
  BY DEF Honest, Lives, Clean, Awaited, IsReply, Part, InUse, Expected, host, pipes, Return

\* Everything but a binding and a rejection is a step of TuiRpc.
Rejects ==
  /\ Reads /\ Front.kind = "event" /\ Front.says # 0
  /\ Reject
  /\ \/ child = 0 /\ ~ (Len(retained) < MaxStartup)
     \/ child # 0 /\ ~ Proven(child, Front.says)
  /\ UNCHANGED <<lineage, asked, tip, told, lied>>

LEMMA StepsOfClient ==
  ASSUME TypeOK, CNext
  PROVE  \/ [Next]_vars /\ broken' = broken
         \/ Bind
         \/ Rejects
<1> USE DEF Next, Client, Reader, Gateway, client, host, pipes
<1>1. CASE Apart(Transport)
  BY <1>1 DEF Apart, Transport, GatewayReady, GatewayReads, GatewayExits, GatewayIsKilled, Write,
              WriteFails, TakeReady, DropLate, Refuse, TimeOut, Close, Drain, Reap, Escalate
<1>2. CASE HostOpens \/ HostCompresses \/ HostBranches
  BY <1>2 DEF HostOpens, HostCompresses, HostBranches, vars
<1>3. ASSUME NEW s \in Says, GatewayEmits(s) PROVE Next /\ broken' = broken
  BY <1>3 DEF GatewayEmits
<1>4. ASSUME NEW id \in Ids, NEW s \in Says, GatewayReplies(id, s) PROVE Next /\ broken' = broken
  BY <1>4 DEF GatewayReplies
<1>5. CASE GatewayTells
  <2>1. ASSUME NEW s \in Says \ {0}, GatewayReplies(1, s) PROVE 1 \in Ids
    BY <2>1 DEF TypeOK, GatewayReplies
  <2>2. CASE \E s \in Says : GatewayEmits(s)
    BY <1>3, <2>2
  <2>3. CASE \E s \in Says \ {0} : GatewayReplies(1, s)
    BY <1>4, <2>1, <2>3
  <2>4. CASE \E id \in Ids : GatewayReplies(id, 0)
    BY <1>4, <2>4, ChildSessionAssumption, SessionLineageAssumption
  <2> QED
    BY <1>5, <2>2, <2>3, <2>4, Zenon DEF GatewayTells
<1>6. CASE MakeCall
  BY <1>6 DEF MakeCall, CallTooLate, Call
<1>7. CASE Started \/ Selected \/ Submitted
  BY <1>7 DEF Started, Selected, Submitted, TakeAnswer
<1>8. CASE OtherEvent
  BY <1>8 DEF OtherEvent, Apart, TakeEvent
<1>9. CASE RetainIdentity
  BY <1>9 DEF RetainIdentity, TakeEvent, Rejects
<1>10. CASE ObserveIdentity
  BY <1>10 DEF ObserveIdentity, TakeEvent, Rejects
<1> QED
  BY <1>1, <1>2, <1>5, <1>6, <1>7, <1>8, <1>9, <1>10 DEF CNext

-----------------------------------------------------------------------------
(* What the steps do to identities                                          *)

\* Nobody learns anything.
Quiet ==
  /\ Older(0) \/ Older(1)
  /\ UNCHANGED <<lineage, asked, tip, told, reply, retained, heard, lied>>

Proceeds ==
  \/ UNCHANGED <<child, stage>>
  \/ /\ child' = child /\ stage' \in Stages
     /\ stage # "start" /\ stage' # "start"
     /\ stage \in {"submit", "turn"} <=> stage' \in {"submit", "turn"}

Binds == stage = "bind" /\ Acceptable /\ child' = Newest(Replayed) /\ stage' = "submit"

\* The gateway names a session, or the worker reads one.
Emits(s)  == s # 0 /\ GatewayEmits(s) /\ Speaks(s, {0, tip})
Answers(s) == s # 0 /\ told # 0 /\ GatewayReplies(1, s) /\ Speaks(s, {told})
Learns    == Started /\ error' = "none"
Retains   == RetainIdentity /\ Len(retained) < MaxStartup
Observes  == ObserveIdentity /\ Proven(child, Front.says)

Host == HostOpens \/ HostCompresses \/ HostBranches

LEMMA Shapes ==
  ASSUME Base, Identities, [CNext]_cvars
  PROVE  \/ Quiet /\ Proceeds
         \/ Quiet /\ Binds
         \/ Host
         \/ \E s \in Says : Emits(s) \/ Answers(s)
         \/ Learns \/ Retains \/ Observes
<1>0. TypeOK /\ lied \in BOOLEAN
  BY DEF Base, Identities
<1> USE DEF client, host, pipes, worker, own
<1>1. CASE UNCHANGED cvars
  BY <1>0, <1>1, SameWire DEF Quiet, Proceeds, cvars, vars
<1>2. CASE Apart(Transport)
  <2>1. Older(0) \/ Older(1)
    BY <1>2, TransportIsSilent DEF Apart
  <2> QED
    BY <1>2, <2>1 DEF Quiet, Proceeds, Apart
<1>3. CASE MakeCall
  <2>1. outPipe' = outPipe /\ UNCHANGED <<lineage, own>>
    BY <1>3 DEF MakeCall, CallTooLate, Call
  <2> QED
    BY <1>0, <2>1, SameWire DEF Quiet, Proceeds
<1>4. CASE Started
  <2>1. CASE error' = "none"
    BY <1>4, <2>1 DEF Learns
  <2>2. CASE error' # "none"
    <3>1. /\ outPipe # <<>> /\ outPipe' = Tail(outPipe)
          /\ UNCHANGED <<lineage, asked, tip, told, reply, heard, stage, retained, child, lied>>
      BY <1>4, <2>2 DEF Started, TakeAnswer, Reads
    <3> QED
      BY <1>0, <3>1, WireTaken DEF Quiet, Proceeds
  <2> QED
    BY <2>1, <2>2
<1>5. CASE Selected \/ Submitted
  <2>1. /\ outPipe # <<>> /\ outPipe' = Tail(outPipe)
        /\ UNCHANGED <<lineage, asked, tip, told, reply, heard, retained, child, lied>>
    BY <1>5 DEF Selected, Submitted, TakeAnswer, Reads
  <2>2. Proceeds
    BY <1>5, <2>1 DEF Selected, Submitted, Proceeds, Stages
  <2> QED
    BY <1>0, <2>1, <2>2, WireTaken DEF Quiet
<1>6. CASE Bind
  <2>1. outPipe' = outPipe /\ UNCHANGED <<lineage, asked, tip, told, reply, heard, retained, lied>>
    BY <1>6 DEF Bind
  <2>2. Binds \/ Proceeds
    BY <1>6 DEF Bind, Binds, Proceeds
  <2> QED
    BY <1>0, <2>1, <2>2, SameWire DEF Quiet
<1>7. CASE OtherEvent
  <2>1. outPipe # <<>> /\ outPipe' = Tail(outPipe) /\ UNCHANGED <<lineage, own>>
    BY <1>7 DEF OtherEvent, Apart, TakeEvent, Reads
  <2> QED
    BY <1>0, <2>1, WireTaken DEF Quiet, Proceeds
<1>8. CASE RetainIdentity
  <2>1. CASE Len(retained) < MaxStartup
    BY <1>8, <2>1 DEF Retains
  <2>2. CASE ~ (Len(retained) < MaxStartup)
    <3>1. outPipe # <<>> /\ outPipe' = Tail(outPipe) /\ UNCHANGED <<lineage, own>>
      BY <1>8, <2>2 DEF RetainIdentity, Reject, Reads
    <3> QED
      BY <1>0, <3>1, WireTaken DEF Quiet, Proceeds
  <2> QED
    BY <2>1, <2>2
<1>9. CASE ObserveIdentity
  <2>1. CASE Proven(child, Front.says)
    BY <1>9, <2>1 DEF Observes
  <2>2. CASE ~ Proven(child, Front.says)
    <3>1. outPipe # <<>> /\ outPipe' = Tail(outPipe) /\ UNCHANGED <<lineage, own>>
      BY <1>9, <2>2 DEF ObserveIdentity, Reject, Reads
    <3> QED
      BY <1>0, <3>1, WireTaken DEF Quiet, Proceeds
  <2> QED
    BY <2>1, <2>2
<1>10. CASE GatewayTells
  <2>0. 0 \in Says
    BY ChildSessionAssumption, SessionLineageAssumption
  <2>1. ASSUME NEW id \in Ids \ {1}, GatewayReplies(id, 0), Speaks(0, {0}) PROVE Quiet /\ Proceeds
    <3>1. id \in 0..MaxCalls /\ Len(outPipe) < Room /\ Emit(Frame("reply", id, 0))
      BY <2>1 DEF GatewayReplies, CanEmit, Ids
    <3>2. Older(0)
      BY <1>0, <2>0, <2>1, <3>1, SaysNothing, FramesAreFrames
    <3> QED
      BY <1>0, <2>1, <3>2 DEF Quiet, Proceeds, Speaks
  <2>2. ASSUME NEW s \in Says, GatewayEmits(s), Speaks(s, {0, tip}), s = 0 PROVE Quiet /\ Proceeds
    <3>1. Len(outPipe) < Room /\ Emit(Frame("event", 0, s)) /\ 0 \in 0..MaxCalls
      BY <2>2, TuiRpcAssumption DEF GatewayEmits, CanEmit
    <3>2. Older(0)
      BY <1>0, <2>2, <3>1, SaysNothing, FramesAreFrames
    <3> QED
      BY <1>0, <2>2, <3>2 DEF Quiet, Proceeds, Speaks
  <2>3. CASE \E s \in Says : GatewayEmits(s) /\ Speaks(s, {0, tip})
    BY <2>2, <2>3, Zenon DEF Emits
  <2>4. CASE told # 0 /\ \E s \in Says \ {0} : GatewayReplies(1, s) /\ Speaks(s, {told})
    <3>1. PICK s \in Says : s # 0 /\ GatewayReplies(1, s) /\ Speaks(s, {told})
      BY <2>4
    <3> QED
      BY <2>4, <3>1, Zenon DEF Answers
  <2> QED
    BY <1>10, <2>1, <2>3, <2>4, Zenon DEF GatewayTells
<1>11. CASE Host
  BY <1>11
<1> QED
  BY <1>1, <1>2, <1>3, <1>4, <1>5, <1>6, <1>7, <1>8, <1>9, <1>10, <1>11 DEF CNext, Host

-----------------------------------------------------------------------------
(* The table and the tip                                                    *)

LEMMA TableStep ==
  ASSUME Table, Identities, [CNext]_cvars
  PROVE  /\ Table'
         /\ Known \subseteq Known' /\ \A s \in Known : conversation'[s] = conversation[s]
<1>1. HostStep \/ UNCHANGED lineage
  <2> USE DEF worker, own, cvars
  <2>1. CASE HostOpens
    BY <2>1 DEF HostOpens, HostStep
  <2>2. CASE HostCompresses \/ HostBranches
    <3>1. tip \in Sessions
      BY <2>2, KnownAreNumbers DEF HostCompresses, HostBranches, Identities, Named, Table, LineageInv,
                                  LineageTypeOK
    <3>2. CASE HostCompresses
      BY <3>1, <3>2 DEF HostCompresses, HostStep
    <3>3. CASE HostBranches
      <4>1. "branch" \in Kinds
        BY DEF Kinds
      <4> QED
        BY <3>1, <3>3, <4>1, Zenon DEF HostBranches, HostStep
    <3> QED
      BY <2>2, <3>2, <3>3
  <2>3. CASE GatewayTells
    BY <2>3 DEF GatewayTells, Speaks
  <2>4. CASE Apart(Transport) \/ OtherEvent
    BY <2>4 DEF Apart, OtherEvent
  <2>5. CASE MakeCall \/ Started \/ Selected \/ Submitted \/ Bind \/ RetainIdentity \/ ObserveIdentity
    BY <2>5 DEF MakeCall, Started, Selected, Submitted, Bind, RetainIdentity, ObserveIdentity
  <2> QED
    BY <2>1, <2>2, <2>3, <2>4, <2>5 DEF CNext
<1> QED
  BY <1>1, HostKeeps, HostKeepsChain, TableGrows DEF Table

\* What the host does to the tip: nothing, a later session, or a first one.
LEMMA TipStep ==
  ASSUME Table, Identities, Tipped, Host
  PROVE  /\ UNCHANGED <<vars, asked, worker, lied>>
         /\ \/ tip' = tip /\ told' = told
            \/ tip' = tip /\ told' = tip /\ told = 0 /\ asked # 0
            \/ /\ tip # 0 /\ tip' \in Known' /\ tip' # 0 /\ told' = told
               /\ conversation'[tip'] = conversation[tip] /\ tip <= tip'
            \/ /\ tip = 0 /\ asked = 0 /\ tip' \in Known' /\ tip' # 0 /\ told' = tip'
         /\ \A s \in Known' : db'[s].end # "compressing"
<1>0. /\ LineageInv /\ db \in [Known -> Row] /\ Known \subseteq Sessions
      /\ \A s \in Known : db[s].end # "compressing"
  BY DEF Table, LineageInv, LineageTypeOK, Tipped
<1> USE DEF worker, own
<1>1. ASSUME NEW table, DOMAIN table = Known, NEW row, NEW of, Insert(table, row, of),
             \A s \in Known : table[s].end # "compressing", row.end = "open"
      PROVE  /\ Fresh \in Known' /\ Fresh # 0 /\ conversation'[Fresh] = of
             /\ \A s \in Known : s < Fresh
             /\ \A s \in Known' : db'[s].end # "compressing"
  <2>1. /\ Fresh \in Sessions /\ \A s \in Known : s < Fresh /\ db'[s] = table[s]
        /\ Known' = Known \cup {Fresh} /\ db'[Fresh] = row /\ conversation'[Fresh] = of
    BY <1>0, <1>1, Inserted
  <2> QED
    BY <1>1, <2>1 DEF Sessions
<1>2. CASE HostOpens /\ asked # 0
  BY <1>0, <1>2 DEF HostOpens, lineage, Known
<1>3. CASE HostOpens /\ asked = 0
  <2>1. PICK l \in Lanes : Insert(db, Opened(0, l, NoMark), Fresh)
    BY <1>3 DEF HostOpens, Begin
  <2>2. Opened(0, l, NoMark).end = "open"
    BY DEF Opened
  <2>3. Fresh \in Known' /\ Fresh # 0 /\ \A s \in Known' : db'[s].end # "compressing"
    BY <1>0, <1>1, <2>1, <2>2
  <2> QED
    BY <1>3, <2>3 DEF HostOpens, Tipped
<1>4. CASE HostCompresses
  <2>1. PICK l \in Lanes : Insert(Marked(tip, "compression"), Opened(tip, l, db[tip].mark), conversation[tip])
    BY <1>4 DEF HostCompresses, Compress
  <2>2. tip \in Known /\ tip \in Nat
    BY <1>0, <1>4, KnownAreNumbers DEF HostCompresses, Compress
  <2> DEFINE table == Marked(tip, "compression")
  <2>3. DOMAIN table = Known /\ \A s \in Known : table[s].end # "compressing"
    BY <1>0, <2>2 DEF Marked, Row
  <2>4. Opened(tip, l, db[tip].mark).end = "open"
    BY DEF Opened
  <2> HIDE DEF table
  <2>5. /\ Fresh \in Known' /\ Fresh # 0 /\ conversation'[Fresh] = conversation[tip]
        /\ tip < Fresh /\ \A s \in Known' : db'[s].end # "compressing"
    BY <1>1, <2>1, <2>2, <2>3, <2>4 DEF table
  <2>6. Fresh \in Nat
    BY <1>0, <2>1, SessionLineageAssumption DEF Insert, Sessions
  <2> QED
    BY <1>4, <2>2, <2>5, <2>6 DEF HostCompresses
<1>5. CASE HostBranches
  <2>1. PICK s \in Known : \E mark, of : Insert(db, Opened(s, db[s].lane, mark), of)
    <3>1. CASE Depart(tip, "branch")
      BY <3>1 DEF Depart
    <3>2. CASE \E s \in Known : Blur(s, db[s].mark)
      BY <3>2 DEF Blur
    <3> QED
      BY <1>5, <3>1, <3>2 DEF HostBranches
  <2>2. PICK mark, of : Insert(db, Opened(s, db[s].lane, mark), of)
    BY <2>1
  <2>3. Opened(s, db[s].lane, mark).end = "open"
    BY DEF Opened
  <2>4. \A r \in Known' : db'[r].end # "compressing"
    BY <1>0, <1>1, <2>2, <2>3
  <2> QED
    BY <1>5, <2>4 DEF HostBranches
<1> QED
  BY <1>2, <1>3, <1>4, <1>5 DEF Host

\* A session of the gateway's conversation is one for good.
LEMMA StillOfTip ==
  ASSUME Table, Identities, Tipped, [CNext]_cvars, NEW s, Named(s), OfTip(s),
         \/ tip' = tip
         \/ tip # 0 /\ tip' \in Known' /\ tip' # 0 /\ conversation'[tip'] = conversation[tip] /\ tip <= tip'
         \/ tip = 0
  PROVE  s # 0 => tip' # 0 /\ conversation'[s] = conversation'[tip'] /\ s <= tip'
<1> SUFFICES ASSUME s # 0 PROVE tip' # 0 /\ conversation'[s] = conversation'[tip'] /\ s <= tip'
  OBVIOUS
<1>1. s \in Known /\ tip # 0 /\ Follows(s, tip) /\ tip \in Known
  BY DEF Named, OfTip, Identities
<1>2. conversation'[s] = conversation[s] /\ conversation'[tip] = conversation[tip]
  BY <1>1, TableStep
<1>3. s \in Nat /\ tip \in Nat /\ \A r \in Known' : r \in Nat
  <2>1. LineageInv /\ LineageInv'
    BY TableStep DEF Table
  <2> QED
    BY <1>1, <2>1, KnownAreNumbers, SessionLineageAssumption DEF LineageInv, LineageTypeOK, Sessions
<1> QED
  BY <1>1, <1>2, <1>3 DEF Follows

-----------------------------------------------------------------------------
(* Each kind of step                                                        *)

\* What the worker and the wire know of the child.
Knowledge == Identities /\ Staged /\ Tipped /\ HeardIsNewest /\ OnCourse /\ Truthful /\ WireTruthful

LEMMA QuietKeeps ==
  ASSUME Knowledge, Quiet, Named(child)', Staged', HeardIsNewest', OnCourse'
  PROVE  Knowledge'
<1>1. UNCHANGED <<db, conversation, asked, tip, told, reply, retained, heard, lied>> /\ Known' = Known
  BY DEF Quiet, lineage, Known
<1>2. PICK d \in {0, 1} : Older(d)
  BY DEF Quiet
<1>3. Identities'
  BY <1>1, <1>2 DEF Knowledge, Identities, Named, Older
<1>4. Tipped' /\ Truthful'
  BY <1>1 DEF Knowledge, Tipped, Truthful, OfTip, Follows
<1>5. WireTruthful'
  <2> SUFFICES ASSUME ~ lied PROVE WireTruthful'
    BY <1>1 DEF WireTruthful
  <2>1. ASSUME NEW i, Event(i)' PROVE OfTip(outPipe[i].says)' /\ heard' <= outPipe'[i].says
    <3>1. Event(i + d) /\ outPipe'[i].says = outPipe[i + d].says
      BY <1>2, <2>1 DEF Older
    <3> QED
      BY <1>1, <3>1 DEF Knowledge, WireTruthful, OfTip, Follows
  <2>2. ASSUME NEW i, Answer(i)' PROVE told' # 0 /\ outPipe'[i].says = told'
    BY <1>1, <1>2, <2>2 DEF Older, Knowledge, WireTruthful
  <2>3. ASSUME NEW i, NEW j, Event(i)' \/ Answer(i)', Event(j)', i < j
        PROVE  /\ Event(i)' => outPipe'[i].says <= outPipe'[j].says
               /\ Answer(i)' => told' <= outPipe'[j].says
    <3>1. /\ i \in Nat /\ j \in Nat /\ Event(j + d) /\ outPipe'[j].says = outPipe[j + d].says
          /\ Event(i)' => Event(i + d) /\ outPipe'[i].says = outPipe[i + d].says
          /\ Answer(i)' => Answer(i + d)
      BY <1>2, <2>3 DEF Older
    <3>2. i + d < j + d
      BY <2>3, <3>1
    <3> QED
      BY <1>1, <3>1, <3>2 DEF Knowledge, WireTruthful
  <2> QED
    BY <2>1, <2>2, <2>3 DEF WireTruthful
<1> QED
  BY <1>3, <1>4, <1>5 DEF Knowledge

LEMMA ProceedsKeeps == ASSUME Knowledge, Quiet, Proceeds PROVE Knowledge'
<1>1. UNCHANGED <<conversation, asked, reply, retained, heard>> /\ child' = child /\ Known' = Known
  BY DEF Quiet, Proceeds, lineage, Known
<1>2. Named(child)' /\ HeardIsNewest' /\ OnCourse'
  BY <1>1 DEF Knowledge, Identities, Named, HeardIsNewest, OnCourse, Follows
<1>3. Staged'
  BY <1>1 DEF Knowledge, Staged, Proceeds
<1> QED
  BY <1>2, <1>3, QuietKeeps

LEMMA BindsKeeps == ASSUME Table, Knowledge, Quiet, Binds PROVE Knowledge'
<1>1. UNCHANGED <<conversation, asked, reply, retained, heard>> /\ stage' = "submit" /\ Known' = Known
  BY DEF Quiet, Binds, lineage, Known
<1>2. LineageInv /\ Identities /\ reply # 0 /\ child = 0 /\ Acceptable
  BY DEF Table, Knowledge, Staged, Binds
<1>3. PICK new : new = Newest(Replayed)
  OBVIOUS
<1>4. /\ new \in Known /\ new # 0
      /\ new = reply \/ \E k \in 1..Len(retained) : new = retained[k]
      /\ reply <= new /\ \A k \in 1..Len(retained) : retained[k] <= new
      /\ asked # 0 => Follows(asked, new)
  BY <1>2, <1>3, Binding
<1>5. child' = new
  BY <1>3 DEF Binds
<1>6. heard = new
  <2>1. heard \in Nat /\ reply \in Nat /\ new \in Nat /\ \A k \in 1..Len(retained) : retained[k] \in Nat
    BY <1>2, <1>4, KnownAreNumbers DEF Identities, Named
  <2>2. new <= heard
    BY <1>2, <1>4, <2>1 DEF Knowledge, HeardIsNewest
  <2>3. heard <= new
    BY <1>2, <1>4, <2>1 DEF Knowledge, HeardIsNewest
  <2> QED
    BY <2>1, <2>2, <2>3
<1>7. Named(child)' /\ HeardIsNewest'
  BY <1>1, <1>4, <1>5, <1>6 DEF Named, HeardIsNewest
<1>8. Staged'
  BY <1>1, <1>2, <1>4, <1>5 DEF Staged, Stages
<1>9. OnCourse'
  BY <1>1, <1>4, <1>5 DEF OnCourse, Follows
<1> QED
  BY <1>7, <1>8, <1>9, QuietKeeps

LEMMA HostKeepsKnowledge ==
  ASSUME Table, Knowledge, [CNext]_cvars, Host
  PROVE  Knowledge'
<1>0. Identities /\ Tipped /\ Staged
  BY DEF Knowledge
<1>1. UNCHANGED <<outPipe, asked, reply, retained, stage, child, heard, lied>>
  BY <1>0, TipStep DEF vars, pipes, worker
<1>2. Known \subseteq Known' /\ \A s \in Known : conversation'[s] = conversation[s]
  BY <1>0, TableStep
<1>3. \/ tip' = tip /\ told' = told
      \/ tip' = tip /\ told' = tip /\ told = 0 /\ asked # 0
      \/ /\ tip # 0 /\ tip' \in Known' /\ tip' # 0 /\ told' = told
         /\ conversation'[tip'] = conversation[tip] /\ tip <= tip'
      \/ /\ tip = 0 /\ asked = 0 /\ tip' \in Known' /\ tip' # 0 /\ told' = tip'
  BY <1>0, TipStep
<1>4. ASSUME NEW s, Named(s), OfTip(s)
      PROVE  s # 0 => tip' # 0 /\ conversation'[s] = conversation'[tip'] /\ s <= tip'
  BY <1>0, <1>3, <1>4, StillOfTip
<1>5. \A i : (Event(i)' <=> Event(i)) /\ (Answer(i)' <=> Answer(i))
  BY <1>1 DEF Event, Answer
<1>6. Identities'
  <2>1. asked' = 0 \/ asked' \in Known'
    BY <1>0, <1>1, <1>2 DEF Identities, Named
  <2>2. (tip' = 0 \/ tip' \in Known') /\ (told' = 0 \/ told' \in Known')
    BY <1>0, <1>2, <1>3 DEF Identities, Named
  <2>3. /\ reply' = 0 \/ reply' \in Known'
        /\ child' = 0 \/ child' \in Known'
        /\ heard' = 0 \/ heard' \in Known'
        /\ \A k \in 1..Len(retained') : retained'[k] \in Known'
    BY <1>0, <1>1, <1>2 DEF Identities, Named
  <2>4. \A i : Event(i)' \/ Answer(i)' => outPipe'[i].says \in Known'
    BY <1>0, <1>1, <1>2, <1>5 DEF Identities
  <2> QED
    BY <1>0, <1>1, <2>1, <2>2, <2>3, <2>4 DEF Identities, Named
<1>7. Staged' /\ HeardIsNewest'
  BY <1>1 DEF Knowledge, Staged, HeardIsNewest
<1>8. OnCourse'
  <2> SUFFICES ASSUME child # 0, asked # 0 PROVE Follows(asked, child)'
    BY <1>1 DEF OnCourse
  <2>1. asked \in Known /\ child \in Known /\ Follows(asked, child)
    BY DEF Knowledge, Identities, Named, OnCourse
  <2> QED
    BY <1>1, <1>2, <2>1 DEF Follows
<1>9. asked # 0 => tip' # 0 /\ Follows(asked, tip)'
  <2> SUFFICES ASSUME asked # 0 PROVE tip' # 0 /\ Follows(asked, tip)'
    OBVIOUS
  <2>1. Named(asked) /\ OfTip(asked)
    BY <1>0 DEF Identities, Tipped, OfTip
  <2>2. PICK s : s = asked
    OBVIOUS
  <2>3. tip' # 0 /\ conversation'[s] = conversation'[tip'] /\ s <= tip'
    BY <1>4, <2>1, <2>2
  <2> QED
    BY <1>1, <2>2, <2>3 DEF Follows
<1>10. Tipped'
  <2>1. asked' = 0 => (tip' = 0 <=> told' = 0)
    BY <1>0, <1>1, <1>3 DEF Tipped
  <2>2. \A s \in Known' : db'[s].end # "compressing"
    BY <1>0, TipStep
  <2> QED
    BY <1>1, <1>9, <2>1, <2>2 DEF Tipped
\* The answer that is made tells where the conversation is.
<1>11. /\ told # 0 => told' = told
       /\ told = 0 => told' = 0 \/ told' = tip'
  BY <1>0, <1>3 DEF Tipped
<1>12. Truthful'
  <2> SUFFICES ASSUME ~ lied PROVE Truthful'
    BY <1>1 DEF Truthful
  <2>0. /\ OfTip(told) /\ OfTip(heard)
        /\ reply = 0 \/ reply = told
        /\ asked # 0 /\ told # 0 => Follows(asked, told)
        /\ \A k \in 1..Len(retained) : OfTip(retained[k])
        /\ \A k, m \in 1..Len(retained) : k <= m => retained[k] <= retained[m]
    BY DEF Knowledge, Truthful
  <2>1. OfTip(told)'
    <3>1. CASE told # 0
      <4>1. PICK s : s = told
        OBVIOUS
      <4>2. tip' # 0 /\ conversation'[s] = conversation'[tip'] /\ s <= tip'
        BY <1>0, <1>4, <2>0, <3>1, <4>1 DEF Identities
      <4> QED
        BY <1>11, <3>1, <4>1, <4>2 DEF OfTip, Follows
    <3>2. CASE told' = tip'
      <4>1. tip' # 0 => tip' \in Nat
        BY <1>6, TableStep, <1>0, SessionLineageAssumption
        DEF Identities, Named, Table, LineageInv, LineageTypeOK, Sessions
      <4> QED
        BY <3>2, <4>1 DEF OfTip, Follows
    <3> QED
      BY <1>11, <3>1, <3>2 DEF OfTip
  <2>2. OfTip(heard)'
    <3>1. PICK s : s = heard
      OBVIOUS
    <3>2. s # 0 => tip' # 0 /\ conversation'[s] = conversation'[tip'] /\ s <= tip'
      BY <1>0, <1>4, <2>0, <3>1 DEF Identities
    <3> QED
      BY <1>1, <3>1, <3>2 DEF OfTip, Follows
  <2>3. reply' = 0 \/ reply' = told'
    BY <1>1, <1>11, <2>0
  <2>4. asked' # 0 /\ told' # 0 => Follows(asked, told)'
    <3> SUFFICES ASSUME asked # 0, told' # 0 PROVE Follows(asked, told)'
      BY <1>1
    <3>1. CASE told # 0
      <4>1. asked \in Known /\ told \in Known /\ Follows(asked, told)
        BY <1>0, <2>0, <3>1 DEF Identities, Named
      <4> QED
        BY <1>1, <1>2, <1>11, <3>1, <4>1 DEF Follows
    <3>2. CASE told = 0
      BY <1>1, <1>9, <1>11, <3>2 DEF Follows
    <3> QED
      BY <3>1, <3>2
  <2>5. ASSUME NEW k \in 1..Len(retained) PROVE OfTip(retained[k])'
    <3>1. PICK s : s = retained[k]
      OBVIOUS
    <3>2. s # 0 => tip' # 0 /\ conversation'[s] = conversation'[tip'] /\ s <= tip'
      BY <1>0, <1>4, <2>0, <3>1 DEF Identities, Named
    <3> QED
      BY <1>1, <3>1, <3>2 DEF OfTip, Follows
  <2> QED
    BY <1>1, <2>0, <2>1, <2>2, <2>3, <2>4, <2>5 DEF Truthful
<1>13. WireTruthful'
  <2> SUFFICES ASSUME ~ lied PROVE WireTruthful'
    BY <1>1 DEF WireTruthful
  <2>1. ASSUME NEW i, Event(i) PROVE OfTip(outPipe[i].says)' /\ heard' <= outPipe'[i].says
    <3>1. PICK s : s = outPipe[i].says
      OBVIOUS
    <3>2. Named(s) /\ OfTip(s) /\ heard <= s
      BY <1>0, <2>1, <3>1 DEF Knowledge, WireTruthful, Identities, Named
    <3>3. s # 0 => tip' # 0 /\ conversation'[s] = conversation'[tip'] /\ s <= tip'
      BY <1>4, <3>2
    <3> QED
      BY <1>1, <3>1, <3>2, <3>3 DEF OfTip, Follows
  <2>2. \A i : Answer(i) => told # 0 /\ told' = told /\ outPipe[i].says = told
    BY <1>11 DEF Knowledge, WireTruthful
  <2>3. /\ \A i, j : Event(i) /\ Event(j) /\ i < j => outPipe[i].says <= outPipe[j].says
        /\ \A i, j : Answer(i) /\ Event(j) /\ i < j => told <= outPipe[j].says
    BY DEF Knowledge, WireTruthful
  <2> QED
    BY <1>1, <1>5, <2>1, <2>2, <2>3 DEF WireTruthful
<1> QED
  BY <1>6, <1>7, <1>8, <1>10, <1>12, <1>13 DEF Knowledge

\* The gateway names its own session, or one it lies about.
LEMMA TellingKeeps ==
  ASSUME Base, Table, Knowledge, NEW s \in Says, Emits(s) \/ Answers(s)
  PROVE  Knowledge'
<1>0. TypeOK /\ LineageInv /\ Identities
  BY DEF Base, Table, Knowledge
<1>1. /\ UNCHANGED <<db, conversation, asked, tip, told, reply, retained, stage, child, heard>>
      /\ Known' = Known /\ s # 0
  BY DEF Emits, Answers, Speaks, worker, lineage, Known
<1>2. /\ s \in Known
      /\ lied' \in BOOLEAN /\ (lied => lied')
      /\ ~ lied' => s = tip \/ s = told
      /\ ~ lied' /\ Emits(s) => s = tip
      /\ ~ lied' /\ Answers(s) => s = told
  BY <1>0, <1>1 DEF Emits, Answers, Speaks, Identities, Named
<1>3. PICK f \in Frames : /\ Emit(f) /\ Len(outPipe) < Room /\ f.says = s
                          /\ \/ f.kind = "event" /\ Emits(s)
                             \/ f.kind = "reply" /\ f.id = 1 /\ Answers(s)
  <2>1. CASE Emits(s)
    <3>1. 0 \in 0..MaxCalls
      BY TuiRpcAssumption
    <3> QED
      BY <2>1, <3>1, FramesAreFrames DEF Emits, GatewayEmits, CanEmit
  <2>2. CASE Answers(s)
    <3>1. 1 \in 0..MaxCalls
      BY <1>0, <2>2 DEF Answers, GatewayReplies, TypeOK, Ids
    <3> QED
      BY <2>2, <3>1, FramesAreFrames DEF Answers, GatewayReplies, CanEmit
  <2> QED
    BY <2>1, <2>2
<1>4. PICK last : last = Len(outPipe')
  OBVIOUS
<1>5. /\ \A i : Event(i)' => (Event(i) /\ outPipe'[i] = outPipe[i]) \/ (i = last /\ outPipe'[i] = f)
      /\ \A i : Answer(i)' => (Answer(i) /\ outPipe'[i] = outPipe[i]) \/ (i = last /\ outPipe'[i] = f)
      /\ \A i : Event(i) \/ Answer(i) => i < last /\ i \in Nat
      /\ last \in Nat
  <2>1. last \in Nat
    BY <1>0, <1>3, <1>4, Emitted
  <2>2. \A i : Event(i) \/ Answer(i) => i \in Nat
    BY <1>0 DEF Event, Answer, TypeOK
  <2> QED
    BY <1>0, <1>3, <1>4, <2>1, <2>2, WireEmitted
<1>6. \A i : (Event(i)' /\ outPipe'[i] = f => f.kind = "event") /\ (Answer(i)' /\ outPipe'[i] = f => f.kind = "reply")
  BY DEF Event, Answer
<1>7. Identities'
  <2>1. \A i : Event(i)' \/ Answer(i)' => outPipe'[i].says \in Known
    BY <1>0, <1>2, <1>3, <1>5 DEF Identities
  <2> QED
    BY <1>0, <1>1, <1>2, <2>1 DEF Identities, Named
<1>8. Staged' /\ Tipped' /\ HeardIsNewest' /\ OnCourse' /\ Truthful'
  BY <1>1, <1>2 DEF Knowledge, Staged, Tipped, HeardIsNewest, OnCourse, Truthful, OfTip, Follows
<1>9. WireTruthful'
  <2> SUFFICES ASSUME ~ lied' PROVE WireTruthful'
    BY DEF WireTruthful
  <2>0. /\ ~ lied /\ WireTruthful /\ OfTip(told) /\ OfTip(heard)
    BY <1>2 DEF Knowledge, Truthful
  <2>1. /\ Emits(s) => OfTip(s) /\ heard <= s /\ told <= s
        /\ \A x \in Known : OfTip(x) /\ Emits(s) => x <= s
    <3> SUFFICES ASSUME Emits(s)
                 PROVE  OfTip(s) /\ heard <= s /\ told <= s /\ \A x \in Known : OfTip(x) => x <= s
      OBVIOUS
    <3>1. s = tip /\ s \in Known /\ s \in Nat
      BY <1>0, <1>2, KnownAreNumbers
    <3>2. \A x \in Known : OfTip(x) => x <= s
      BY <1>0, <3>1, KnownAreNumbers DEF OfTip, Follows
    <3>3. OfTip(s)
      <4>1. Follows(tip, tip)
        BY <1>0, <3>1, FollowsSelf
      <4> QED
        BY <1>1, <3>1, <4>1 DEF OfTip
    <3>4. (heard = 0 \/ heard \in Known) /\ (told = 0 \/ told \in Known)
      BY <1>0 DEF Identities, Named
    <3>5. heard <= s
      <4>1. CASE heard = 0
        BY <3>1, <4>1
      <4>2. CASE heard \in Known
        BY <2>0, <3>2, <4>2
      <4> QED
        BY <3>4, <4>1, <4>2
    <3>6. told <= s
      <4>1. CASE told = 0
        BY <3>1, <4>1
      <4>2. CASE told \in Known
        BY <2>0, <3>2, <4>2
      <4> QED
        BY <3>4, <4>1, <4>2
    <3> QED
      BY <3>2, <3>3, <3>5, <3>6
  <2>2. ASSUME NEW i, Event(i)' PROVE OfTip(outPipe[i].says)' /\ heard' <= outPipe'[i].says
    <3>1. \/ Event(i) /\ outPipe'[i] = outPipe[i]
          \/ outPipe'[i].says = s /\ Emits(s)
      BY <1>3, <1>5, <1>6, <2>2
    <3>2. PICK x : x = outPipe'[i].says
      OBVIOUS
    <3>3. OfTip(x) /\ heard <= x
      BY <2>0, <2>1, <3>1, <3>2 DEF WireTruthful
    <3> QED
      BY <1>1, <3>2, <3>3 DEF OfTip, Follows
  <2>3. ASSUME NEW i, Answer(i)' PROVE told' # 0 /\ outPipe'[i].says = told'
    <3>1. \/ Answer(i) /\ outPipe'[i] = outPipe[i]
          \/ outPipe'[i].says = s /\ Answers(s)
      BY <1>3, <1>5, <1>6, <2>3
    <3> QED
      BY <1>1, <1>2, <2>0, <3>1 DEF WireTruthful, Answers
  <2>4. ASSUME NEW i, NEW j, Event(i)' \/ Answer(i)', Event(j)', i < j
        PROVE  /\ Event(i)' => outPipe'[i].says <= outPipe'[j].says
               /\ Answer(i)' => told' <= outPipe'[j].says
    <3>1. \/ Event(j) /\ outPipe'[j] = outPipe[j]
          \/ j = last /\ outPipe'[j].says = s /\ Emits(s)
      BY <1>3, <1>5, <1>6, <2>4
    <3>2. i # last
      BY <1>5, <2>4, <3>1
    <3>3. /\ Event(i)' => Event(i) /\ outPipe'[i] = outPipe[i]
          /\ Answer(i)' => Answer(i)
      BY <1>5, <3>2
    <3>4. CASE Event(j) /\ outPipe'[j] = outPipe[j]
      BY <1>1, <2>0, <2>4, <3>3, <3>4 DEF WireTruthful
    <3>5. CASE outPipe'[j].says = s /\ Emits(s)
      <4>1. Event(i) => outPipe[i].says \in Known /\ OfTip(outPipe[i].says)
        BY <1>0, <2>0 DEF Identities, WireTruthful
      <4> QED
        BY <1>1, <2>1, <3>3, <3>5, <4>1
    <3> QED
      BY <3>1, <3>4, <3>5
  <2> QED
    BY <2>2, <2>3, <2>4 DEF WireTruthful
<1> QED
  BY <1>7, <1>8, <1>9 DEF Knowledge

\* What is taken from the wire was in front of the rest.
LEMMA TakenFromTheWire ==
  ASSUME Base, Identities, outPipe # <<>>, outPipe' = Tail(outPipe), UNCHANGED <<db, conversation>>
  PROVE  /\ Front = outPipe[1] /\ 1 \in 1..Len(outPipe) /\ Front.says \in Nat
         /\ \A i : Event(i)' => Event(i + 1) /\ outPipe'[i].says = outPipe[i + 1].says /\ 1 < i + 1 /\ i \in Nat
         /\ \A i : Answer(i)' => Answer(i + 1) /\ outPipe'[i].says = outPipe[i + 1].says /\ i \in Nat
         /\ \A i : Event(i)' \/ Answer(i)' => outPipe'[i].says \in Known'
<1>0. TypeOK
  BY DEF Base
<1>1. Older(1) /\ \A i : Event(i)' => i \in 1..Len(outPipe')
  BY <1>0, WireTaken DEF Event
<1>2. Len(outPipe') \in Nat /\ Front = outPipe[1] /\ 1 \in 1..Len(outPipe) /\ Front \in Frames
  BY <1>0, Taken
<1>3. Front.says \in Nat
  BY <1>2, ChildSessionAssumption, SessionLineageAssumption DEF Frames
<1>4. \A i : Event(i)' \/ Answer(i)' => outPipe'[i].says \in Known'
  BY <1>1 DEF Identities, Older, Known
<1>5. \A i : Event(i)' => 1 < i + 1
  BY <1>1, <1>2
<1> QED
  BY <1>1, <1>2, <1>3, <1>4, <1>5 DEF Older

\* The rest of the wire goes on from what was read, if that is what is now heard.
LEMMA WireGoesOn ==
  ASSUME Base, Identities, WireTruthful, outPipe # <<>>, outPipe' = Tail(outPipe),
         UNCHANGED <<db, conversation, tip, told, lied>>,
         ~ lied => \A i : Event(i)' => heard' <= outPipe'[i].says
  PROVE  WireTruthful'
<1> SUFFICES ASSUME ~ lied PROVE WireTruthful'
  BY DEF WireTruthful
<1>0. /\ \A i : Event(i)' => Event(i + 1) /\ outPipe'[i].says = outPipe[i + 1].says /\ i \in Nat
      /\ \A i : Answer(i)' => Answer(i + 1) /\ outPipe'[i].says = outPipe[i + 1].says /\ i \in Nat
  BY TakenFromTheWire
<1>1. ASSUME NEW i, Event(i)' PROVE OfTip(outPipe[i].says)' /\ heard' <= outPipe'[i].says
  <2>1. OfTip(outPipe[i + 1].says) /\ outPipe'[i].says = outPipe[i + 1].says
    BY <1>0, <1>1 DEF WireTruthful
  <2> QED
    BY <1>1, <2>1 DEF OfTip, Follows
<1>2. ASSUME NEW i, Answer(i)' PROVE told' # 0 /\ outPipe'[i].says = told'
  BY <1>0, <1>2 DEF WireTruthful
<1>3. ASSUME NEW i, NEW j, Event(i)' \/ Answer(i)', Event(j)', i < j
      PROVE  /\ Event(i)' => outPipe'[i].says <= outPipe'[j].says
             /\ Answer(i)' => told' <= outPipe'[j].says
  <2>1. /\ i \in Nat /\ j \in Nat /\ Event(j + 1) /\ outPipe'[j].says = outPipe[j + 1].says
        /\ Event(i)' => Event(i + 1) /\ outPipe'[i].says = outPipe[i + 1].says
        /\ Answer(i)' => Answer(i + 1)
    BY <1>0, <1>3
  <2>2. i + 1 < j + 1
    BY <1>3, <2>1
  <2> QED
    BY <2>1, <2>2 DEF WireTruthful
<1> QED
  BY <1>1, <1>2, <1>3 DEF WireTruthful

LEMMA LearningKeeps == ASSUME Base, Table, Knowledge, Learns PROVE Knowledge'
<1>0. TypeOK /\ LineageInv /\ Identities /\ Staged /\ HeardIsNewest
  BY DEF Base, Table, Knowledge
<1>1. /\ stage = "start" /\ stage' \in {"select", "bind"} /\ reply = 0 /\ child = 0
      /\ UNCHANGED <<db, conversation, asked, tip, told, retained, child, lied>> /\ Known' = Known
      /\ outPipe # <<>> /\ outPipe' = Tail(outPipe)
      /\ Front.kind = "reply" /\ Front.id = 1 /\ reply' = Front.says
      /\ heard' = IF Front.says > heard THEN Front.says ELSE heard
  BY <1>0 DEF Learns, Started, TakeAnswer, Reads, lineage, Known, Staged
<1>2. PICK s : s = Front.says
  OBVIOUS
<1>3. Answer(1) /\ outPipe[1].says = s /\ s \in Known /\ s \in Nat /\ s # 0
  <2>1. Answer(1) /\ outPipe[1].says = s
    BY <1>0, <1>1, <1>2, TakenFromTheWire DEF Answer
  <2> QED
    BY <1>0, <2>1, KnownAreNumbers DEF Identities
<1>4. heard \in Nat /\ \A k \in 1..Len(retained) : retained[k] \in Nat
  BY <1>0, KnownAreNumbers DEF Identities, Named
<1>5. /\ reply' = s /\ heard <= heard' /\ s <= heard'
      /\ heard' = s \/ (heard' = heard /\ heard # 0)
  BY <1>1, <1>2, <1>3, <1>4
<1>6. Identities'
  BY <1>0, <1>1, <1>3, <1>5, TakenFromTheWire DEF Identities, Named
<1>7. Staged' /\ Tipped' /\ OnCourse'
  BY <1>1, <1>3, <1>5 DEF Knowledge, Staged, Stages, Tipped, OnCourse, Follows
<1>8. HeardIsNewest'
  <2>1. heard' = 0 \/ heard' = reply' \/ \E k \in 1..Len(retained) : heard' = retained[k]
    BY <1>0, <1>1, <1>5 DEF HeardIsNewest
  <2>2. \A k \in 1..Len(retained) : retained[k] <= heard'
    <3>1. heard' \in Nat /\ \A k \in 1..Len(retained) : retained[k] <= heard
      BY <1>0, <1>1, <1>3, <1>4, <1>5 DEF HeardIsNewest
    <3> QED
      BY <1>4, <1>5, <3>1
  <2> QED
    BY <1>1, <1>5, <2>1, <2>2 DEF HeardIsNewest
<1>9. Truthful'
  <2> SUFFICES ASSUME ~ lied PROVE Truthful'
    BY <1>1 DEF Truthful
  <2>1. s = told
    BY <1>3 DEF Knowledge, WireTruthful
  <2>2. heard' = told \/ heard' = heard
    BY <1>5, <2>1
  <2>3. OfTip(told) /\ OfTip(heard)
    BY DEF Knowledge, Truthful
  <2>4. OfTip(heard)'
    BY <1>1, <2>2, <2>3 DEF OfTip, Follows
  <2> QED
    BY <1>1, <1>5, <2>1, <2>4 DEF Knowledge, Truthful, OfTip, Follows
<1>10. WireTruthful'
  <2>1. ASSUME ~ lied, NEW i, Event(i)' PROVE heard' <= outPipe'[i].says
    <3>1. Event(i + 1) /\ outPipe'[i].says = outPipe[i + 1].says /\ 1 < i + 1
      BY <1>0, <1>1, <2>1, TakenFromTheWire
    <3>2. heard <= outPipe'[i].says /\ told <= outPipe'[i].says /\ s = told
      BY <1>3, <2>1, <3>1 DEF Knowledge, WireTruthful
    <3> QED
      BY <1>5, <3>2
  <2> QED
    BY <1>0, <1>1, <2>1, WireGoesOn DEF Knowledge
<1> QED
  BY <1>6, <1>7, <1>8, <1>9, <1>10 DEF Knowledge

LEMMA RetainingKeeps == ASSUME Base, Table, Knowledge, Retains PROVE Knowledge'
<1>0. TypeOK /\ LineageInv /\ Identities /\ Staged /\ HeardIsNewest /\ Tipped
  BY DEF Base, Table, Knowledge
<1>1. /\ child = 0
      /\ UNCHANGED <<db, conversation, asked, tip, told, reply, stage, child, lied>> /\ Known' = Known
      /\ outPipe # <<>> /\ outPipe' = Tail(outPipe)
      /\ Front.kind = "event" /\ Front.says # 0
      /\ retained' = Append(retained, Front.says) /\ Len(retained) < MaxStartup
      /\ heard' = IF Front.says > heard THEN Front.says ELSE heard
  BY DEF Retains, RetainIdentity, TakeEvent, Reads, Hear, lineage, Known
<1>2. PICK s : s = Front.says
  OBVIOUS
<1>3. Event(1) /\ outPipe[1].says = s /\ s \in Known /\ s \in Nat /\ s # 0 /\ s \in Sessions
  <2>1. Event(1) /\ outPipe[1].says = s
    BY <1>0, <1>1, <1>2, TakenFromTheWire DEF Event
  <2> QED
    BY <1>0, <2>1, KnownAreNumbers DEF Identities, LineageInv, LineageTypeOK
<1>4. PICK n \in Nat : n = Len(retained)
  BY <1>0 DEF Identities
<1>5. /\ retained' \in Seq(Sessions) /\ Len(retained') = n + 1
      /\ retained'[n + 1] = s /\ \A k \in 1..n : retained'[k] = retained[k]
  BY <1>0, <1>1, <1>2, <1>3, <1>4 DEF Identities
<1>6. /\ heard \in Nat /\ reply \in Nat /\ \A k \in 1..n : retained[k] \in Nat /\ retained[k] \in Known
      /\ \A k \in 1..n : retained[k] <= heard
      /\ reply <= heard
  BY <1>0, <1>1, <1>4, KnownAreNumbers DEF Identities, Named, HeardIsNewest
<1>7. /\ heard <= heard' /\ s <= heard' /\ heard' \in Nat
      /\ heard' = s \/ (heard' = heard /\ heard # 0)
  BY <1>1, <1>2, <1>3, <1>6
<1>8. Identities'
  <2>1. \A k \in 1..(n + 1) : retained'[k] \in Known
    BY <1>3, <1>5, <1>6
  <2>2. Len(retained') <= MaxStartup
    BY <1>1, <1>4, <1>5, ChildSessionAssumption
  <2>3. Named(heard)'
    BY <1>0, <1>1, <1>3, <1>7 DEF Identities, Named
  <2>4. \A i : Event(i)' \/ Answer(i)' => outPipe'[i].says \in Known'
    BY <1>0, <1>1, TakenFromTheWire
  <2> QED
    BY <1>0, <1>1, <1>5, <2>1, <2>2, <2>3, <2>4 DEF Identities, Named
<1>9. Staged' /\ Tipped' /\ OnCourse'
  BY <1>1 DEF Knowledge, Staged, Tipped, OnCourse, Follows
<1>10. HeardIsNewest'
  <2>1. heard' = reply \/ \E k \in 1..(n + 1) : heard' = retained'[k]
    <3>1. CASE heard' = s
      BY <1>5, <3>1
    <3>2. CASE heard' = heard /\ heard # 0
      <4>1. heard = reply \/ \E k \in 1..n : heard = retained[k]
        BY <1>0, <1>1, <1>4, <3>2 DEF HeardIsNewest
      <4> QED
        BY <1>5, <3>2, <4>1
    <3> QED
      BY <1>7, <3>1, <3>2
  <2>2. reply <= heard'
    BY <1>6, <1>7
  <2>3. \A k \in 1..(n + 1) : retained'[k] <= heard'
    <3> TAKE k \in 1..(n + 1)
    <3>1. CASE k = n + 1
      BY <1>5, <1>7, <3>1
    <3>2. CASE k \in 1..n
      BY <1>5, <1>6, <1>7, <3>2
    <3> QED
      BY <1>4, <3>1, <3>2
  <2> QED
    BY <1>1, <1>5, <2>1, <2>2, <2>3 DEF HeardIsNewest
<1>11. ASSUME ~ lied PROVE OfTip(s) /\ heard <= s
  BY <1>3, <1>11 DEF Knowledge, WireTruthful
<1>12. Truthful'
  <2> SUFFICES ASSUME ~ lied PROVE Truthful'
    BY <1>1 DEF Truthful
  <2>0. /\ OfTip(told) /\ OfTip(heard)
        /\ reply = 0 \/ reply = told
        /\ asked # 0 /\ told # 0 => Follows(asked, told)
        /\ \A k \in 1..n : OfTip(retained[k])
        /\ \A k, m \in 1..n : k <= m => retained[k] <= retained[m]
    BY <1>4 DEF Knowledge, Truthful
  <2>1. ASSUME NEW x, OfTip(x), x # 0 PROVE tip # 0 /\ conversation[x] = conversation[tip] /\ x <= tip
    BY <2>1 DEF OfTip, Follows
  <2>2. OfTip(told)' /\ (reply' = 0 \/ reply' = told') /\ (asked' # 0 /\ told' # 0 => Follows(asked, told)')
    BY <1>1, <2>0 DEF OfTip, Follows
  <2>3. OfTip(heard)'
    BY <1>1, <1>7, <1>11, <2>0 DEF OfTip, Follows
  <2>4. ASSUME NEW k \in 1..(n + 1) PROVE OfTip(retained[k])'
    <3>1. PICK x : x = retained'[k]
      OBVIOUS
    <3>2. OfTip(x)
      BY <1>4, <1>5, <1>11, <2>0, <3>1
    <3> QED
      BY <1>1, <3>1, <3>2 DEF OfTip, Follows
  <2>5. ASSUME NEW k \in 1..(n + 1), NEW m \in 1..(n + 1), k <= m PROVE retained'[k] <= retained'[m]
    <3>1. CASE m = n + 1
      <4>1. retained'[k] <= heard'
        BY <1>5, <1>10, <1>1 DEF HeardIsNewest
      <4>2. heard' = s
        BY <1>3, <1>6, <1>7, <1>11
      <4> QED
        BY <1>5, <3>1, <4>1, <4>2
    <3>2. CASE m \in 1..n
      <4>1. k \in 1..n
        BY <1>4, <2>5, <3>2
      <4> QED
        BY <1>5, <2>0, <2>5, <3>2, <4>1
    <3> QED
      BY <1>4, <3>1, <3>2
  <2> QED
    BY <1>5, <2>2, <2>3, <2>4, <2>5 DEF Truthful
<1>13. WireTruthful'
  <2>1. ASSUME ~ lied, NEW i, Event(i)' PROVE heard' <= outPipe'[i].says
    <3>1. Event(i + 1) /\ outPipe'[i].says = outPipe[i + 1].says /\ 1 < i + 1
      BY <1>0, <1>1, <2>1, TakenFromTheWire
    <3>2. s <= outPipe'[i].says /\ heard <= outPipe'[i].says
      BY <1>3, <2>1, <3>1 DEF Knowledge, WireTruthful
    <3> QED
      BY <1>7, <3>2
  <2> QED
    BY <1>0, <1>1, <2>1, WireGoesOn DEF Knowledge
<1> QED
  BY <1>8, <1>9, <1>10, <1>12, <1>13 DEF Knowledge

LEMMA ObservingKeeps == ASSUME Base, Table, Knowledge, Observes PROVE Knowledge'
<1>0. TypeOK /\ LineageInv /\ Identities /\ Staged /\ HeardIsNewest /\ Tipped
  BY DEF Base, Table, Knowledge
<1>1. /\ child # 0
      /\ UNCHANGED <<db, conversation, asked, tip, told, reply, retained, stage, lied>> /\ Known' = Known
      /\ outPipe # <<>> /\ outPipe' = Tail(outPipe)
      /\ Front.kind = "event" /\ Front.says # 0 /\ Proven(child, Front.says)
      /\ child' = Front.says
      /\ heard' = IF Front.says > heard THEN Front.says ELSE heard
  BY DEF Observes, ObserveIdentity, TakeEvent, Reads, Hear, lineage, Known
<1>2. PICK s : s = Front.says
  OBVIOUS
<1>3. Event(1) /\ outPipe[1].says = s /\ s \in Known /\ s \in Nat /\ s # 0
  <2>1. Event(1) /\ outPipe[1].says = s
    BY <1>0, <1>1, <1>2, TakenFromTheWire DEF Event
  <2> QED
    BY <1>0, <2>1, KnownAreNumbers DEF Identities
<1>4. child \in Known /\ child \in Nat /\ heard = child /\ Follows(child, s) /\ child <= s
  <2>1. child \in Known /\ heard = child
    BY <1>0, <1>1 DEF Identities, Named, HeardIsNewest
  <2> QED
    BY <1>0, <1>1, <1>2, <2>1, ProvenIsLater, KnownAreNumbers
<1>5. child' = s /\ heard' = s
  BY <1>1, <1>2, <1>3, <1>4
<1>6. Identities'
  BY <1>0, <1>1, <1>3, <1>5, TakenFromTheWire DEF Identities, Named
<1>7. Staged' /\ Tipped' /\ HeardIsNewest'
  BY <1>1, <1>3, <1>5 DEF Knowledge, Staged, Tipped, HeardIsNewest, Follows
<1>8. OnCourse'
  <2> SUFFICES ASSUME asked # 0 PROVE Follows(asked, child)'
    BY <1>1 DEF OnCourse
  <2>1. asked \in Known /\ Follows(asked, child)
    BY <1>0, <1>1 DEF Knowledge, Identities, Named, OnCourse
  <2>2. Follows(asked, s)
    BY <1>0, <1>3, <1>4, <2>1, FollowsTransitive
  <2> QED
    BY <1>1, <1>5, <2>2 DEF Follows
<1>9. Truthful'
  <2> SUFFICES ASSUME ~ lied PROVE Truthful'
    BY <1>1 DEF Truthful
  <2>1. OfTip(s)
    BY <1>3 DEF Knowledge, WireTruthful
  <2>2. OfTip(heard)'
    BY <1>1, <1>5, <2>1 DEF OfTip, Follows
  <2> QED
    BY <1>1, <2>2 DEF Knowledge, Truthful, OfTip, Follows
<1>10. WireTruthful'
  <2>1. ASSUME ~ lied, NEW i, Event(i)' PROVE heard' <= outPipe'[i].says
    <3>1. Event(i + 1) /\ outPipe'[i].says = outPipe[i + 1].says /\ 1 < i + 1
      BY <1>0, <1>1, <2>1, TakenFromTheWire
    <3> QED
      BY <1>3, <1>5, <2>1, <3>1 DEF Knowledge, WireTruthful
  <2> QED
    BY <1>0, <1>1, <2>1, WireGoesOn DEF Knowledge
<1> QED
  BY <1>6, <1>7, <1>8, <1>9, <1>10 DEF Knowledge

\* Every step keeps what is known.
LEMMA KnowledgeStep ==
  ASSUME Base, Table, Knowledge, [CNext]_cvars
  PROVE  Knowledge'
<1>1. Identities
  BY DEF Knowledge
<1> QED
  BY <1>1, Shapes, ProceedsKeeps, BindsKeeps, HostKeepsKnowledge, TellingKeeps, LearningKeeps,
     RetainingKeeps, ObservingKeeps

-----------------------------------------------------------------------------
(* An honest session                                                        *)

\* An excuse stands: a lie is not taken back, nor damage, nor what is retained.
LEMMA ExcusesStand ==
  ASSUME Base, Identities, [CNext]_cvars, Excused
  PROVE  Excused'
<1> USE DEF Excused, lineage, worker, own
<1>1. CASE Quiet
  BY <1>1 DEF Quiet
<1>2. CASE Host
  <2>1. blurred \subseteq blurred'
    BY <1>2 DEF Host, HostOpens, HostCompresses, HostBranches, Begin, Compress, Depart, Blur
  <2> QED
    BY <1>2, <2>1 DEF Host, HostOpens, HostCompresses, HostBranches
<1>3. CASE \E s \in Says : Emits(s) \/ Answers(s)
  BY <1>3 DEF Emits, Answers, Speaks
<1>4. CASE Learns \/ Observes
  BY <1>4 DEF Learns, Started, Observes, ObserveIdentity
<1>5. CASE Retains
  <2>1. Len(retained) # MaxStartup
    BY <1>5, ChildSessionAssumption DEF Retains, Identities
  <2> QED
    BY <1>5, <2>1 DEF Retains, RetainIdentity
<1> QED
  BY Shapes, <1>1, <1>2, <1>3, <1>4, <1>5

\* Without an excuse nothing is rejected: what is told is retained, or follows.
LEMMA NothingToReject ==
  ASSUME Base, Table, Knowledge, Rejects
  PROVE  Excused
<1> SUFFICES ASSUME ~ Excused PROVE FALSE
  OBVIOUS
<1>0. TypeOK /\ LineageInv /\ Identities /\ Tipped /\ ~ lied /\ blurred = {} /\ Len(retained) # MaxStartup
  BY DEF Base, Table, Knowledge, Excused
<1>1. CASE child = 0 /\ ~ (Len(retained) < MaxStartup)
  BY <1>0, <1>1, ChildSessionAssumption DEF Identities
<1>2. CASE child # 0 /\ ~ Proven(child, Front.says)
  <2>1. PICK s : s = Front.says
    OBVIOUS
  <2>2. Event(1) /\ outPipe[1].says = s
    <3>1. outPipe # <<>> /\ Front.kind = "event" /\ Front.says # 0 /\ outPipe' = Tail(outPipe)
      BY DEF Rejects, Reads, Reject
    <3>2. Front = outPipe[1] /\ 1 \in 1..Len(outPipe)
      BY <1>0, <3>1, Taken
    <3> QED
      BY <2>1, <3>1, <3>2 DEF Event
  <2>3. s \in Known /\ OfTip(s) /\ heard <= s
    BY <1>0, <2>2 DEF Knowledge, Identities, WireTruthful
  <2>4. child \in Known /\ OfTip(child) /\ child <= s
    BY <1>0, <1>2, <2>3 DEF Knowledge, Identities, Named, HeardIsNewest, Truthful
  <2>5. Proven(child, s)
    BY <1>0, <2>3, <2>4, OfOneTip, LaterIsProven
  <2> QED
    BY <1>2, <2>1, <2>5
<1> QED
  BY <1>1, <1>2 DEF Rejects

LEMMA UnrefusedStep ==
  ASSUME Base, Table, Knowledge, Unrefused, [CNext]_cvars
  PROVE  Unrefused'
<1>0. TypeOK /\ Identities /\ ~ broken
  BY DEF Base, Knowledge, Unrefused
<1>1. ~ Excused' => ~ Excused /\ Honest /\ error # "protocol"
  BY <1>0, ExcusesStand DEF Unrefused
<1>2. CASE [Next]_vars /\ broken' = broken
  <2>1. ASSUME ~ Excused' PROVE Honest' /\ error' # "protocol"
    <3>1. Inv /\ HonestGatewayIsAccepted
      BY <1>1, <2>1 DEF Inv, HonestGatewayIsAccepted
    <3>2. Honest'
      BY <1>2, <3>1, HonestStep
    <3>3. HonestGatewayIsAccepted'
      BY <1>2, <3>1, RefusalsOnly
    <3> QED
      BY <1>0, <1>2, <3>2, <3>3 DEF HonestGatewayIsAccepted
  <2> QED
    BY <1>0, <1>2, <2>1 DEF Unrefused
<1>3. CASE Bind
  <2>1. phase = "idle" /\ stage = "bind" /\ UNCHANGED <<nextId, abandoned, answered, stdin, pipes, host, signal, faults>>
    BY <1>3 DEF Bind, Ready
  <2>2. ASSUME ~ Excused' PROVE Honest' /\ error' # "protocol"
    <3>1. Acceptable
      <4>1. reply # 0
        BY <2>1 DEF Knowledge, Staged
      <4> QED
        BY <1>1, <2>2, <4>1, HonestBinding DEF Excused, Knowledge
    <3>2. Return("none")
      BY <1>3, <3>1 DEF Bind
    <3>3. Honest'
      BY <1>1, <2>1, <2>2, <3>2, BindingIsHonest
    <3> QED
      BY <3>2, <3>3 DEF Return
  <2> QED
    BY <1>0, <2>1, <2>2 DEF Unrefused, host
<1>4. CASE Rejects
  <2>1. broken' = broken
    BY <1>4 DEF Rejects, Reject, host
  <2> QED
    BY <1>0, <1>1, <1>4, <2>1, NothingToReject DEF Unrefused
<1>5. CASE UNCHANGED cvars
  BY <1>2, <1>5 DEF cvars, vars, host
<1> QED
  BY <1>0, <1>2, <1>3, <1>4, <1>5, StepsOfClient

\* Base, whatever a worker does between its calls.
LEMMA BaseUnderChild ==
  ASSUME Base, [CNext]_cvars
  PROVE  Base'
<1>0. TypeOK
  BY DEF Base
<1>1. CASE [Next]_vars
  BY <1>1, BaseStep
<1>2. CASE Bind
  <2>1. /\ phase = "idle" /\ (Return("none") \/ Return("protocol"))
        /\ UNCHANGED <<nextId, abandoned, answered, stdin, inPipe, host, signal, faults>>
        /\ outPipe' = outPipe
    BY <1>2 DEF Bind, Ready, pipes
  <2> QED
    BY <2>1, GivingUp
<1>3. CASE Rejects
  <2>1. /\ phase \in {"starting", "idle", "calling"} /\ Return("protocol")
        /\ UNCHANGED <<nextId, abandoned, answered, stdin, inPipe, host, signal, faults>>
        /\ outPipe # <<>> /\ outPipe' = Tail(outPipe)
    BY <1>3 DEF Rejects, Reads, Reject
  <2> QED
    BY <2>1, GivingUp
<1>4. CASE UNCHANGED cvars
  BY <1>1, <1>4 DEF cvars
<1> QED
  BY <1>0, <1>1, <1>2, <1>3, <1>4, StepsOfClient

-----------------------------------------------------------------------------
(* The theorems about the child                                             *)

\* A resumed conversation has one session when the worker comes.
LEMMA ResumedTable ==
  ASSUME NEW l \in Lanes, asked = 1, db = <<Opened(0, l, NoMark)>>, conversation = <<asked>>, blurred = {}
  PROVE  Table /\ Known = {1} /\ conversation[1] = 1 /\ db[1].end = "open"
<1> USE SessionLineageAssumption, ChildSessionAssumption
<1> DEFINE row == Opened(0, l, NoMark)
<1>1. row \in Row /\ row.parent = 0 /\ row.end = "open" /\ \A k \in Kinds : row.mark[k] = 0
  BY DEF Opened, NoMark, Row
<1> HIDE DEF row
<1>2. db = <<row>>
  BY DEF row
<1>3. /\ Known = {1} /\ Known = 1..1 /\ db[1] = row /\ conversation[1] = 1
      /\ db \in [Known -> Row] /\ conversation \in [Known -> Sessions]
  BY <1>1, <1>2 DEF Known, Sessions
<1>4. LineageInv
  BY <1>1, <1>3 DEF LineageInv, LineageTypeOK, InOrder, HasHeir, Sessions
<1>5. Children(1) = {}
  BY <1>1, <1>3 DEF Children
<1>6. Sound(1)
  BY <1>1, <1>3, <1>5 DEF Sound
<1>7. Chained
  BY <1>3, <1>6 DEF Chained
<1> QED
  BY <1>1, <1>3, <1>4, <1>7 DEF Table

LEMMA ChildInitially == CInit => ChildInv
<1> SUFFICES ASSUME CInit PROVE ChildInv
  OBVIOUS
<1>0. /\ Init /\ tip = asked /\ told = 0 /\ reply = 0 /\ child = 0 /\ heard = 0
      /\ retained = <<>> /\ stage = "start" /\ lied = FALSE /\ outPipe = <<>>
  BY DEF CInit, Init
<1>1. Table /\ (asked = 0 \/ (asked \in Known /\ Follows(asked, asked)))
      /\ \A s \in Known : db[s].end # "compressing"
  <2>1. CASE asked = 0 /\ LineageInit
    BY <2>1, TableInitially, ChainInitially DEF Table, LineageInit, Known
  <2>2. CASE asked # 0
    <3>1. PICK l \in Lanes : asked = 1 /\ db = <<Opened(0, l, NoMark)>> /\ conversation = <<1>> /\ blurred = {}
      BY <2>2 DEF CInit
    <3>2. Table /\ Known = {1} /\ conversation[1] = 1 /\ db[1].end = "open"
      BY <3>1, ResumedTable
    <3> QED
      BY <3>1, <3>2 DEF Follows
  <2> QED
    BY <2>1, <2>2 DEF CInit
<1>2. Inv /\ ~ broken /\ error # "protocol"
  BY <1>0, Initially DEF Init
<1>3. \A i : ~ Event(i) /\ ~ Answer(i)
  BY <1>0 DEF Event, Answer
<1>4. Identities
  <2>1. /\ retained \in Seq(Sessions) /\ Len(retained) <= MaxStartup
        /\ \A k \in 1..Len(retained) : retained[k] \in Known
    BY <1>0, ChildSessionAssumption
  <2> QED
    BY <1>0, <1>1, <1>3, <2>1 DEF Identities, Named
<1>5. Staged /\ Tipped /\ OnCourse
  BY <1>0, <1>1 DEF Staged, Stages, Tipped, OnCourse
<1>6. HeardIsNewest /\ Truthful /\ WireTruthful
  BY <1>0, <1>3 DEF HeardIsNewest, Truthful, WireTruthful, OfTip
<1> QED
  BY <1>1, <1>2, <1>4, <1>5, <1>6 DEF ChildInv, Inv, Unrefused

\* What the worker knows of its child, the wire and the gateway's table keep to
\* their order in every reachable state.
THEOREM ChildInvariance == CSpec => []ChildInv
<1>1. ChildInv /\ [CNext]_cvars => ChildInv'
  <2> SUFFICES ASSUME ChildInv, [CNext]_cvars PROVE ChildInv'
    OBVIOUS
  <2>1. Base /\ Table /\ Knowledge /\ Unrefused /\ Identities
    BY DEF ChildInv, Knowledge
  <2>2. Base' /\ Table' /\ Unrefused'
    BY <2>1, BaseUnderChild, TableStep, UnrefusedStep
  <2>3. Knowledge'
    BY <2>1, KnowledgeStep
  <2> QED
    BY <2>2, <2>3 DEF ChildInv, Knowledge
<1> QED
  BY ChildInitially, <1>1, PTL DEF CSpec

\* The worker and the table of the host keep to their types, whatever the gateway says.
THEOREM ChildTypesCorrect == CSpec => []ChildTypeOK
<1>1. ChildInv => ChildTypeOK
  <2> SUFFICES ASSUME ChildInv PROVE ChildTypeOK
    OBVIOUS
  <2>1. TypeOK /\ LineageTypeOK /\ Identities /\ stage \in Stages
    BY DEF ChildInv, Base, Table, LineageInv, Staged
  <2>2. Known \subseteq 0..MaxSessions /\ 0 \in 0..MaxSessions
    BY <2>1, SessionLineageAssumption DEF LineageTypeOK, Sessions
  <2> QED
    BY <2>1, <2>2 DEF ChildTypeOK, Identities, Named
<1> QED
  BY <1>1, ChildInvariance, PTL

\* The child that is bound, or advanced to, is a session of the conversation that
\* was asked for, whatever the gateway says; of the gateway's own, if it is a new
\* one and the gateway did not lie (bind_startup_identity, observe_identity).
THEOREM ChildrenAreOfTheConversation == CSpec => []ChildIsTheConversation
<1>1. ChildInv => ChildIsTheConversation
  BY DEF ChildInv, ChildIsTheConversation, OnCourse, Truthful, HeardIsNewest, OfTip, Follows
<1> QED
  BY <1>1, ChildInvariance, PTL

\* What is recorded is the newest identity that was told, in whatever order the
\* answer and the events came.
THEOREM NewestIsKept == CSpec => []NewestIdentityIsKept
<1>1. ChildInv => NewestIdentityIsKept
  BY DEF ChildInv, HeardIsNewest, NewestIdentityIsKept
<1> QED
  BY <1>1, ChildInvariance, PTL

\* A gateway that speaks for its own session is never refused, unless more startup
\* events come than are retained or its table is damaged.
THEOREM HonestSessionsAreAccepted == CSpec => []HonestSessionIsAccepted
<1>1. ChildInv => HonestSessionIsAccepted
  BY DEF ChildInv, Unrefused, Excused, HonestSessionIsAccepted
<1> QED
  BY <1>1, ChildInvariance, PTL
=============================================================================
