-------------------------- MODULE SharedFileProofs --------------------------
(***************************************************************************)
(* Proofs about the two files of a run that several processes append to    *)
(* under a lock, for any of them and any number of deaths.                 *)
(*                                                                         *)
(* ControlChannel, over the inbox: the control lock makes the search for   *)
(* an earlier cancel and the write one step; the number that a command     *)
(* gets is the one that its writer advances before anybody else can write, *)
(* unless the writer dies first.                                           *)
(*                                                                         *)
(* EventJournal: whoever writes has first read, under the same lock, all   *)
(* that its peers wrote.  So it knows the last number, and the marker.     *)
(* From this follow the spectator's view, the use of the reserve, and      *)
(* where every frame is.                                                   *)
(***************************************************************************)
EXTENDS EventJournal, Inbox, FiniteSetTheorems, SequenceTheorems, TLAPS

CONSTANT Transports

VARIABLES transport, identity, control, answer, nextSeq, mishaps

C == INSTANCE ControlChannel WITH faults <- mishaps

-----------------------------------------------------------------------------
(* The control channel: the inductive invariant                             *)

\* What a client, its command and its acknowledgement are.
Types ==
  /\ control \in Clients \cup {Nobody}
  /\ pc \in [Clients -> {"idle", "entering", "searching", "deciding", "numbering", "waiting", "done", "dead"}]
  /\ inbox \in Seq([by : Clients, seq : Nat])
  /\ nextSeq \in Nat
  /\ acks \in [Clients -> C!AckStates \cup {"none"}]

InCall == {"searching", "deciding", "numbering"}

\* The lock is with the client that is between its search and its number.
Locked == \A c \in Clients : pc[c] \in InCall <=> control = c

Wrote(c) == \E i \in 1 .. Len(inbox) : inbox[i].by = c

\* A client writes one command, once its search is over, and only what was
\* written is acknowledged.
OneEach ==
  /\ \A i, j \in 1 .. Len(inbox) : inbox[i].by = inbox[j].by => i = j
  /\ \A c \in Clients : Wrote(c) => pc[c] \in {"numbering", "waiting", "done", "dead"}
  /\ \A c \in Clients : acks[c] # "none" => Wrote(c)

\* A caller that goes on to write its cancel has found none.
Alone ==
  /\ \A i, j \in 1 .. Len(inbox) :
       inbox[i].by \in Cancellers /\ inbox[j].by \in Cancellers => i = j
  /\ \A c \in Cancellers : pc[c] = "deciding" =>
       \A i \in 1 .. Len(inbox) : inbox[i].by \notin Cancellers

\* Numbers grow with the inbox, and only the dead leave theirs to another.
WellNumbered ==
  /\ \A i \in 1 .. Len(inbox) :
       /\ inbox[i].seq <= nextSeq
       /\ inbox[i].seq = nextSeq => pc[inbox[i].by] \in {"numbering", "dead"}
  /\ \A i, j \in 1 .. Len(inbox) : i < j =>
       /\ inbox[i].seq <= inbox[j].seq
       /\ inbox[i].seq = inbox[j].seq => pc[inbox[i].by] = "dead"

\* The write and the terminal publication exclude each other.
Apart == lifecycle = "terminal" => C!StatusFree

Inv == Apart /\ Types /\ Locked /\ OneEach /\ Alone /\ WellNumbered /\ TakenInOrder

-----------------------------------------------------------------------------
\* The clients and the entries of the channel are those of the inbox.
LEMMA SameInbox == C!Clients = Clients /\ C!Entries = Entries /\ C!CancelEntries = CancelEntries
  BY DEF C!Clients, Clients, C!Entries, Entries, C!CancelEntries, CancelEntries

LEMMA Initially == ASSUME Nobody \notin Clients, C!Init PROVE Inv
  BY SameInbox DEF C!Init, Inv, Apart, C!StatusFree, Types, Locked, InCall, OneEach, Wrote, Alone, WellNumbered, TakenInOrder

Entry == [by : Clients, seq : Nat]

\* A command is added at the end.
LEMMA Added ==
  ASSUME Types, NEW c \in Clients, C!WriteCommand(c)
  PROVE  /\ Len(inbox') = Len(inbox) + 1 /\ Len(inbox) \in Nat
         /\ inbox' \in Seq(Entry)
         /\ inbox'[Len(inbox) + 1].by = c /\ inbox'[Len(inbox) + 1].seq = nextSeq
         /\ \A i \in 1 .. Len(inbox) : inbox'[i] = inbox[i] /\ inbox[i] \in Entry
<1> DEFINE e == [by |-> c, seq |-> nextSeq]
<1>1. e \in Entry /\ inbox \in Seq(Entry) /\ inbox' = Append(inbox, e)
  BY DEF Types, Entry, C!WriteCommand
<1> QED
  BY <1>1

\* An acknowledgement changes what one command is told.
Acks(e) == \E a \in C!AckStates : acks' = [acks EXCEPT ![e.by] = a]

LEMMA WorkerSteps ==
  ASSUME C!WorkerStep
  PROVE  /\ UNCHANGED <<control, pc, inbox, nextSeq>>
         /\ \/ UNCHANGED acks
            \/ \E e \in Entries : Acks(e) /\ (C!Foremost(e) \/ acks[e.by] # "none")
BY SameInbox DEF C!WorkerStep, C!PublishIdentity, C!MarkCancelling, C!FailToMark, C!Withdraw, C!Acknowledge, C!Finish,
   Acks, C!AckStates

LEMMA EntriesOf ==
  ASSUME Types
  PROVE  /\ \A e \in Entries : \E i \in 1 .. Len(inbox) : e = inbox[i]
         /\ \A i \in 1 .. Len(inbox) : inbox[i] \in Entries /\ inbox[i] \in Entry
<1>1. inbox \in Seq(Entry)
  BY DEF Types, Entry
<1>2. DOMAIN inbox = 1 .. Len(inbox) /\ \A i \in 1 .. Len(inbox) : inbox[i] \in Entry
  BY <1>1
<1> QED
  BY <1>2 DEF Entries

LEMMA TypeStep ==
  ASSUME Types, [C!Next]_(C!vars)
  PROVE  Types'
<1> USE DEF Types
<1>1. ASSUME NEW c \in Clients, C!WriteCommand(c) PROVE Types'
  BY <1>1, Added DEF C!WriteCommand, C!Goto, Entry
<1>2. ASSUME NEW c \in Clients,
             C!AnswerAtOnce(c) \/ C!Enter(c) \/ C!NoEarlierCancel(c) \/ C!StopWaiting(c)
      PROVE  Types'
  BY <1>2 DEF C!AnswerAtOnce, C!Enter, C!NoEarlierCancel, C!StopWaiting, C!Goto
<1>6. ASSUME NEW c \in Clients, C!TakeControl(c) \/ C!AdvanceNumber(c) PROVE Types'
  BY <1>6 DEF C!TakeControl, C!AdvanceNumber, C!Goto
<1>7. ASSUME NEW c \in Clients, C!ClientDies(c) PROVE Types'
  BY <1>7 DEF C!ClientDies, C!Goto
<1>3. ASSUME NEW c \in Clients, C!RepeatCancel(c) \/ C!RefuseCommand(c) PROVE Types'
  <2>1. UNCHANGED <<inbox, nextSeq, acks>> /\ C!Goto(c, "done") /\ control' = Nobody
    BY <1>3 DEF C!RepeatCancel, C!RefuseCommand, C!Done
  <2> QED
    BY <2>1 DEF C!Goto
<1>4. CASE C!WorkerStep
  <2>1. \A e \in Entries : e.by \in Clients
    BY EntriesOf DEF Entry
  <2>2. acks' \in [Clients -> C!AckStates \cup {"none"}]
    BY <1>4, <2>1, WorkerSteps DEF Acks
  <2> QED
    BY <1>4, <2>2, WorkerSteps
<1>5. CASE UNCHANGED C!vars
  BY <1>5 DEF C!vars
<1> QED
  BY <1>1, <1>2, <1>3, <1>4, <1>5, <1>6, <1>7, SameInbox DEF C!Next, C!ClientStep

LEMMA LockedStep ==
  ASSUME Nobody \notin Clients, Inv, [C!Next]_(C!vars)
  PROVE  Locked'
<1> USE DEF Inv, Types, Locked, InCall
<1>1. ASSUME NEW c \in Clients, C!WriteCommand(c) PROVE Locked'
  BY <1>1 DEF C!WriteCommand, C!Goto
<1>2. ASSUME NEW c \in Clients,
             \/ C!AnswerAtOnce(c) \/ C!Enter(c) \/ C!NoEarlierCancel(c) \/ C!AdvanceNumber(c)
             \/ C!StopWaiting(c)
      PROVE  Locked'
  BY <1>2, SameInbox DEF C!AnswerAtOnce, C!Enter, C!NoEarlierCancel, C!AdvanceNumber, C!StopWaiting, C!Goto
<1>6. ASSUME NEW c \in Clients, C!TakeControl(c) PROVE Locked'
  BY <1>6, SameInbox DEF C!TakeControl, C!Goto
<1>7. ASSUME NEW c \in Clients, C!ClientDies(c) PROVE Locked'
  BY <1>7, SameInbox DEF C!ClientDies, C!Goto
<1>3. ASSUME NEW c \in Clients, C!RepeatCancel(c) \/ C!RefuseCommand(c) PROVE Locked'
  <2>1. pc[c] \in InCall /\ C!Goto(c, "done") /\ control' = Nobody
    BY <1>3 DEF C!RepeatCancel, C!RefuseCommand, C!Done
  <2> QED
    BY <2>1, SameInbox DEF C!Goto
<1>4. CASE C!WorkerStep
  BY <1>4, WorkerSteps
<1>5. CASE UNCHANGED C!vars
  BY <1>5 DEF C!vars
<1> QED
  BY <1>1, <1>2, <1>3, <1>4, <1>5, <1>6, <1>7, SameInbox DEF C!Next, C!ClientStep

\* A step that writes no command leaves every writer where commands are written.
LEMMA Elsewhere ==
  ASSUME Inv, NEW c \in Clients, C!ClientStep(c) \/ C!ClientDies(c), ~ C!WriteCommand(c)
  PROVE  /\ UNCHANGED <<inbox, acks>>
         /\ \A d \in Clients \ {c} : pc'[d] = pc[d]
         /\ pc[c] \in {"numbering", "waiting", "done", "dead"} =>
              pc'[c] \in {"waiting", "done", "dead"}
         /\ pc[c] # "dead"
         /\ pc'[c] = "deciding" /\ c \in Cancellers => CancelEntries = {}
         /\ pc'[c] # "numbering"
         /\ \/ UNCHANGED nextSeq /\ (pc[c] = "numbering" => pc'[c] = "dead")
            \/ pc[c] = "numbering" /\ nextSeq' = nextSeq + 1
BY SameInbox DEF Inv, Types, C!ClientStep, C!AnswerAtOnce, C!Enter, C!TakeControl, C!NoEarlierCancel, C!AdvanceNumber,
   C!StopWaiting, C!ClientDies, C!RepeatCancel, C!RefuseCommand, C!Done, C!Goto

LEMMA OneEachStep ==
  ASSUME Inv, [C!Next]_(C!vars)
  PROVE  OneEach'
<1>0. OneEach /\ Types
  BY DEF Inv
<1>1. ASSUME NEW c \in Clients, C!WriteCommand(c) PROVE OneEach'
  <2>1. ~ Wrote(c) /\ pc' = [pc EXCEPT ![c] = "numbering"] /\ acks' = acks
    BY <1>0, <1>1 DEF OneEach, C!WriteCommand, C!Goto
  <2>2. \A d \in Clients : Wrote(d)' <=> Wrote(d) \/ d = c
    BY <1>0, <1>1, Added DEF Wrote
  <2>3. \A i, j \in 1 .. Len(inbox') : inbox'[i].by = inbox'[j].by => i = j
    <3>1. \A i \in 1 .. Len(inbox) : inbox[i].by # c
      BY <2>1 DEF Wrote
    <3>2. \A i \in 1 .. Len(inbox') : i \in 1 .. Len(inbox) \/ i = Len(inbox) + 1
      BY <1>0, <1>1, Added
    <3> QED
      BY <1>0, <1>1, <3>1, <3>2, Added DEF OneEach
  <2> QED
    BY <1>0, <2>1, <2>2, <2>3 DEF OneEach, Types
<1>2. ASSUME NEW c \in Clients, C!ClientStep(c) \/ C!ClientDies(c), ~ C!WriteCommand(c) PROVE OneEach'
  BY <1>0, <1>2, Elsewhere DEF OneEach, Wrote
<1>3. CASE C!WorkerStep
  <2>1. \A e \in Entries : e.by \in Clients /\ Wrote(e.by)
    BY <1>0, EntriesOf DEF Wrote, Entry
  <2>2. \A c \in Clients : acks'[c] # "none" => Wrote(c)
    BY <1>0, <1>3, <2>1, WorkerSteps DEF Acks, OneEach, Types
  <2> QED
    BY <1>0, <1>3, <2>2, WorkerSteps DEF OneEach, Wrote
<1>4. CASE UNCHANGED C!vars
  BY <1>0, <1>4 DEF C!vars, OneEach, Wrote
<1> QED
  BY <1>1, <1>2, <1>3, <1>4, SameInbox DEF C!Next

LEMMA AloneStep ==
  ASSUME Inv, [C!Next]_(C!vars)
  PROVE  Alone'
<1>0. Alone /\ Types /\ Locked
  BY DEF Inv
<1>1. ASSUME NEW c \in Clients, C!WriteCommand(c) PROVE Alone'
  <2>1. pc[c] = "deciding" /\ pc' = [pc EXCEPT ![c] = "numbering"]
    BY <1>1 DEF C!WriteCommand, C!Goto
  <2>2. \A i \in 1 .. Len(inbox') : i \in 1 .. Len(inbox) \/ i = Len(inbox) + 1
    BY <1>0, <1>1, Added
  <2>3. \A d \in Cancellers : pc'[d] # "deciding"
    BY <1>0, <2>1 DEF Locked, InCall, Types, Clients
  <2>4. \A i, j \in 1 .. Len(inbox') :
          inbox'[i].by \in Cancellers /\ inbox'[j].by \in Cancellers => i = j
    BY <1>0, <1>1, <2>1, <2>2, Added DEF Alone
  <2> QED
    BY <2>3, <2>4 DEF Alone
<1>2. ASSUME NEW c \in Clients, C!ClientStep(c) \/ C!ClientDies(c), ~ C!WriteCommand(c) PROVE Alone'
  <2>1. CancelEntries = {} => \A i \in 1 .. Len(inbox) : inbox[i].by \notin Cancellers
    BY <1>0, EntriesOf DEF CancelEntries
  <2> QED
    BY <1>0, <1>2, <2>1, Elsewhere DEF Alone, Clients
<1>3. CASE C!WorkerStep
  BY <1>0, <1>3, WorkerSteps DEF Alone
<1>4. CASE UNCHANGED C!vars
  BY <1>0, <1>4 DEF C!vars, Alone
<1> QED
  BY <1>1, <1>2, <1>3, <1>4, SameInbox DEF C!Next

LEMMA NumberedStep ==
  ASSUME Inv, [C!Next]_(C!vars)
  PROVE  WellNumbered'
<1>0. WellNumbered /\ OneEach /\ Types /\ Locked
  BY DEF Inv
<1>9. \A i \in 1 .. Len(inbox) : inbox[i].by \in Clients /\ inbox[i].seq \in Nat
  BY <1>0, EntriesOf DEF Entry
<1>1. ASSUME NEW c \in Clients, C!WriteCommand(c) PROVE WellNumbered'
  <2>1. pc[c] = "deciding" /\ pc' = [pc EXCEPT ![c] = "numbering"] /\ nextSeq' = nextSeq
    BY <1>1 DEF C!WriteCommand, C!Goto
  <2>2. \A i \in 1 .. Len(inbox') : i \in 1 .. Len(inbox) \/ i = Len(inbox) + 1
    BY <1>0, <1>1, Added
  <2>3. \A i \in 1 .. Len(inbox) : inbox[i].by # c
    BY <1>0, <2>1 DEF OneEach, Wrote
  <2>4. \A i \in 1 .. Len(inbox) : inbox[i].seq = nextSeq => pc[inbox[i].by] = "dead"
    BY <1>0, <1>9, <2>1 DEF WellNumbered, Locked, InCall
  <2>5. \A i \in 1 .. Len(inbox) : pc'[inbox[i].by] = pc[inbox[i].by] /\ inbox'[i] = inbox[i]
    BY <1>0, <1>1, <1>9, <2>1, <2>3, Added DEF Types
  <2>6. inbox'[Len(inbox) + 1].by = c /\ inbox'[Len(inbox) + 1].seq = nextSeq
        /\ pc'[c] = "numbering" /\ Len(inbox) \in Nat /\ Len(inbox') = Len(inbox) + 1
    BY <1>0, <1>1, <2>1, Added DEF Types
  <2>7. \A i \in 1 .. Len(inbox') :
          /\ inbox'[i].seq <= nextSeq'
          /\ inbox'[i].seq = nextSeq' => pc'[inbox'[i].by] \in {"numbering", "dead"}
    BY <1>0, <1>9, <2>1, <2>2, <2>5, <2>6 DEF WellNumbered, Types
  <2>8. \A i, j \in 1 .. Len(inbox') : i < j =>
          /\ inbox'[i].seq <= inbox'[j].seq
          /\ inbox'[i].seq = inbox'[j].seq => pc'[inbox'[i].by] = "dead"
    BY <1>0, <1>9, <2>2, <2>4, <2>5, <2>6 DEF WellNumbered, Types
  <2> QED
    BY <2>7, <2>8 DEF WellNumbered
<1>2. ASSUME NEW c \in Clients, C!ClientStep(c) \/ C!ClientDies(c), ~ C!WriteCommand(c) PROVE WellNumbered'
  <2>1. inbox' = inbox /\ \A d \in Clients : pc[d] = "dead" => pc'[d] = "dead"
    BY <1>2, Elsewhere
  <2>2. CASE UNCHANGED nextSeq /\ (pc[c] = "numbering" => pc'[c] = "dead")
    <3>1. \A d \in Clients : pc[d] \in {"numbering", "dead"} => pc'[d] \in {"numbering", "dead"}
      BY <1>2, <2>2, Elsewhere
    <3> QED
      BY <1>0, <1>9, <2>1, <2>2, <3>1 DEF WellNumbered
  <2>3. CASE nextSeq' = nextSeq + 1
    <3>1. \A i \in 1 .. Len(inbox) : inbox[i].seq <= nextSeq /\ inbox[i].seq < nextSeq'
      BY <1>0, <1>9, <2>3 DEF WellNumbered, Types
    <3>2. \A i \in 1 .. Len(inbox) : inbox[i].seq <= nextSeq' /\ inbox[i].seq # nextSeq'
      BY <1>0, <1>9, <2>3, <3>1 DEF Types
    <3>3. inbox' = inbox
      BY <2>1
    <3>4. \A i \in 1 .. Len(inbox) : inbox[i].by \in Clients
      BY <1>9
    <3>5. \A i, j \in 1 .. Len(inbox) : i < j =>
            /\ inbox[i].seq <= inbox[j].seq
            /\ inbox[i].seq = inbox[j].seq => pc'[inbox[i].by] = "dead"
      BY <1>0, <2>1, <3>4 DEF WellNumbered
    <3> QED
      BY <3>2, <3>3, <3>5 DEF WellNumbered
  <2> QED
    BY <1>2, <2>2, <2>3, Elsewhere
<1>3. CASE C!WorkerStep
  BY <1>0, <1>3, WorkerSteps DEF WellNumbered
<1>4. CASE UNCHANGED C!vars
  BY <1>0, <1>4 DEF C!vars, WellNumbered
<1> QED
  BY <1>1, <1>2, <1>3, <1>4, SameInbox DEF C!Next

\* What may be taken next is numbered no later than what was written before it.
LEMMA OrderStep ==
  ASSUME Inv, [C!Next]_(C!vars)
  PROVE  TakenInOrder'
<1>0. TakenInOrder /\ WellNumbered /\ OneEach /\ Types
  BY DEF Inv
<1>9. \A i \in 1 .. Len(inbox) : inbox[i].by \in Clients /\ inbox[i].seq \in Nat
  BY <1>0, EntriesOf DEF Entry
<1>8. \A i, j \in 1 .. Len(inbox) :
        i < j /\ acks[inbox[j].by] # "none" /\ acks[inbox[i].by] = "none" =>
          inbox[i].seq = inbox[j].seq /\ pc[inbox[i].by] = "dead"
  BY <1>0 DEF TakenInOrder, Types
<1>7. SUFFICES ASSUME NEW i \in 1 .. Len(inbox'), NEW j \in 1 .. Len(inbox'), i < j,
                      acks'[inbox'[j].by] # "none", acks'[inbox'[i].by] = "none"
               PROVE  inbox'[i].seq = inbox'[j].seq /\ pc'[inbox'[i].by] = "dead"
  <2>1. DOMAIN inbox' = 1 .. Len(inbox')
    BY TypeStep, <1>0 DEF Types
  <2> QED
    BY <2>1 DEF TakenInOrder
<1>1. ASSUME NEW c \in Clients, C!WriteCommand(c)
      PROVE  inbox'[i].seq = inbox'[j].seq /\ pc'[inbox'[i].by] = "dead"
  <2>1. pc[c] = "deciding" /\ pc' = [pc EXCEPT ![c] = "numbering"] /\ acks' = acks
    BY <1>1 DEF C!WriteCommand, C!Goto
  <2>2. acks[c] = "none" /\ \A k \in 1 .. Len(inbox) : inbox[k].by # c
    BY <1>0, <2>1 DEF OneEach, Wrote
  <2>3. i \in 1 .. Len(inbox) /\ j \in 1 .. Len(inbox)
    BY <1>0, <1>1, <1>7, <2>1, <2>2, Added
  <2>4. inbox'[i] = inbox[i] /\ inbox'[j] = inbox[j]
    BY <1>0, <1>1, <2>3, Added
  <2> QED
    BY <1>0, <1>7, <1>8, <1>9, <2>1, <2>2, <2>3, <2>4 DEF Types
<1>2. ASSUME NEW c \in Clients, C!ClientStep(c) \/ C!ClientDies(c), ~ C!WriteCommand(c)
      PROVE  inbox'[i].seq = inbox'[j].seq /\ pc'[inbox'[i].by] = "dead"
  <2>1. inbox' = inbox /\ acks' = acks /\ \A d \in Clients : pc[d] = "dead" => pc'[d] = "dead"
    BY <1>2, Elsewhere
  <2> QED
    BY <1>7, <1>8, <1>9, <2>1
<1>3. ASSUME C!WorkerStep
      PROVE  inbox'[i].seq = inbox'[j].seq /\ pc'[inbox'[i].by] = "dead"
  <2>1. UNCHANGED <<pc, inbox>> /\ i \in 1 .. Len(inbox) /\ j \in 1 .. Len(inbox)
    BY <1>3, WorkerSteps
  <2>2. CASE UNCHANGED acks
    BY <1>7, <1>8, <2>1, <2>2
  <2>3. ASSUME NEW e \in Entries, Acks(e), C!Foremost(e) \/ acks[e.by] # "none"
        PROVE  inbox[i].seq = inbox[j].seq /\ pc[inbox[i].by] = "dead"
    <3>1. PICK k \in 1 .. Len(inbox) : e = inbox[k]
      BY <1>0, EntriesOf
    <3>2. acks[inbox[i].by] = "none"
      BY <1>0, <1>7, <1>9, <2>1, <2>3, <3>1 DEF Acks, C!AckStates, Types
    <3>3. CASE acks[inbox[j].by] # "none"
      BY <1>7, <1>8, <2>1, <3>2, <3>3
    <3>4. CASE acks[inbox[j].by] = "none"
      <4>1. inbox[j].by = e.by
        BY <1>0, <1>7, <1>9, <2>1, <2>3, <3>1, <3>4 DEF Acks, Types
      <4>2. k = j /\ C!Foremost(e)
        BY <1>0, <2>1, <2>3, <3>1, <3>4, <4>1 DEF OneEach
      <4>3. inbox[i] \in C!Pending
        BY <1>0, <2>1, <3>2, EntriesOf, SameInbox DEF C!Pending
      <4>4. inbox[j].seq <= inbox[i].seq
        BY <3>1, <4>2, <4>3 DEF C!Foremost
      <4> QED
        BY <1>0, <1>7, <1>9, <2>1, <4>4 DEF WellNumbered
    <3> QED
      BY <3>3, <3>4
  <2> QED
    BY <1>3, <2>1, <2>2, <2>3, WorkerSteps
<1>4. CASE UNCHANGED C!vars
  BY <1>4, <1>7, <1>8 DEF C!vars
<1> QED
  BY <1>1, <1>2, <1>3, <1>4, SameInbox DEF C!Next

LEMMA ApartStep ==
  ASSUME Inv, [C!Next]_(C!vars)
  PROVE  Apart'
<1> USE DEF Apart, C!StatusFree
<1>1. ASSUME NEW c \in Clients, C!WriteCommand(c) PROVE Apart'
  BY <1>1 DEF C!WriteCommand
<1>2. ASSUME NEW c \in Clients, C!ClientStep(c) \/ C!ClientDies(c), ~ C!WriteCommand(c) PROVE Apart'
  <2>1. lifecycle' = lifecycle
    BY <1>2 DEF C!ClientStep, C!AnswerAtOnce, C!Enter, C!TakeControl, C!RepeatCancel, C!NoEarlierCancel,
       C!RefuseCommand, C!AdvanceNumber, C!StopWaiting, C!ClientDies
  <2> QED
    BY <1>2, <2>1, Elsewhere, SameInbox DEF Inv
<1>3. CASE C!WorkerStep
  <2>1. lifecycle' = "terminal" => C!StatusFree
    BY <1>3 DEF Inv, C!WorkerStep, C!PublishIdentity, C!MarkCancelling, C!FailToMark, C!Withdraw,
       C!Acknowledge, C!Finish
  <2> QED
    BY <1>3, <2>1, WorkerSteps
<1>4. CASE UNCHANGED C!vars
  BY <1>4 DEF Inv, C!vars
<1> QED
  BY <1>1, <1>2, <1>3, <1>4, SameInbox DEF C!Next

-----------------------------------------------------------------------------
\* The lock, the numbers and the acknowledgements of the inbox agree at all times.
THEOREM Invariance == ASSUME Nobody \notin Clients PROVE C!Spec => []Inv
<1>1. Inv /\ [C!Next]_(C!vars) => Inv'
  BY TypeStep, LockedStep, OneEachStep, AloneStep, NumberedStep, OrderStep, ApartStep DEF Inv
<1> QED
  BY <1>1, Initially, PTL DEF C!Spec

\* However many callers cancel at once, one intent reaches the worker.
THEOREM CancelIsOne == ASSUME Nobody \notin Clients PROVE C!Spec => []OneCancel
<1>1. Inv => OneCancel
  <2> SUFFICES ASSUME Inv PROVE OneCancel
    OBVIOUS
  <2>1. Types /\ Alone
    BY DEF Inv
  <2>2. CASE CancelEntries = {}
    BY <2>2, FS_EmptySet DEF OneCancel
  <2>3. CASE CancelEntries # {}
    <3>1. PICK e : e \in CancelEntries
      BY <2>3
    <3>2. \A f \in CancelEntries : f = e
      BY <2>1, <3>1, EntriesOf DEF CancelEntries, Alone
    <3>3. CancelEntries = {e}
      BY <3>1, <3>2
    <3>4. Cardinality({e}) = 1
      BY FS_Singleton
    <3> QED
      BY <3>3, <3>4 DEF OneCancel
  <2> QED
    BY <2>2, <2>3
<1> QED
  BY <1>1, Invariance, PTL

\* Corrections are taken in the order in which they were written, but for what a
\* client that died left its number to.
THEOREM CommandsAreTakenInOrder == ASSUME Nobody \notin Clients PROVE C!Spec => []TakenInOrder
<1>1. Inv => TakenInOrder
  BY DEF Inv
<1> QED
  BY <1>1, Invariance, PTL

\* Of a run that is over the inbox stands, the number of its next command too: no
\* client is caught between its two writes.
THEOREM EndedInboxStands ==
  ASSUME Nobody \notin Clients
  PROVE  C!Spec => /\ NothingAfterTheEnd
                   /\ [][lifecycle = "terminal" => nextSeq' = nextSeq]_<<lifecycle, nextSeq>>
<1>1. Inv /\ [C!Next]_(C!vars) => (lifecycle = "terminal" => inbox' = inbox /\ nextSeq' = nextSeq)
  <2> SUFFICES ASSUME Inv, [C!Next]_(C!vars), lifecycle = "terminal"
               PROVE  inbox' = inbox /\ nextSeq' = nextSeq
    OBVIOUS
  <2>1. CASE C!WorkerStep
    BY <2>1, WorkerSteps
  <2>2. ASSUME NEW c \in Clients, C!ClientStep(c) \/ C!ClientDies(c)
        PROVE  inbox' = inbox /\ nextSeq' = nextSeq
    <3>1. ~ C!WriteCommand(c) /\ pc[c] # "numbering"
      BY SameInbox DEF Inv, Apart, C!StatusFree, C!WriteCommand
    <3> QED
      BY <2>2, <3>1, Elsewhere
  <2> QED
    BY <2>1, <2>2, SameInbox DEF C!Next, C!vars
<1>2. Inv /\ [C!Next]_(C!vars) =>
        /\ [lifecycle = "terminal" => inbox' = inbox]_<<lifecycle, inbox>>
        /\ [lifecycle = "terminal" => nextSeq' = nextSeq]_<<lifecycle, nextSeq>>
  BY <1>1
<1> QED
  BY <1>2, Invariance, PTL DEF C!Spec, NothingAfterTheEnd

-----------------------------------------------------------------------------
(* The channel's types, and the bound of its numbers                        *)

\* The clients that are past their number, some of which have advanced it.
Past == {c \in Clients : pc[c] \in {"waiting", "done", "dead"}}

Told ==
  /\ transport \in Transports
  /\ lifecycle \in {"running", "cancelling", "terminal"}
  /\ identity \in {"absent", "pending", "verified", "changed"}
  /\ answer \in [Clients -> C!Answers]
  /\ mishaps \in 0 .. MaxFaults
  /\ \E A \in SUBSET Past : nextSeq = Cardinality(A) + 1

LEMMA ClientsAreFinite == IsFiniteSet(Clients)
  BY ClientsAssumption, FS_Union DEF Clients

\* Each client advances the number once, when it leaves its two writes behind.
LEMMA AdvancesOnce ==
  ASSUME Types, [C!Next]_(C!vars), NEW A \in SUBSET Past, nextSeq = Cardinality(A) + 1
  PROVE  \E B \in SUBSET Past' : nextSeq' = Cardinality(B) + 1
<1>1. ASSUME NEW c \in Clients, C!AdvanceNumber(c) PROVE \E B \in SUBSET Past' : nextSeq' = Cardinality(B) + 1
  <2>1. pc[c] = "numbering" /\ pc' = [pc EXCEPT ![c] = "waiting"] /\ nextSeq' = nextSeq + 1
    BY <1>1 DEF C!AdvanceNumber, C!Goto
  <2>2. c \notin A /\ A \cup {c} \subseteq Past'
    BY <1>1, <2>1 DEF Past, Types
  <2>3. IsFiniteSet(A)
    BY ClientsAreFinite, FS_Subset DEF Past
  <2>4. Cardinality(A \cup {c}) = Cardinality(A) + 1 /\ Cardinality(A) \in Nat
    BY <2>2, <2>3, FS_AddElement, FS_CardinalityType
  <2> QED
    BY <2>1, <2>2, <2>4
<1>2. ASSUME UNCHANGED nextSeq, Past \subseteq Past' PROVE \E B \in SUBSET Past' : nextSeq' = Cardinality(B) + 1
  BY <1>2
<1>3. ASSUME NEW c \in Clients, C!ClientStep(c) \/ C!ClientDies(c), ~ C!AdvanceNumber(c)
      PROVE  UNCHANGED nextSeq /\ Past \subseteq Past'
  BY <1>3 DEF C!ClientStep, C!AnswerAtOnce, C!Enter, C!TakeControl, C!NoEarlierCancel, C!StopWaiting, C!ClientDies,
     C!RepeatCancel, C!RefuseCommand, C!WriteCommand, C!Done, C!Goto, Past, Types
<1>4. CASE C!WorkerStep
  BY <1>2, <1>4, WorkerSteps DEF Past
<1>5. CASE UNCHANGED C!vars
  BY <1>2, <1>5 DEF C!vars, Past
<1> QED
  BY <1>1, <1>2, <1>3, <1>4, <1>5, SameInbox DEF C!Next

LEMMA ToldStep ==
  ASSUME Types, Told, [C!Next]_(C!vars)
  PROVE  Told'
<1>1. transport' = transport
  BY DEF C!Next, C!vars, C!ClientStep, C!AnswerAtOnce, C!Enter, C!TakeControl, C!NoEarlierCancel, C!StopWaiting,
     C!ClientDies, C!RepeatCancel, C!RefuseCommand, C!WriteCommand, C!AdvanceNumber, C!WorkerStep, C!PublishIdentity,
     C!MarkCancelling, C!FailToMark, C!Withdraw, C!Acknowledge, C!Finish
<1>2. /\ lifecycle' \in {"running", "cancelling", "terminal"}
      /\ identity' \in {"absent", "pending", "verified", "changed"}
  BY DEF Told, C!Next, C!vars, C!ClientStep, C!AnswerAtOnce, C!Enter, C!TakeControl, C!NoEarlierCancel, C!StopWaiting,
     C!ClientDies, C!RepeatCancel, C!RefuseCommand, C!WriteCommand, C!AdvanceNumber, C!WorkerStep, C!PublishIdentity,
     C!MarkCancelling, C!FailToMark, C!Withdraw, C!Acknowledge, C!Finish
<1>3. mishaps' \in 0 .. MaxFaults
  <2>1. mishaps' = mishaps \/ (mishaps < MaxFaults /\ mishaps' = mishaps + 1)
    BY DEF C!Next, C!vars, C!ClientStep, C!AnswerAtOnce, C!Enter, C!TakeControl, C!NoEarlierCancel, C!StopWaiting,
       C!ClientDies, C!RepeatCancel, C!RefuseCommand, C!WriteCommand, C!AdvanceNumber, C!WorkerStep,
       C!PublishIdentity, C!MarkCancelling, C!FailToMark, C!Withdraw, C!Acknowledge, C!Finish
  <2> QED
    BY <2>1, JournalAssumption DEF Told
<1>4. answer' \in [Clients -> C!Answers]
  <2>1. \A c \in Clients : acks[c] = "none" \/ acks[c] \in C!Answers
    BY DEF Types, C!Answers
  <2>2. {"run_terminal", "refused", "cancelling", "pending"} \subseteq C!Answers
    BY DEF C!Answers
  <2>3. ASSUME NEW c \in Clients, NEW a \in C!Answers, C!Tell(c, a) PROVE answer' \in [Clients -> C!Answers]
    BY <2>3 DEF C!Tell, Told
  <2>4. ASSUME NEW c \in Clients, C!AnswerAtOnce(c) PROVE answer' \in [Clients -> C!Answers]
    BY <2>2, <2>3, <2>4 DEF C!AnswerAtOnce
  <2>5. ASSUME NEW c \in Clients, C!RepeatCancel(c) PROVE answer' \in [Clients -> C!Answers]
    <3>1. PICK e \in CancelEntries : C!Done(c, IF acks[e.by] = "none" THEN "pending" ELSE acks[e.by])
      BY <2>5, SameInbox DEF C!RepeatCancel
    <3>2. e.by \in Clients
      BY <3>1, EntriesOf DEF CancelEntries, Entry
    <3>3. (IF acks[e.by] = "none" THEN "pending" ELSE acks[e.by]) \in C!Answers
      BY <2>1, <2>2, <3>2
    <3> QED
      BY <2>3, <3>1, <3>3 DEF C!Done
  <2>6. ASSUME NEW c \in Clients, C!RefuseCommand(c) PROVE answer' \in [Clients -> C!Answers]
    BY <2>2, <2>3, <2>6 DEF C!RefuseCommand, C!Done
  <2>7. ASSUME NEW c \in Clients, C!StopWaiting(c) PROVE answer' \in [Clients -> C!Answers]
    <3>1. (IF acks[c] = "none" THEN "pending" ELSE acks[c]) \in C!Answers
      BY <2>1, <2>2
    <3> QED
      BY <2>3, <2>7, <3>1 DEF C!StopWaiting
  <2>8. ASSUME NEW c \in Clients,
               \/ C!Enter(c) \/ C!TakeControl(c) \/ C!NoEarlierCancel(c) \/ C!WriteCommand(c)
               \/ C!AdvanceNumber(c) \/ C!ClientDies(c)
        PROVE  answer' = answer
    BY <2>8 DEF C!Enter, C!TakeControl, C!NoEarlierCancel, C!WriteCommand, C!AdvanceNumber, C!ClientDies
  <2>9. C!WorkerStep \/ UNCHANGED C!vars => answer' = answer
    BY DEF C!vars, C!WorkerStep, C!PublishIdentity, C!MarkCancelling, C!FailToMark, C!Withdraw, C!Acknowledge, C!Finish
  <2> QED
    BY <2>4, <2>5, <2>6, <2>7, <2>8, <2>9, SameInbox DEF Told, C!Next, C!ClientStep
<1>5. \E A \in SUBSET Past' : nextSeq' = Cardinality(A) + 1
  BY AdvancesOnce DEF Told
<1> QED
  BY <1>1, <1>2, <1>3, <1>4, <1>5 DEF Told

\* The channel keeps to its types, and no more numbers are given out than there are clients.
THEOREM ChannelTypesCorrect == C!Spec => []C!TypeOK
<1>1. C!Init => Types /\ Told
  <2> SUFFICES ASSUME C!Init PROVE Types /\ Told
    OBVIOUS
  <2>1. Types
    BY SameInbox DEF C!Init, Types
  <2>2. nextSeq = Cardinality({}) + 1 /\ {} \in SUBSET Past
    BY FS_EmptySet DEF C!Init
  <2>3. 0 \in 0 .. MaxFaults
    BY JournalAssumption
  <2> QED
    BY <2>1, <2>2, <2>3, SameInbox DEF C!Init, Told, C!Answers
<1>2. Types /\ Told /\ [C!Next]_(C!vars) => (Types /\ Told)'
  BY TypeStep, ToldStep
<1>3. Types /\ Told => C!TypeOK
  <2> SUFFICES ASSUME Types, Told PROVE C!TypeOK
    OBVIOUS
  <2>1. PICK A \in SUBSET Past : nextSeq = Cardinality(A) + 1
    BY DEF Told
  <2>2. Cardinality(A) <= Cardinality(Clients) /\ Cardinality(A) \in Nat /\ Cardinality(Clients) \in Nat
    BY <2>1, ClientsAreFinite, FS_Subset, FS_CardinalityType DEF Past
  <2>3. nextSeq \in 1 .. Cardinality(Clients) + 1
    BY <2>1, <2>2
  <2>4. C!Clients = Clients
    BY SameInbox
  <2>5. C!Cardinality(Clients) = Cardinality(Clients)
    BY DEF C!Cardinality, Cardinality
  <2>6. inbox \in Seq([by : C!Clients, seq : Nat])
    BY <2>4 DEF Types
  <2> QED
    BY <2>3, <2>4, <2>5, <2>6, Zenon DEF C!TypeOK, Types, Told
<1> QED
  BY <1>1, <1>2, <1>3, PTL DEF C!Spec

-----------------------------------------------------------------------------
(* The journal: sizes and frames, one record after the other                *)

Line  == [kind : Kinds, by : Writers, frames : Seq(Nat), size : Nat]
Lines == Seq([seq : Nat, record : Line])

\* Every set of numbers has a least one.
LEMMA LeastMember ==
  ASSUME NEW T, T \subseteq Nat, T # {}
  PROVE  \E x \in T : \A y \in T : x <= y
<1> DEFINE Upto(n) == 0..n
           I == {Upto(n) : n \in T}
<1>1. I \subseteq FiniteSubsetsOf(Nat)
  <2>1. \A n \in T : IsFiniteSet(0..n)
    BY FS_Interval
  <2> QED
    BY <2>1 DEF FiniteSubsetsOf
<1>2. PICK m \in I : \A k \in I : <<k, m>> \notin StrictSubsetOrdering(Nat)
  <2>1. IsWellFoundedOn(StrictSubsetOrdering(Nat), FiniteSubsetsOf(Nat))
    BY FS_StrictSubsetOrderingWellFounded
  <2>2. I # {}
    OBVIOUS
  <2> HIDE DEF I
  <2> QED
    BY WFMin, <1>1, <2>1, <2>2, Zenon
<1>3. PICK x \in T : m = Upto(x)
  OBVIOUS
<1>4. ASSUME NEW y \in T, y < x PROVE FALSE
  <2>1. <<Upto(y), Upto(x)>> \in StrictSubsetOrdering(Nat)
    <3>1. Upto(y) \subseteq Upto(x) /\ x \in Upto(x) /\ x \notin Upto(y)
      BY <1>4
    <3>2. Upto(y) \in SUBSET Nat /\ Upto(x) \in SUBSET Nat
      OBVIOUS
    <3> HIDE DEF Upto
    <3> QED
      BY <3>1, <3>2 DEF StrictSubsetOrdering
  <2> QED
    BY <1>2, <1>3, <2>1
<1> HIDE DEF I, Upto
<1>5. ASSUME NEW y \in T PROVE x <= y
  <2>1. ~ (y < x) /\ x \in Int /\ y \in Int
    BY <1>4
  <2> QED
    BY <2>1
<1> QED
  BY <1>5

LEMMA Induction ==
  ASSUME NEW T, 0 \in T, \A n \in Nat : n \in T => n + 1 \in T
  PROVE  Nat \subseteq T
<1> SUFFICES ASSUME Nat \ T # {} PROVE FALSE
  OBVIOUS
<1>1. PICK x \in Nat \ T : \A y \in Nat \ T : x <= y
  BY LeastMember
<1>2. x # 0 /\ x - 1 \in Nat /\ x - 1 \in T
  BY <1>1
<1> QED
  BY <1>1, <1>2

\* Step by step from the first element to the last.
Joins(h, ss) == h[0] = <<>> /\ \A n \in 1 .. Len(ss) : h[n] = h[n - 1] \o ss[n]
Sums(h, s)   == h[0] = 0 /\ \A n \in 1 .. Len(s) : h[n] = h[n - 1] + s[n].record.size

LEMMA JoinsExist ==
  ASSUME NEW S, NEW ss \in Seq(Seq(S))
  PROVE  \E h : Joins(h, ss) /\ \A n \in 0 .. Len(ss) : h[n] \in Seq(S)
<1> DEFINE And(x, n) == x \o ss[n]
           Upto(h, m) == h[0] = <<>> /\ \A n \in 1 .. m : h[n] = And(h[n - 1], n)
           Can(m) == \E h \in [0 .. m -> Seq(S)] : Upto(h, m)
           T == {m \in Nat : m <= Len(ss) => Can(m)}
<1>0. Len(ss) \in Nat /\ <<>> \in Seq(S)
  OBVIOUS
<1>1. \A x \in Seq(S), n \in 1 .. Len(ss) : And(x, n) \in Seq(S)
  <2> SUFFICES ASSUME NEW x \in Seq(S), NEW n \in 1 .. Len(ss) PROVE And(x, n) \in Seq(S)
    OBVIOUS
  <2>1. ss[n] \in Seq(S)
    OBVIOUS
  <2> QED
    BY <2>1
<1> HIDE DEF And
<1>2. 0 \in T
  <2>1. [n \in 0 .. 0 |-> <<>>] \in [0 .. 0 -> Seq(S)] /\ Upto([n \in 0 .. 0 |-> <<>>], 0)
    BY <1>0
  <2> QED
    BY <2>1
<1>3. ASSUME NEW m \in Nat, m <= Len(ss) => Can(m), m + 1 <= Len(ss) PROVE Can(m + 1)
  <2>1. PICK f \in [0 .. m -> Seq(S)] : Upto(f, m)
    <3> HIDE DEF Upto
    <3> QED
      BY <1>0, <1>3
  <2> DEFINE h == [n \in 0 .. (m + 1) |-> IF n = m + 1 THEN And(f[m], n) ELSE f[n]]
  <2>2. h \in [0 .. (m + 1) -> Seq(S)]
    <3>1. And(f[m], m + 1) \in Seq(S)
      BY <1>0, <1>1, <1>3
    <3> QED
      BY <3>1
  <2>3. Upto(h, m + 1)
    BY <2>1
  <2> HIDE DEF Upto, h
  <2> QED
    BY <2>2, <2>3
<1>4. Can(Len(ss))
  <2> HIDE DEF Can
  <2>1. \A m \in Nat : m \in T => m + 1 \in T
    BY <1>0, <1>3
  <2> HIDE DEF T
  <2>2. Nat \subseteq T
    BY <1>2, <2>1, Induction
  <2>3. Len(ss) \in T
    BY <1>0, <2>2
  <2> USE DEF T
  <2> QED
    BY <1>0, <2>3
<1>5. PICK h \in [0 .. Len(ss) -> Seq(S)] : Upto(h, Len(ss))
  <2> HIDE DEF Upto
  <2> QED
    BY <1>4
<1>6. Joins(h, ss)
  BY <1>5 DEF And, Joins
<1>7. \A n \in 0 .. Len(ss) : h[n] \in Seq(S)
  <2> DEFINE Q == Seq(S)
  <2>1. h \in [0 .. Len(ss) -> Q]
    BY <1>5
  <2> HIDE DEF Q
  <2>2. \A n \in 0 .. Len(ss) : h[n] \in Q
    BY <2>1
  <2> QED
    BY <2>2 DEF Q
<1> QED
  BY <1>6, <1>7

\* What FlattenSeq returns is what is gathered that way.
LEMMA FlattenIs ==
  ASSUME NEW S, NEW ss \in Seq(Seq(S)), NEW h, Joins(h, ss)
  PROVE  FlattenSeq(ss) = h[Len(ss)]
<1> DEFINE And(x, n) == x \o ss[n]
           First(x, n) == IF n = 1 THEN ss[n] ELSE And(x, n)
<1>0. Len(ss) \in Nat
  OBVIOUS
<1>1. \A n \in 1 .. Len(ss) : h[n] = First(h[n - 1], n)
  <2> SUFFICES ASSUME NEW n \in 1 .. Len(ss) PROVE h[n] = First(h[n - 1], n)
    OBVIOUS
  <2>1. ss[n] \in Seq(S)
    OBVIOUS
  <2>4. h[n] = h[n - 1] \o ss[n]
    BY DEF Joins
  <2>2. CASE n = 1
    <3>1. h[n - 1] = <<>>
      BY <2>2 DEF Joins
    <3>2. h[n] = <<>> \o ss[n]
      BY <2>4, <3>1
    <3>3. <<>> \o ss[n] = ss[n]
      BY <2>1, ConcatEmptySeq
    <3> QED
      BY <2>2, <3>2, <3>3
  <2> QED
    BY <2>2, <2>4
<1>2. CASE Len(ss) = 0
  BY <1>2 DEF FlattenSeq, Joins
<1>3. CASE Len(ss) # 0
  <2>1. \E f : f = [n \in 1 .. Len(ss) |-> First(f[n - 1], n)]
    <3> HIDE DEF First
    <3> DEFINE f == [n \in 1 .. Len(ss) |-> h[n]]
    <3>1. f = [n \in 1 .. Len(ss) |-> First(h[n - 1], n)]
      BY <1>1
    <3>2. \A n \in 1 .. Len(ss) : First(h[n - 1], n) = First(f[n - 1], n)
      BY <1>0 DEF First
    <3>3. f = [n \in 1 .. Len(ss) |-> First(f[n - 1], n)]
      BY <3>1, <3>2
    <3> HIDE DEF f
    <3> QED
      BY <3>3
  <2>2. PICK f : /\ f = [n \in 1 .. Len(ss) |-> First(f[n - 1], n)]
                 /\ FlattenSeq(ss) = f[Len(ss)]
    BY <1>3, <2>1 DEF FlattenSeq
  <2> HIDE DEF And
  <2>3. \A n \in 1 .. Len(ss) : f[n] = First(f[n - 1], n)
    <3> HIDE DEF First
    <3> QED
      BY <2>2
  <2> DEFINE E == {n \in Nat : n \in 1 .. Len(ss) => f[n] = h[n]}
  <2>4. 0 \in E
    OBVIOUS
  <2>5. ASSUME NEW n \in Nat, n \in E PROVE n + 1 \in E
    <3> SUFFICES ASSUME n + 1 \in 1 .. Len(ss) PROVE f[n + 1] = h[n + 1]
      OBVIOUS
    <3>1. f[n + 1] = First(f[n], n + 1) /\ h[n + 1] = First(h[n], n + 1)
      <4> HIDE DEF First
      <4>1. (n + 1) - 1 = n
        OBVIOUS
      <4> QED
        BY <1>1, <2>3, <4>1
    <3>2. n # 0 => f[n] = h[n]
      BY <1>0, <2>5
    <3> QED
      BY <3>1, <3>2
  <2>6. Len(ss) \in E
    <3> HIDE DEF E
    <3>1. Nat \subseteq E
      BY <2>4, <2>5, Induction
    <3> QED
      BY <1>0, <3>1
  <2> QED
    BY <1>0, <1>3, <2>2, <2>6
<1> QED
  BY <1>2, <1>3

LEMMA SumsExist ==
  ASSUME NEW s \in Lines
  PROVE  \E h \in [0 .. Len(s) -> Nat] : Sums(h, s)
<1> DEFINE Upto(h, m) == h[0] = 0 /\ \A n \in 1 .. m : h[n] = h[n - 1] + s[n].record.size
           Can(m) == \E h \in [0 .. m -> Nat] : Upto(h, m)
           T == {m \in Nat : m <= Len(s) => Can(m)}
<1>0. Len(s) \in Nat /\ \A n \in 1 .. Len(s) : s[n].record.size \in Nat
  <2>1. \A n \in 1 .. Len(s) : s[n] \in [seq : Nat, record : Line]
    <3> DEFINE Row == [seq : Nat, record : Line]
    <3>1. s \in Seq(Row)
      BY DEF Lines
    <3> HIDE DEF Row
    <3>2. \A n \in 1 .. Len(s) : s[n] \in Row
      BY <3>1
    <3> QED
      BY <3>2 DEF Row
  <2>2. \A e \in [seq : Nat, record : Line] : e.record.size \in Nat
    BY DEF Line
  <2> QED
    BY <2>1, <2>2 DEF Lines
<1>2. 0 \in T
  <2>1. [n \in 0 .. 0 |-> 0] \in [0 .. 0 -> Nat] /\ Upto([n \in 0 .. 0 |-> 0], 0)
    OBVIOUS
  <2> QED
    BY <2>1
<1>3. ASSUME NEW m \in Nat, m <= Len(s) => Can(m), m + 1 <= Len(s) PROVE Can(m + 1)
  <2>1. PICK f \in [0 .. m -> Nat] : Upto(f, m)
    <3> HIDE DEF Upto
    <3> QED
      BY <1>0, <1>3
  <2> DEFINE h == [n \in 0 .. (m + 1) |-> IF n = m + 1 THEN f[m] + s[m + 1].record.size ELSE f[n]]
  <2>2. h \in [0 .. (m + 1) -> Nat]
    <3>1. f[m] + s[m + 1].record.size \in Nat
      BY <1>0, <1>3
    <3> QED
      BY <3>1
  <2>3. Upto(h, m + 1)
    <3>1. h[0] = 0 /\ f[0] = 0
      BY <2>1
    <3>2. ASSUME NEW n \in 1 .. (m + 1) PROVE h[n] = h[n - 1] + s[n].record.size
      <4>1. CASE n = m + 1
        BY <4>1
      <4>2. CASE n \in 1 .. m
        BY <2>1, <4>2
      <4>3. n = m + 1 \/ n \in 1 .. m
        OBVIOUS
      <4> QED
        BY <4>1, <4>2, <4>3
    <3> HIDE DEF h
    <3> QED
      BY <3>1, <3>2
  <2> HIDE DEF Upto, h
  <2> QED
    BY <2>2, <2>3
<1>4. Can(Len(s))
  <2> HIDE DEF Can
  <2>1. \A m \in Nat : m \in T => m + 1 \in T
    BY <1>0, <1>3
  <2> HIDE DEF T
  <2>2. Nat \subseteq T
    BY <1>2, <2>1, Induction
  <2>3. Len(s) \in T
    BY <1>0, <2>2
  <2> USE DEF T
  <2> QED
    BY <1>0, <2>3
<1> QED
  BY <1>4 DEF Sums

\* So does Bytes add up.
LEMMA BytesIs ==
  ASSUME NEW s \in Lines, NEW h, Sums(h, s)
  PROVE  Bytes(s) = h[Len(s)]
<1> DEFINE Plus(x, n) == x + s[n].record.size
           First(x, n) == IF n = 0 THEN 0 ELSE Plus(x, n)
<1>0. Len(s) \in Nat
  BY DEF Lines
<1>1. \A n \in 0 .. Len(s) : h[n] = First(h[n - 1], n)
  BY <1>0 DEF Sums
<1> HIDE DEF Plus
<1>2. \E f : f = [n \in 0 .. Len(s) |-> First(f[n - 1], n)]
  <2> DEFINE f == [n \in 0 .. Len(s) |-> h[n]]
  <2>2. \A n \in 0 .. Len(s) : First(h[n - 1], n) = First(f[n - 1], n)
    BY <1>0
  <2> HIDE DEF First
  <2>1. f = [n \in 0 .. Len(s) |-> First(h[n - 1], n)]
    BY <1>1
  <2>3. f = [n \in 0 .. Len(s) |-> First(f[n - 1], n)]
    BY <2>1, <2>2
  <2> HIDE DEF f
  <2> QED
    BY <2>3
<1>3. PICK f : f = [n \in 0 .. Len(s) |-> First(f[n - 1], n)] /\ Bytes(s) = f[Len(s)]
  BY <1>2 DEF Bytes, Plus
<1>4. \A n \in 0 .. Len(s) : f[n] = First(f[n - 1], n)
  <2> HIDE DEF First
  <2> QED
    BY <1>3
<1> DEFINE E == {n \in Nat : n \in 0 .. Len(s) => f[n] = h[n]}
<1>5. 0 \in E
  BY <1>0, <1>1, <1>4
<1>6. ASSUME NEW n \in Nat, n \in E PROVE n + 1 \in E
  <2> SUFFICES ASSUME n + 1 \in 0 .. Len(s) PROVE f[n + 1] = h[n + 1]
    OBVIOUS
  <2>1. f[n + 1] = First(f[n], n + 1) /\ h[n + 1] = First(h[n], n + 1)
    <3> HIDE DEF First
    <3>1. (n + 1) - 1 = n
      OBVIOUS
    <3> QED
      BY <1>1, <1>4, <3>1
  <2>2. f[n] = h[n]
    BY <1>0, <1>6
  <2> QED
    BY <2>1, <2>2
<1>7. Len(s) \in E
  <2> HIDE DEF E
  <2>1. Nat \subseteq E
    BY <1>5, <1>6, Induction
  <2> QED
    BY <1>0, <2>1
<1> QED
  BY <1>0, <1>3, <1>7

LEMMA BytesGrow ==
  /\ Bytes(<<>>) = 0
  /\ \A s \in Lines : Bytes(s) \in Nat
  /\ \A s \in Lines, e \in [seq : Nat, record : Line] : Bytes(Append(s, e)) = Bytes(s) + e.record.size
<1>1. ASSUME NEW s \in Lines
      PROVE  Bytes(s) \in Nat
  <2>1. PICK h \in [0 .. Len(s) -> Nat] : Sums(h, s)
    BY SumsExist
  <2>2. Len(s) \in Nat
    BY DEF Lines
  <2> QED
    BY <2>1, <2>2, BytesIs
<1>2. Bytes(<<>>) = 0
  <2>1. <<>> \in Lines /\ Len(<<>>) = 0
    BY DEF Lines
  <2> DEFINE h == [n \in 0 .. 0 |-> 0]
  <2>2. h[0] = 0
    OBVIOUS
  <2> HIDE DEF h
  <2>3. Sums(h, <<>>)
    BY <2>1, <2>2 DEF Sums
  <2> QED
    BY <2>1, <2>2, <2>3, BytesIs
<1>3. ASSUME NEW s \in Lines, NEW e \in [seq : Nat, record : Line]
      PROVE  Bytes(Append(s, e)) = Bytes(s) + e.record.size
  <2>1. PICK h \in [0 .. Len(s) -> Nat] : Sums(h, s)
    BY SumsExist
  <2>2. PICK m \in Nat : m = Len(s)
    BY DEF Lines
  <2>3. /\ Append(s, e) \in Lines /\ Len(Append(s, e)) = m + 1 /\ Append(s, e)[m + 1] = e
        /\ \A n \in 1 .. m : Append(s, e)[n] = s[n]
    BY <2>2 DEF Lines
  <2>4. PICK g : g = [n \in 0 .. (m + 1) |-> IF n = m + 1 THEN h[m] + e.record.size ELSE h[n]]
    OBVIOUS
  <2>5. Sums(g, Append(s, e))
    <3>1. g[0] = 0
      BY <2>1, <2>4 DEF Sums
    <3>2. ASSUME NEW n \in 1 .. (m + 1) PROVE g[n] = g[n - 1] + Append(s, e)[n].record.size
      <4>1. CASE n = m + 1
        BY <2>3, <2>4, <4>1
      <4>2. CASE n \in 1 .. m
        BY <2>1, <2>2, <2>3, <2>4, <4>2 DEF Sums
      <4>3. n = m + 1 \/ n \in 1 .. m
        OBVIOUS
      <4> QED
        BY <4>1, <4>2, <4>3
    <3> QED
      BY <2>3, <3>1, <3>2 DEF Sums
  <2>6. Bytes(Append(s, e)) = g[m + 1] /\ Bytes(s) = h[m]
    BY <2>1, <2>2, <2>3, <2>5, BytesIs
  <2> QED
    BY <2>4, <2>6
<1> QED
  BY <1>1, <1>2, <1>3

LEMMA FlattenConcat ==
  ASSUME NEW S, NEW ss \in Seq(Seq(S)), NEW tt \in Seq(Seq(S))
  PROVE  FlattenSeq(ss) \in Seq(S) /\ FlattenSeq(ss \o tt) = FlattenSeq(ss) \o FlattenSeq(tt)
<1>1. PICK g : Joins(g, ss) /\ \A i \in 0 .. Len(ss) : g[i] \in Seq(S)
  BY JoinsExist
<1>2. PICK h : Joins(h, tt) /\ \A i \in 0 .. Len(tt) : h[i] \in Seq(S)
  BY JoinsExist
<1>3. PICK m \in Nat : m = Len(ss)
  OBVIOUS
<1>4. PICK n \in Nat : n = Len(tt)
  OBVIOUS
<1>5. /\ ss \o tt \in Seq(Seq(S)) /\ Len(ss \o tt) = m + n
      /\ \A i \in 1 .. (m + n) : (ss \o tt)[i] = IF i <= m THEN ss[i] ELSE tt[i - m]
  <2> HIDE DEF Joins
  <2> QED
    BY <1>3, <1>4, ConcatProperties
<1>6. PICK f : f = [i \in 0 .. (m + n) |-> IF i <= m THEN g[i] ELSE g[m] \o h[i - m]]
  OBVIOUS
<1>7. g[m] \in Seq(S) /\ \A i \in 0 .. n : h[i] \in Seq(S)
  <2>1. m \in 0 .. Len(ss)
    BY <1>3
  <2> QED
    BY <1>1, <1>2, <1>4, <2>1, Zenon
<1>8. Joins(f, ss \o tt)
  <2>1. f[0] = <<>>
    BY <1>1, <1>6 DEF Joins
  <2>2. ASSUME NEW i \in 1 .. (m + n) PROVE f[i] = f[i - 1] \o (ss \o tt)[i]
    <3>1. CASE i <= m
      <4>1. f[i] = g[i] /\ f[i - 1] = g[i - 1] /\ (ss \o tt)[i] = ss[i]
        BY <1>5, <1>6, <3>1
      <4>2. g[i] = g[i - 1] \o ss[i]
        <5>1. i \in 1 .. Len(ss)
          BY <1>3, <3>1
        <5> QED
          BY <1>1, <5>1, Zenon DEF Joins
      <4> QED
        BY <4>1, <4>2
    <3>2. CASE ~ (i <= m)
      <4>1. PICK k \in 1 .. n : i = m + k
        <5>1. i - m \in 1 .. n /\ i = m + (i - m)
          BY <3>2
        <5> QED
          BY <5>1
      <4>2. f[i] = g[m] \o h[k] /\ (ss \o tt)[i] = tt[k] /\ tt[k] \in Seq(S)
        <5>1. tt[k] \in Seq(S)
          BY <1>4, ElementOfSeq
        <5>2. (ss \o tt)[i] = tt[k]
          <6>1. i - m = k /\ ~ (i <= m)
            BY <4>1
          <6> HIDE DEF Joins
          <6> QED
            BY <1>5, <6>1, Zenon
        <5>3. f[i] = g[m] \o h[k]
          <6>1. i - m = k /\ ~ (i <= m) /\ i \in 0 .. (m + n)
            BY <4>1
          <6>2. f[i] = IF i <= m THEN g[i] ELSE g[m] \o h[i - m]
            BY <1>6, <6>1, Zenon
          <6> QED
            BY <6>1, <6>2, Zenon
        <5> QED
          BY <5>1, <5>2, <5>3
      <4>3. h[k] = h[k - 1] \o tt[k] /\ h[k - 1] \in Seq(S)
        <5>1. k - 1 \in 0 .. n
          OBVIOUS
        <5>2. h[k] = h[k - 1] \o tt[k]
          BY <1>2, <1>4 DEF Joins
        <5> QED
          BY <1>7, <5>1, <5>2
      <4>4. f[i - 1] = g[m] \o h[k - 1]
        <5>1. CASE k = 1
          <6>1. i - 1 = m /\ m <= m /\ m \in 0 .. (m + n)
            BY <4>1, <5>1
          <6>2. f[m] = g[m]
            BY <1>6, <6>1
          <6>3. h[k - 1] = <<>>
            BY <1>2, <5>1 DEF Joins
          <6>4. g[m] \o <<>> = g[m]
            BY <1>7, ConcatEmptySeq
          <6> QED
            BY <6>1, <6>2, <6>3, <6>4
        <5>2. CASE k # 1
          <6>1. (i - 1) - m = k - 1 /\ ~ (i - 1 <= m) /\ i - 1 \in 0 .. (m + n)
            BY <4>1, <5>2
          <6>2. f[i - 1] = IF i - 1 <= m THEN g[i - 1] ELSE g[m] \o h[(i - 1) - m]
            BY <1>6, <6>1, Zenon
          <6> QED
            BY <6>1, <6>2, Zenon
        <5> QED
          BY <5>1, <5>2
      <4>5. (g[m] \o h[k - 1]) \o tt[k] = g[m] \o (h[k - 1] \o tt[k])
        <5>1. \A x, y, z \in Seq(S) : (x \o y) \o z = x \o (y \o z)
          BY ConcatAssociative
        <5> QED
          BY <1>7, <4>2, <4>3, <5>1, Zenon
      <4> QED
        BY <4>2, <4>3, <4>4, <4>5
    <3> QED
      BY <3>1, <3>2
  <2> QED
    BY <1>5, <2>1, <2>2 DEF Joins
<1>9. FlattenSeq(ss) = g[m] /\ FlattenSeq(tt) = h[n] /\ FlattenSeq(ss \o tt) = f[m + n]
  BY <1>1, <1>2, <1>3, <1>4, <1>5, <1>8, FlattenIs
<1>10. f[m + n] = g[m] \o h[n]
  <2>1. CASE n = 0
    <3>1. f[m + n] = g[m]
      BY <1>6, <2>1
    <3>2. h[n] = <<>> /\ g[m] \o <<>> = g[m]
      BY <1>2, <1>7, <2>1, ConcatEmptySeq DEF Joins
    <3> QED
      BY <3>1, <3>2
  <2>2. CASE n # 0
    <3>1. (m + n) - m = n /\ ~ (m + n <= m) /\ m + n \in 0 .. (m + n)
      BY <2>2
    <3>2. f[m + n] = IF m + n <= m THEN g[m + n] ELSE g[m] \o h[(m + n) - m]
      BY <1>6, <3>1, Zenon
    <3> QED
      BY <3>1, <3>2, Zenon
  <2> QED
    BY <2>1, <2>2
<1> QED
  BY <1>7, <1>9, <1>10

\* The part of a sequence of records that belongs to w.
PartOf(w, s) == [i \in DOMAIN s |-> IF s[i].by = w THEN s[i].frames ELSE <<>>]

LEMMA PartsOf ==
  ASSUME NEW w, NEW s \in Seq(Line)
  PROVE  /\ PartOf(w, s) \in Seq(Seq(Nat)) /\ Len(PartOf(w, s)) = Len(s)
         /\ \A i \in 1 .. Len(s) : PartOf(w, s)[i] = IF s[i].by = w THEN s[i].frames ELSE <<>>
<1>1. PICK n \in Nat : n = Len(s) /\ DOMAIN s = 1 .. n
  OBVIOUS
<1>2. \A i \in 1 .. n : s[i].frames \in Seq(Nat)
  <2>1. \A i \in 1 .. n : s[i] \in Line
    BY <1>1, ElementOfSeq
  <2>2. \A l \in Line : l.frames \in Seq(Nat)
    BY DEF Line
  <2> QED
    BY <2>1, <2>2
<1> DEFINE p == [i \in 1 .. n |-> IF s[i].by = w THEN s[i].frames ELSE <<>>]
<1>3. p \in [1 .. n -> Seq(Nat)]
  <2> DEFINE Q == Seq(Nat)
  <2>1. <<>> \in Q /\ \A i \in 1 .. n : s[i].frames \in Q
    BY <1>2
  <2> HIDE DEF Q
  <2>2. p \in [1 .. n -> Q]
    BY <2>1
  <2> QED
    BY <2>2 DEF Q
<1>4. PartOf(w, s) = p
  BY <1>1 DEF PartOf
<1>5. \A i \in 1 .. n : p[i] = IF s[i].by = w THEN s[i].frames ELSE <<>>
  OBVIOUS
<1>6. p \in Seq(Seq(Nat)) /\ Len(p) = n
  <2> HIDE DEF p
  <2> QED
    BY <1>3
<1> QED
  BY <1>1, <1>4, <1>5, <1>6

LEMMA FramesConcat ==
  ASSUME NEW w, NEW s \in Seq(Line), NEW t \in Seq(Line)
  PROVE  /\ FramesOf(w, s) \in Seq(Nat)
         /\ FramesOf(w, s \o t) = FramesOf(w, s) \o FramesOf(w, t)
<1>1. PICK m \in Nat : m = Len(s)
  OBVIOUS
<1>2. PICK n \in Nat : n = Len(t)
  OBVIOUS
<1>3. /\ s \o t \in Seq(Line) /\ Len(s \o t) = m + n
      /\ \A i \in 1 .. (m + n) : (s \o t)[i] = IF i <= m THEN s[i] ELSE t[i - m]
  BY <1>1, <1>2, ConcatProperties
<1> DEFINE Frames(l) == IF l.by = w THEN l.frames ELSE <<>>
           Q == Seq(Nat)
<1>0. ASSUME NEW l \in Seq(Line), NEW k \in Nat, k = Len(l)
      PROVE  \E p \in Seq(Q) : /\ p = PartOf(w, l) /\ Len(p) = k
                               /\ \A i \in 1 .. k : p[i] = Frames(l[i])
  <2> DEFINE p == PartOf(w, l)
  <2>1. p \in Seq(Q) /\ Len(p) = k
    BY <1>0, PartsOf
  <2>2. \A i \in 1 .. k : p[i] = Frames(l[i])
    BY <1>0, PartsOf
  <2> HIDE DEF p, Frames, Q
  <2>3. \E x \in Seq(Q) : x = p
    BY <2>1
  <2> QED
    BY <2>1, <2>2 DEF p
<1> HIDE DEF Frames, Q
<1>4. PICK p \in Seq(Q) : p = PartOf(w, s) /\ Len(p) = m /\ \A i \in 1 .. m : p[i] = Frames(s[i])
  BY <1>1, <1>0
<1>5. PICK q \in Seq(Q) : q = PartOf(w, t) /\ Len(q) = n /\ \A i \in 1 .. n : q[i] = Frames(t[i])
  BY <1>2, <1>0
<1>6. PICK r \in Seq(Q) :
        r = PartOf(w, s \o t) /\ Len(r) = m + n /\ \A i \in 1 .. (m + n) : r[i] = Frames((s \o t)[i])
  <2>1. m + n \in Nat /\ s \o t \in Seq(Line) /\ m + n = Len(s \o t)
    BY <1>3
  <2> QED
    BY <2>1, <1>0, Zenon
<1>7. r = p \o q
  <2>1. /\ p \o q \in Seq(Q) /\ Len(p \o q) = m + n
        /\ \A i \in 1 .. (m + n) : (p \o q)[i] = IF i <= m THEN p[i] ELSE q[i - m]
    <3>1. /\ p \o q \in Seq(Q) /\ Len(p \o q) = Len(p) + Len(q)
          /\ \A i \in 1 .. Len(p) + Len(q) : (p \o q)[i] = IF i <= Len(p) THEN p[i] ELSE q[i - Len(p)]
      BY ConcatProperties, Zenon
    <3>2. Len(p) = m /\ Len(q) = n
      BY <1>4, <1>5
    <3> QED
      BY <3>1, <3>2
  <2>2. ASSUME NEW i \in 1 .. (m + n) PROVE r[i] = (p \o q)[i]
    <3>1. CASE i <= m
      <4>1. (s \o t)[i] = s[i] /\ (p \o q)[i] = p[i]
        BY <1>3, <2>1, <3>1, Zenon
      <4>2. i \in 1 .. m
        BY <3>1
      <4> QED
        BY <1>4, <1>6, <4>1, <4>2
    <3>2. CASE ~ (i <= m)
      <4>1. (s \o t)[i] = t[i - m] /\ (p \o q)[i] = q[i - m]
        BY <1>3, <2>1, <3>2, Zenon
      <4>2. i - m \in 1 .. n
        BY <3>2
      <4> QED
        BY <1>5, <1>6, <4>1, <4>2
    <3> QED
      BY <3>1, <3>2
  <2> QED
    BY <1>6, <2>1, <2>2, SeqEqual
<1>8. /\ FlattenSeq(p) = FramesOf(w, s) /\ FlattenSeq(q) = FramesOf(w, t)
      /\ FlattenSeq(r) = FramesOf(w, s \o t)
  BY <1>4, <1>5, <1>6 DEF FramesOf, PartOf
<1>9. FlattenSeq(p) \in Seq(Nat) /\ FlattenSeq(p \o q) = FlattenSeq(p) \o FlattenSeq(q)
  BY FlattenConcat DEF Q
<1> QED
  BY <1>7, <1>8, <1>9

\* The frames of one record, and of none.
LEMMA FramesOne ==
  ASSUME NEW w
  PROVE  /\ FramesOf(w, <<>>) = <<>>
         /\ \A r \in Line : FramesOf(w, <<r>>) = IF r.by = w THEN r.frames ELSE <<>>
<1>1. FramesOf(w, <<>>) = <<>>
  <2>1. FramesOf(w, <<>>) = FlattenSeq(PartOf(w, <<>>))
    BY DEF FramesOf, PartOf
  <2>2. <<>> \in Seq(Line) /\ Len(<<>>) = 0
    OBVIOUS
  <2>3. PartOf(w, <<>>) \in Seq(Seq(Nat)) /\ Len(PartOf(w, <<>>)) = 0
    BY <2>2, PartsOf
  <2> QED
    BY <2>1, <2>3 DEF FlattenSeq
<1>2. ASSUME NEW r \in Line PROVE FramesOf(w, <<r>>) = IF r.by = w THEN r.frames ELSE <<>>
  <2>1. PICK s \in Seq(Line) : s = <<r>> /\ Len(s) = 1 /\ s[1] = r
    <3>1. <<r>> \in Seq(Line) /\ Len(<<r>>) = 1 /\ <<r>>[1] = r
      OBVIOUS
    <3> QED
      BY <3>1, Zenon
  <2>2. PICK g \in Seq(Nat) : g = IF r.by = w THEN r.frames ELSE <<>>
    <3>1. r.frames \in Seq(Nat) /\ <<>> \in Seq(Nat)
      BY DEF Line
    <3> QED
      BY <3>1
  <2>3. PICK p : p = PartOf(w, s) /\ p \in Seq(Seq(Nat)) /\ Len(p) = 1 /\ p[1] = g
    <3>1. /\ PartOf(w, s) \in Seq(Seq(Nat)) /\ Len(PartOf(w, s)) = Len(s)
          /\ \A i \in 1 .. Len(s) : PartOf(w, s)[i] = IF s[i].by = w THEN s[i].frames ELSE <<>>
      BY PartsOf, Zenon
    <3>2. 1 \in 1 .. Len(s)
      BY <2>1
    <3> QED
      BY <2>1, <2>2, <3>1, <3>2
  <2>4. FramesOf(w, s) = FlattenSeq(p)
    BY <2>3 DEF FramesOf, PartOf
  <2>5. PICK h : h = [i \in 0 .. 1 |-> IF i = 0 THEN <<>> ELSE g]
    OBVIOUS
  <2>6. h[0] = <<>> /\ h[1] = g /\ <<>> \o g = g
    BY <2>5, ConcatEmptySeq
  <2>7. Joins(h, p)
    <3> SUFFICES ASSUME NEW n \in 1 .. 1 PROVE h[n] = h[n - 1] \o p[n]
      BY <2>3, <2>6 DEF Joins
    <3>1. n = 1 /\ n - 1 = 0
      OBVIOUS
    <3> QED
      BY <2>3, <2>6, <3>1
  <2>8. FlattenSeq(p) = h[1]
    BY <2>3, <2>7, FlattenIs
  <2> QED
    BY <2>1, <2>2, <2>4, <2>6, <2>8
<1> QED
  BY <1>1, <1>2

-----------------------------------------------------------------------------
(* The journal: the inductive invariant                                     *)

Taken == [kind : {"small", "large", "delta"}, number : Nat]

\* A marker is made under the lock only.
Waiting == {r \in Line : r.kind # "journal.truncated"}

\* What writers have still to append, and text and frames for more of it.
JournalTypes ==
  /\ file \in Lines
  /\ lock \in Writers \cup {Nobody}
  /\ given \in [Writers -> Nat]
  /\ buffer \in [Writers -> Seq(Taken)]
  /\ pending \in [Writers -> Seq(Nat)]
  /\ todo \in [Writers -> Seq(Waiting)]
  /\ out \in [Writers -> Line \cup {Nothing}]
  /\ DOMAIN view = Writers

IsMark(i) == file[i].record.kind = "journal.truncated"

\* What is written is written under the lock.
LockedWrites == \A w \in Writers : out[w] # Nothing <=> lock = w

\* A checkpoint stands for a beginning of the file, and its marker.
Checkpoint(v) ==
  /\ v.read \in 0 .. Len(file) /\ v.seq = v.read
  /\ v.marked <=> \E i \in 1 .. v.read : IsMark(i)
  /\ v.marked => v.truncated

\* Who writes has read the whole file, and has seen no marker unless it comes to the end.
ReadFirst ==
  \A w \in Writers : out[w] # Nothing =>
    /\ view[w].read = Len(file)
    /\ out[w].kind # "terminal" => ~ view[w].truncated

JournalInv ==
  /\ JournalTypes /\ LockedWrites
  /\ \A w \in Writers : Checkpoint(view[w])
  /\ ReadFirst
  /\ SeqIsGapless /\ NothingBehindTheMarker

\* The file without its end is the file before it.
LEMMA Appended ==
  ASSUME JournalTypes, NEW e \in [seq : Nat, record : Line], file' = Append(file, e)
  PROVE  /\ file' \in Lines /\ Len(file) \in Nat /\ Len(file') = Len(file) + 1
         /\ file'[Len(file) + 1] = e
         /\ \A i \in 1 .. Len(file) : file'[i] = file[i]
         /\ DOMAIN file = 1 .. Len(file) /\ DOMAIN file' = 1 .. (Len(file) + 1)
  BY DEF JournalTypes, Lines

\* The file is never shorter than it was found.
LEMMA NotShrunk ==
  ASSUME JournalTypes, NEW v, Checkpoint(v)
  PROVE  ~ Shrunk(v)
  BY DEF JournalTypes, Lines, Checkpoint, Shrunk

\* Every way to go on from a checkpoint: from there, or from the beginning.
LEMMA Reread ==
  ASSUME JournalTypes, NEW v, Checkpoint(v)
  PROVE  Checkpoint(Base(v))
<1>1. Checkpoint(Blank)
  BY DEF Blank, Checkpoint, JournalTypes, Lines
<1>2. Base(v) = v \/ Base(v) = Blank
  BY DEF Base
<1> QED
  BY <1>1, <1>2

\* What lies behind a checkpoint.
LEMMA UnreadIs ==
  ASSUME JournalTypes, NEW v, v.read \in 0 .. Len(file)
  PROVE  /\ Len(Unread(v)) = Len(file) - v.read
         /\ DOMAIN Unread(v) = 1 .. (Len(file) - v.read)
         /\ \A i \in 1 .. (Len(file) - v.read) : Unread(v)[i] = file[v.read + i]
<1>0. Len(file) \in Nat /\ v.read \in 0 .. Len(file)
  BY DEF JournalTypes, Lines
<1> DEFINE Row == [seq : Nat, record : Line]
<1>9. file \in Seq(Row)
  BY DEF JournalTypes, Lines
<1>2. PICK k \in Nat, n \in Nat : k = v.read /\ n = Len(file) /\ k <= n
  BY <1>0
<1>7. PICK m \in Int : m = k + 1
  OBVIOUS
<1>8. PICK rest : rest = SubSeq(file, m, n)
  OBVIOUS
<1> HIDE DEF Row
<1>1. n \in Int /\ \A i \in m .. n : file[i] \in Row
  BY <1>2, <1>7, <1>9
<1>3. /\ rest \in Seq(Row) /\ Len(rest) = IF m <= n THEN n - m + 1 ELSE 0
      /\ \A i \in 1 .. n - m + 1 : rest[i] = file[m + i - 1]
  BY <1>1, <1>8, SubSeqProperties
<1>4. rest = Unread(v) /\ DOMAIN rest = 1 .. Len(rest)
  <2>1. rest = Unread(v)
    BY <1>2, <1>7, <1>8 DEF Unread
  <2>2. rest \in Seq(Row)
    BY <1>3
  <2>3. DOMAIN rest = 1 .. Len(rest)
    BY <2>2
  <2> QED
    BY <2>1, <2>3
<1>5. Len(rest) = n - k
  BY <1>2, <1>3, <1>7
<1>6. ASSUME NEW i \in 1 .. (n - k) PROVE rest[i] = file[k + i]
  <2>1. m + i - 1 = k + i /\ i \in 1 .. n - m + 1
    BY <1>2, <1>7
  <2> QED
    BY <1>3, <2>1
<1> QED
  BY <1>2, <1>4, <1>5, <1>6

LEMMA Recovering ==
  ASSUME JournalTypes, NEW v, Checkpoint(v)
  PROVE  /\ Checkpoint(Recovered(v))
         /\ Recovered(v).read = Len(file)
<1>0. Len(file) \in Nat /\ DOMAIN file = 1 .. Len(file) /\ v.read \in 0 .. Len(file) /\ v.seq = v.read
  BY DEF JournalTypes, Lines, Checkpoint
<1>1. /\ Len(Unread(v)) = Len(file) - v.read
      /\ DOMAIN Unread(v) = 1 .. (Len(file) - v.read)
      /\ \A i \in 1 .. (Len(file) - v.read) : Unread(v)[i] = file[v.read + i]
  BY <1>0, UnreadIs
<1>2. /\ Recovered(v).read = Len(file)
      /\ Recovered(v).seq = v.seq + Len(Unread(v))
      /\ Recovered(v).marked = (v.marked \/ Marks(Unread(v)))
      /\ Recovered(v).truncated = (v.truncated \/ Marks(Unread(v)))
  BY DEF Recovered
<1>3. Recovered(v).seq = Len(file)
  BY <1>0, <1>1, <1>2
<1>4. ASSUME NEW i \in 1 .. Len(file), IsMark(i) PROVE v.marked \/ Marks(Unread(v))
  <2>1. CASE i \in 1 .. v.read
    BY <1>4, <2>1 DEF Checkpoint
  <2>2. CASE i \notin 1 .. v.read
    <3>1. i - v.read \in 1 .. (Len(file) - v.read) /\ v.read + (i - v.read) = i
      BY <1>0, <2>2
    <3>2. Unread(v)[i - v.read] = file[i]
      BY <1>1, <3>1
    <3> QED
      BY <1>1, <1>4, <3>1, <3>2 DEF Marks, IsMark
  <2> QED
    BY <2>1, <2>2
<1>7. v.marked \/ Marks(Unread(v)) => \E i \in 1 .. Len(file) : IsMark(i)
  <2>1. CASE v.marked
    <3>1. PICK i \in 1 .. v.read : IsMark(i)
      BY <2>1 DEF Checkpoint
    <3>2. i \in 1 .. Len(file)
      BY <1>0
    <3> QED
      BY <3>1, <3>2
  <2>2. CASE Marks(Unread(v))
    <3>1. PICK i \in 1 .. (Len(file) - v.read) : Unread(v)[i].record.kind = "journal.truncated"
      BY <1>1, <2>2 DEF Marks
    <3>2. v.read + i \in 1 .. Len(file)
      BY <1>0
    <3>3. Unread(v)[i] = file[v.read + i]
      BY <1>1
    <3>4. IsMark(v.read + i)
      BY <3>1, <3>3 DEF IsMark
    <3> QED
      BY <3>2, <3>4
  <2> QED
    BY <2>1, <2>2
<1>5. Recovered(v).marked <=> \E i \in 1 .. Len(file) : IsMark(i)
  BY <1>2, <1>4, <1>7
<1>6. Recovered(v).marked => Recovered(v).truncated
  BY <1>2 DEF Checkpoint
<1> QED
  BY <1>0, <1>2, <1>3, <1>5, <1>6 DEF Checkpoint

LEMMA JournalInitially ==
  ASSUME Init
  PROVE  JournalInv
<1>1. JournalTypes
  BY DEF Init, JournalTypes, Lines
<1>2. \A w \in Writers : view[w] = Blank /\ out[w] = Nothing
  BY DEF Init
<1>3. file = <<>> /\ Len(file) = 0 /\ DOMAIN file = {} /\ lock = Nobody
  BY DEF Init
<1>4. Checkpoint(Blank)
  BY <1>3 DEF Checkpoint, Blank
<1> QED
  BY <1>1, <1>2, <1>3, <1>4, JournalAssumption DEF JournalInv, LockedWrites, ReadFirst, SeqIsGapless, NothingBehindTheMarker

-----------------------------------------------------------------------------
(* What is taken in                                                         *)

\* The records of w that are neither a marker nor the last one.
Plain(w) == {r \in Waiting : r.kind # "terminal" /\ r.by = w}

LEMMA PlainWaits ==
  ASSUME NEW w, NEW s \in Seq(Plain(w))
  PROVE  s \in Seq(Waiting) /\ s \in Seq(Line)
<1>1. Plain(w) \subseteq Waiting /\ Plain(w) \subseteq Line
  BY DEF Plain, Waiting
<1> HIDE DEF Plain
<1> QED
  BY <1>1

LEMMA Gathered ==
  ASSUME NEW w \in Writers, NEW frames \in Seq(Nat)
  PROVE  Delta(w, frames) \in Seq(Plain(w)) /\ FramesOf(w, Delta(w, frames)) = frames
<1> DEFINE r == Rec(w, "message.delta", frames, IF Len(frames) = 1 THEN Small ELSE Large)
<1>1. r \in Line /\ r.kind = "message.delta" /\ r.by = w /\ r.frames = frames
  BY DEF Rec, Small, Large, Line, Kinds
<1>2. r \in Plain(w)
  BY <1>1 DEF Waiting, Plain
<1>3. Delta(w, frames) = IF frames = <<>> THEN <<>> ELSE <<r>>
  BY DEF Delta
<1> HIDE DEF r
<1>4. <<r>> \in Seq(Plain(w)) /\ <<>> \in Seq(Plain(w))
  BY <1>2
<1>5. FramesOf(w, <<>>) = <<>> /\ FramesOf(w, <<r>>) = frames
  BY <1>1, FramesOne
<1> QED
  BY <1>3, <1>4, <1>5

\* What is taken in goes to the records and to the text gathered, behind what was there.
LEMMA TakingIn ==
  ASSUME JournalTypes, NEW w \in Writers, NEW f \in Taken, Ingest(w, f)
  PROVE  \E s \in Seq(Plain(w)) : \E p \in Seq(Nat) :
           /\ todo' = [todo EXCEPT ![w] = s] /\ pending' = [pending EXCEPT ![w] = p]
           /\ FramesOf(w, s) \o p = pending[w] \o <<f.number>>
<1>0. pending[w] \in Seq(Nat) /\ f.number \in Nat /\ <<>> \in Seq(Nat) /\ <<f.number>> \in Seq(Nat)
  BY DEF JournalTypes, Taken
<1>1. CASE IngestEvent(w, f)
  <2> DEFINE e == Projected(w, f)
             d == Delta(w, pending[w])
  <2>1. e \in Plain(w) /\ e \in Line /\ e.by = w /\ e.frames = <<f.number>>
    <3>1. e \in Line /\ e.kind = "event" /\ e.by = w /\ e.frames = <<f.number>>
      BY <1>0 DEF Projected, Rec, Small, Large, Line, Kinds
    <3> QED
      BY <3>1 DEF Waiting, Plain
  <2>2. d \in Seq(Plain(w)) /\ d \in Seq(Line) /\ FramesOf(w, d) = pending[w]
    BY <1>0, Gathered, PlainWaits
  <2>3. todo' = [todo EXCEPT ![w] = Append(d, e)] /\ pending' = [pending EXCEPT ![w] = <<>>]
    BY <1>1 DEF IngestEvent
  <2> HIDE DEF e, d
  <2>4. Append(d, e) \in Seq(Plain(w)) /\ Append(d, e) = d \o <<e>> /\ <<e>> \in Seq(Line)
    BY <2>1, <2>2
  <2>5. FramesOf(w, Append(d, e)) = pending[w] \o <<f.number>>
    <3>1. FramesOf(w, d \o <<e>>) = FramesOf(w, d) \o FramesOf(w, <<e>>)
      BY <2>2, <2>4, FramesConcat
    <3>2. FramesOf(w, <<e>>) = <<f.number>>
      BY <2>1, FramesOne
    <3> QED
      BY <2>2, <2>4, <3>1, <3>2
  <2>6. (pending[w] \o <<f.number>>) \o <<>> = pending[w] \o <<f.number>>
    <3>1. pending[w] \o <<f.number>> \in Seq(Nat)
      BY <1>0
    <3> QED
      BY <3>1, ConcatEmptySeq
  <2> QED
    BY <1>0, <2>3, <2>4, <2>5, <2>6
<1>2. CASE IngestDelta(w, f)
  <2>1. PICK other \in BOOLEAN :
          LET kept == IF other THEN <<>> ELSE pending[w]
              text == Append(kept, f.number)
              before == IF other THEN Delta(w, pending[w]) ELSE <<>>
          IN IF Len(text) >= Coalesce
             THEN /\ todo' = [todo EXCEPT ![w] = before \o Delta(w, text)]
                  /\ pending' = [pending EXCEPT ![w] = <<>>]
             ELSE /\ todo' = [todo EXCEPT ![w] = before]
                  /\ pending' = [pending EXCEPT ![w] = text]
    BY <1>2 DEF IngestDelta
  <2> DEFINE kept == IF other THEN <<>> ELSE pending[w]
             text == Append(kept, f.number)
             before == IF other THEN Delta(w, pending[w]) ELSE <<>>
             d == Delta(w, text)
  <2>0. \/ /\ todo' = [todo EXCEPT ![w] = before \o d]
           /\ pending' = [pending EXCEPT ![w] = <<>>]
        \/ /\ todo' = [todo EXCEPT ![w] = before]
           /\ pending' = [pending EXCEPT ![w] = text]
    BY <2>1
  <2>2. kept \in Seq(Nat)
    BY <1>0
  <2>3. before \in Seq(Plain(w)) /\ FramesOf(w, before) \o kept = pending[w] /\ FramesOf(w, before) \in Seq(Nat)
    <3>1. /\ Delta(w, pending[w]) \in Seq(Plain(w)) /\ FramesOf(w, Delta(w, pending[w])) = pending[w]
          /\ <<>> \in Seq(Plain(w)) /\ FramesOf(w, <<>>) = <<>>
      <4>1. \A s : FramesOf(w, <<>>) = FramesOf(w, <<>>)
        OBVIOUS
      <4>2. Delta(w, <<>>) = <<>>
        BY DEF Delta
      <4>3. /\ Delta(w, pending[w]) \in Seq(Plain(w)) /\ FramesOf(w, Delta(w, pending[w])) = pending[w]
            /\ Delta(w, <<>>) \in Seq(Plain(w)) /\ FramesOf(w, Delta(w, <<>>)) = <<>>
        BY <1>0, Gathered
      <4> QED
        BY <4>2, <4>3
    <3>2. pending[w] \o <<>> = pending[w] /\ <<>> \o pending[w] = pending[w]
      BY <1>0, ConcatEmptySeq
    <3>3. CASE other
      BY <1>0, <3>1, <3>2, <3>3, Zenon
    <3>4. CASE ~ other
      BY <1>0, <3>1, <3>2, <3>4, Zenon
    <3> QED
      BY <3>3, <3>4
  <2>4. text \in Seq(Nat) /\ text = kept \o <<f.number>>
    <3> HIDE DEF kept
    <3> QED
      BY <1>0, <2>2
  <2> HIDE DEF kept, text
  <2>5. d \in Seq(Plain(w)) /\ FramesOf(w, d) = text
    BY <2>4, Gathered
  <2> HIDE DEF before, d
  <2>6. FramesOf(w, before) \o text = pending[w] \o <<f.number>>
    <3>1. (FramesOf(w, before) \o kept) \o <<f.number>> = FramesOf(w, before) \o (kept \o <<f.number>>)
      <4>1. \A x, y, z \in Seq(Nat) : (x \o y) \o z = x \o (y \o z)
        BY ConcatAssociative
      <4> QED
        BY <1>0, <2>2, <2>3, <4>1, Zenon
    <3> QED
      BY <2>3, <2>4, <3>1
  <2>7. before \o d \in Seq(Plain(w)) /\ FramesOf(w, before \o d) \o <<>> = pending[w] \o <<f.number>>
    <3>1. before \o d \in Seq(Plain(w))
      <4> HIDE DEF Plain
      <4> QED
        BY <2>3, <2>5
    <3>2. before \in Seq(Line) /\ d \in Seq(Line)
      BY <2>3, <2>5, PlainWaits
    <3>3. FramesOf(w, before \o d) = FramesOf(w, before) \o text
      BY <2>5, <3>2, FramesConcat
    <3>4. (pending[w] \o <<f.number>>) \o <<>> = pending[w] \o <<f.number>>
      <4>1. pending[w] \o <<f.number>> \in Seq(Nat)
        BY <1>0
      <4> QED
        BY <4>1, ConcatEmptySeq
    <3> QED
      BY <2>6, <3>1, <3>3, <3>4
  <2> QED
    BY <1>0, <2>0, <2>3, <2>4, <2>6, <2>7
<1> QED
  BY <1>1, <1>2 DEF Ingest

\* What does not touch the file, the lock or what was read.
Aside == UNCHANGED <<file, lock, out, view>>

Intakes(w) ==
  \/ FrameArrives(w) \/ FrameIgnored(w) \/ FrameBuffered(w) \/ BufferOverflows(w)
  \/ SetSession(w) \/ Replay(w) \/ Flush(w) \/ Skip(w) \/ Finalize(w) \/ Close(w)
  \/ OpenFails(w) \/ SyncFails(w)

LEMMA IntakeKeeps ==
  ASSUME JournalTypes, NEW w \in Writers, Intakes(w)
  PROVE  Aside /\ JournalTypes'
<1> USE DEF disk, work, intake, watcher
<1>0. Aside
  BY DEF Aside, Intakes, FrameArrives, FrameIgnored, FrameBuffered, BufferOverflows, SetSession,
         Replay, Flush, Skip, Finalize, Close, OpenFails, SyncFails
<1>1. /\ given \in [Writers -> Nat] /\ buffer \in [Writers -> Seq(Taken)]
      /\ pending \in [Writers -> Seq(Nat)] /\ todo \in [Writers -> Seq(Waiting)]
      /\ given[w] \in Nat /\ buffer[w] \in Seq(Taken) /\ pending[w] \in Seq(Nat) /\ todo[w] \in Seq(Waiting)
  BY DEF JournalTypes
<1>2. \A kind \in {"small", "large", "delta"} : NextFrame(w, kind) \in Taken
  BY <1>1 DEF NextFrame, Taken
<1>3. ASSUME Give(w) PROVE given' \in [Writers -> Nat]
  <2>1. given' = [given EXCEPT ![w] = given[w] + 1] /\ given[w] + 1 \in Nat
    BY <1>1, <1>3 DEF Give
  <2> QED
    BY <1>1, <2>1
<1>4. given' \in [Writers -> Nat]
  BY <1>1, <1>3 DEF Intakes, FrameArrives, FrameIgnored, FrameBuffered, BufferOverflows, SetSession,
         Replay, Flush, Skip, Finalize, Close, OpenFails, SyncFails
<1>5. buffer' \in [Writers -> Seq(Taken)]
  <2>1. CASE FrameBuffered(w)
    <3>1. PICK kind \in {"small", "delta"} : buffer' = [buffer EXCEPT ![w] = Append(@, NextFrame(w, kind))]
      BY <2>1 DEF FrameBuffered
    <3>2. Append(buffer[w], NextFrame(w, kind)) \in Seq(Taken)
      BY <1>1, <1>2
    <3> QED
      BY <1>1, <3>1, <3>2
  <2>2. CASE Replay(w)
    <3>1. buffer' = [buffer EXCEPT ![w] = Tail(@)] /\ buffer[w] # <<>>
      BY <2>2 DEF Replay
    <3>2. Tail(buffer[w]) \in Seq(Taken)
      BY <1>1, <3>1
    <3> QED
      BY <1>1, <3>1, <3>2
  <2> QED
    BY <1>1, <2>1, <2>2 DEF Intakes, FrameArrives, FrameIgnored, BufferOverflows, SetSession,
         Flush, Skip, Finalize, Close, OpenFails, SyncFails
<1>6. pending' \in [Writers -> Seq(Nat)] /\ todo' \in [Writers -> Seq(Waiting)]
  <2>0. <<>> \in Seq(Nat) /\ <<>> \in Seq(Waiting)
    OBVIOUS
  <2>5. ASSUME NEW f \in Taken, Ingest(w, f)
        PROVE  pending' \in [Writers -> Seq(Nat)] /\ todo' \in [Writers -> Seq(Waiting)]
    <3>1. PICK s \in Seq(Plain(w)), p \in Seq(Nat) :
            todo' = [todo EXCEPT ![w] = s] /\ pending' = [pending EXCEPT ![w] = p]
      BY <2>5, TakingIn
    <3> QED
      BY <1>1, <3>1, PlainWaits
  <2>1. CASE FrameArrives(w)
    BY <1>2, <2>1, <2>5 DEF FrameArrives
  <2>2. CASE Replay(w)
    <3>1. Head(buffer[w]) \in Taken
      BY <1>1, <2>2 DEF Replay
    <3> QED
      BY <1>1, <2>2, <2>5, <3>1 DEF Replay
  <2>3. CASE Flush(w)
    <3>1. Delta(w, pending[w]) \in Seq(Waiting)
      BY <1>1, Gathered, PlainWaits
    <3> QED
      BY <1>1, <2>0, <2>3, <3>1 DEF Flush
  <2>4. CASE Finalize(w)
    <3>1. Rec(w, "terminal", <<>>, MarkSize) \in Waiting
      <4>1. Rec(w, "terminal", <<>>, MarkSize) \in Line
        BY DEF Rec, MarkSize, Line, Kinds
      <4> QED
        BY <4>1 DEF Waiting, Rec
    <3>2. PICK s \in Seq(Waiting) : s = Append(Delta(w, pending[w]), Rec(w, "terminal", <<>>, MarkSize))
      <4>1. Delta(w, pending[w]) \in Seq(Waiting)
        BY <1>1, Gathered, PlainWaits
      <4>2. Append(Delta(w, pending[w]), Rec(w, "terminal", <<>>, MarkSize)) \in Seq(Waiting)
        BY <3>1, <4>1
      <4> QED
        BY <4>2
    <3> QED
      BY <1>1, <2>0, <2>4, <3>2 DEF Finalize
  <2> QED
    BY <1>1, <2>0, <2>1, <2>2, <2>3, <2>4
    DEF Intakes, FrameIgnored, FrameBuffered, BufferOverflows, SetSession, Skip, Close, OpenFails, SyncFails
<1> QED
  BY <1>0, <1>4, <1>5, <1>6 DEF JournalTypes, Aside

-----------------------------------------------------------------------------
(* What is done under the lock                                              *)

\* A writer that has read the whole file may begin to write.
LEMMA ReadingKeeps ==
  ASSUME JournalInv, NEW w \in Writers, NEW u, Checkpoint(u), u.read = Len(file),
         lock = Nobody, file' = file, view' = [view EXCEPT ![w] = u],
         todo' \in [Writers -> Seq(Waiting)], UNCHANGED <<given, buffer, pending>>,
         \/ UNCHANGED <<out, lock>>
         \/ \E r \in Line : /\ out' = [out EXCEPT ![w] = r] /\ lock' = w
                            /\ r # Nothing /\ (r.kind # "terminal" => ~ u.truncated)
  PROVE  JournalInv'
<1>0. JournalTypes /\ LockedWrites /\ (\A v \in Writers : Checkpoint(view[v]) /\ out[v] = Nothing)
  BY JournalAssumption DEF JournalInv, LockedWrites
<1>1. JournalTypes'
  BY <1>0 DEF JournalTypes
<1>2. LockedWrites'
  BY <1>0 DEF LockedWrites, JournalTypes
<1>3. \A v \in Writers : view'[v] = view[v] \/ view'[v] = u
  BY <1>0 DEF JournalTypes
<1>4. ASSUME NEW v \in Writers PROVE Checkpoint(view[v])'
  BY <1>0, <1>3 DEF Checkpoint, IsMark
<1>5. ReadFirst'
  <2> SUFFICES ASSUME NEW v \in Writers, out'[v] # Nothing
               PROVE  view'[v].read = Len(file) /\ (out'[v].kind # "terminal" => ~ view'[v].truncated)
    BY DEF ReadFirst
  <2>1. PICK r \in Line : out' = [out EXCEPT ![w] = r] /\ (r.kind # "terminal" => ~ u.truncated)
    BY <1>0
  <2>2. v = w /\ out'[v] = r /\ view'[v] = u
    BY <1>0, <2>1 DEF JournalTypes
  <2> QED
    BY <2>1, <2>2
<1> QED
  BY <1>1, <1>2, <1>4, <1>5 DEF JournalInv, SeqIsGapless, NothingBehindTheMarker

LEMMA BeginKeeps ==
  ASSUME JournalInv, NEW w \in Writers, Begin(w)
  PROVE  JournalInv'
<1>0. JournalTypes /\ Checkpoint(view[w])
  BY DEF JournalInv
<1>1. /\ lock = Nobody /\ todo[w] # <<>> /\ todo' = [todo EXCEPT ![w] = Tail(@)]
      /\ Decide(w, Head(todo[w])) /\ file' = file /\ UNCHANGED <<given, buffer, pending>>
  BY <1>0, NotShrunk DEF Begin, Recover, Cut, intake, JournalInv
<1>2. todo[w] \in Seq(Waiting) /\ Tail(todo[w]) \in Seq(Waiting)
  BY <1>0, <1>1 DEF JournalTypes
<1>3. todo' \in [Writers -> Seq(Waiting)]
  BY <1>0, <1>1, <1>2 DEF JournalTypes
<1>4. PICK r \in Waiting : r = Head(todo[w])
  BY <1>1, <1>2
<1>5. PICK v : v = Recovered(Base(view[w]))
  OBVIOUS
<1>6. Checkpoint(v) /\ v.read = Len(file)
  BY <1>0, <1>5, Reread, Recovering
<1>7. PICK u : u = [v EXCEPT !.truncated = TRUE]
  OBVIOUS
<1>8. Checkpoint(u) /\ u.read = Len(file)
  <2>1. u.read = v.read /\ u.seq = v.seq /\ u.marked = v.marked /\ u.truncated = TRUE
    BY <1>5, <1>7 DEF Recovered
  <2> QED
    BY <1>6, <2>1 DEF Checkpoint
<1>9. /\ r \in Line /\ r # Nothing
      /\ Mark(w) \in Line /\ Mark(w) # Nothing /\ Mark(w).kind # "terminal"
  <2>1. Mark(w) \in Line /\ Mark(w).kind = "journal.truncated"
    BY DEF Mark, Rec, MarkSize, Line, Kinds
  <2>2. \A l \in Line : l # Nothing
    <3>1. \A l \in Line : l.kind # "nothing"
      BY DEF Line, Kinds
    <3>2. Nothing.kind = "nothing"
      BY DEF Nothing
    <3> QED
      BY <3>1, <3>2
  <2> QED
    BY <2>1, <2>2 DEF Waiting
<1>10. \/ UNCHANGED <<view, out, lock>>
       \/ view' = [view EXCEPT ![w] = v] /\ UNCHANGED <<out, lock>>
       \/ /\ view' = [view EXCEPT ![w] = v] /\ out' = [out EXCEPT ![w] = r] /\ lock' = w
          /\ r.kind # "terminal" => ~ v.truncated
       \/ /\ view' = [view EXCEPT ![w] = v] /\ out' = [out EXCEPT ![w] = Mark(w)] /\ lock' = w
          /\ ~ v.truncated
       \/ view' = [view EXCEPT ![w] = u] /\ UNCHANGED <<out, lock>>
  <2>1. Decide(w, r)
    BY <1>1, <1>4
  <2> QED
    BY <1>5, <1>7, <2>1 DEF Decide
<1>11. CASE UNCHANGED <<view, out, lock>>
  <2>1. JournalTypes'
    BY <1>0, <1>1, <1>3, <1>11 DEF JournalTypes
  <2> QED
    BY <1>1, <1>11, <2>1 DEF JournalInv, LockedWrites, Checkpoint, IsMark, ReadFirst,
                              SeqIsGapless, NothingBehindTheMarker
<1>12. CASE view' = [view EXCEPT ![w] = v] /\ UNCHANGED <<out, lock>>
  BY <1>1, <1>3, <1>6, <1>12, ReadingKeeps
<1>13. CASE view' = [view EXCEPT ![w] = u] /\ UNCHANGED <<out, lock>>
  BY <1>1, <1>3, <1>8, <1>13, ReadingKeeps
<1>14. ASSUME NEW x \in Line, x # Nothing, x.kind # "terminal" => ~ v.truncated,
              view' = [view EXCEPT ![w] = v], out' = [out EXCEPT ![w] = x], lock' = w
       PROVE  JournalInv'
  BY <1>1, <1>3, <1>6, <1>14, ReadingKeeps
<1> QED
  BY <1>9, <1>10, <1>11, <1>12, <1>13, <1>14

LEMMA OpenKeeps ==
  ASSUME JournalInv, NEW w \in Writers, Open(w)
  PROVE  JournalInv'
<1>1. /\ lock = Nobody /\ file' = file /\ UNCHANGED <<lock, given, buffer, pending, todo, out>>
      /\ view' = [view EXCEPT ![w] = [Recovered(Blank) EXCEPT !.stat.stamp = CutStamp + 1]]
  BY DEF Open, intake
<1>2. JournalTypes
  BY DEF JournalInv
<1>3. PICK u : u = [Recovered(Blank) EXCEPT !.stat.stamp = CutStamp + 1]
  OBVIOUS
<1>4. Checkpoint(Blank)
  BY <1>2 DEF Blank, Checkpoint, JournalTypes, Lines
<1>5. PICK v : v = Recovered(Blank)
  OBVIOUS
<1>6. Checkpoint(v) /\ v.read = Len(file)
  BY <1>2, <1>4, <1>5, Recovering
<1>7. u.read = v.read /\ u.seq = v.seq /\ u.marked = v.marked /\ u.truncated = v.truncated
  BY <1>3, <1>5 DEF Recovered
<1>8. Checkpoint(u) /\ u.read = Len(file)
  BY <1>6, <1>7 DEF Checkpoint
<1>9. todo' \in [Writers -> Seq(Waiting)]
  BY <1>1, <1>2 DEF JournalTypes
<1> QED
  BY <1>1, <1>3, <1>8, <1>9, ReadingKeeps

LEMMA WriteKeeps ==
  ASSUME JournalInv, NEW w \in Writers, Write(w)
  PROVE  JournalInv'
<1>0. /\ JournalTypes /\ LockedWrites /\ ReadFirst /\ SeqIsGapless /\ NothingBehindTheMarker
      /\ \A v \in Writers : Checkpoint(view[v])
  BY DEF JournalInv
<1>1. PICK n \in Nat : n = Len(file)
  BY <1>0 DEF JournalTypes, Lines
<1>2. PICK r \in Line : r = out[w] /\ out[w] # Nothing
  BY <1>0 DEF JournalTypes, Write
<1>3. /\ view[w].read = n /\ view[w].seq = n /\ (r.kind # "terminal" => ~ view[w].truncated)
      /\ view[w].marked <=> \E i \in 1 .. n : IsMark(i)
      /\ view[w].marked => view[w].truncated
  BY <1>0, <1>1, <1>2 DEF ReadFirst, Checkpoint
<1>4. /\ lock = w /\ lock' = Nobody /\ out' = [out EXCEPT ![w] = Nothing]
      /\ UNCHANGED <<given, buffer, pending, todo>>
  BY <1>0, <1>2 DEF Write, intake, LockedWrites
<1>5. PICK e \in [seq : Nat, record : Line] : e.seq = n + 1 /\ e.record = r /\ e = [seq |-> n + 1, record |-> r]
  <2> DEFINE new == [seq |-> n + 1, record |-> r]
  <2>1. new.seq = n + 1 /\ new.record = r
    OBVIOUS
  <2>2. new \in [seq : Nat, record : Line]
    <3>1. n + 1 \in Nat
      BY <1>1
    <3> QED
      BY <1>2, <3>1
  <2> QED
    BY <2>1, <2>2
<1>6. file' = Append(file, e)
  BY <1>2, <1>3, <1>5 DEF Write
<1>7. /\ file' \in Lines /\ Len(file') = n + 1 /\ file'[n + 1] = e
      /\ \A i \in 1 .. n : file'[i] = file[i]
      /\ DOMAIN file = 1 .. n /\ DOMAIN file' = 1 .. (n + 1)
  BY <1>0, <1>1, <1>6, Appended
<1>8. /\ view'[w].seq = n + 1 /\ view'[w].read = n + 1
      /\ view'[w].marked = (view[w].marked \/ r.kind = "journal.truncated")
      /\ view'[w].truncated = (view[w].truncated \/ r.kind = "journal.truncated")
      /\ DOMAIN view' = Writers /\ \A v \in Writers \ {w} : view'[v] = view[v]
  BY <1>0, <1>2, <1>3 DEF Write, JournalTypes
<1>9. JournalTypes'
  BY <1>0, <1>4, <1>7, <1>8 DEF JournalTypes
<1>10. LockedWrites' /\ ReadFirst'
  <2>1. \A v \in Writers : out'[v] = Nothing
    BY <1>0, <1>4 DEF LockedWrites, JournalTypes
  <2> QED
    BY <1>4, <2>1, JournalAssumption DEF LockedWrites, ReadFirst
<1>11. \A i \in 1 .. n : (file'[i].record.kind = "journal.truncated" <=> IsMark(i))
  BY <1>7 DEF IsMark
<1>12. ASSUME NEW v \in Writers PROVE Checkpoint(view[v])'
  <2>1. CASE v = w
    <3>1. ASSUME NEW i \in 1 .. (n + 1), file'[i].record.kind = "journal.truncated" PROVE view'[w].marked
      <4>1. CASE i \in 1 .. n
        <5>1. view[w].marked
          BY <1>3, <1>11, <3>1, <4>1
        <5> QED
          BY <1>8, <5>1, Zenon
      <4>2. CASE i = n + 1
        <5>1. r.kind = "journal.truncated"
          BY <1>5, <1>7, <3>1, <4>2
        <5> QED
          BY <1>8, <5>1, Zenon
      <4> QED
        BY <1>1, <4>1, <4>2
    <3>2. view'[w].marked => view'[w].truncated
      BY <1>3, <1>8, Zenon
    <3>3. ASSUME view'[w].marked PROVE \E i \in 1 .. (n + 1) : file'[i].record.kind = "journal.truncated"
      <4>1. CASE view[w].marked
        <5>1. PICK i \in 1 .. n : IsMark(i)
          BY <1>3, <4>1
        <5>2. i \in 1 .. (n + 1)
          OBVIOUS
        <5> QED
          BY <1>11, <5>1, <5>2
      <4>2. CASE r.kind = "journal.truncated"
        BY <1>5, <1>7, <4>2
      <4> QED
        BY <1>8, <3>3, <4>1, <4>2, Zenon
    <3> QED
      BY <1>7, <1>8, <2>1, <3>1, <3>2, <3>3 DEF Checkpoint, IsMark
  <2>2. CASE v # w
    <3>1. /\ view'[v] = view[v] /\ view[v].read \in 0 .. n /\ view[v].seq = view[v].read
          /\ view[v].marked <=> \E i \in 1 .. view[v].read : IsMark(i)
          /\ view[v].marked => view[v].truncated
      BY <1>0, <1>1, <1>8, <2>2 DEF Checkpoint
    <3>2. \A i \in 1 .. view[v].read : i \in 1 .. n
      BY <3>1
    <3> QED
      BY <1>7, <1>11, <3>1, <3>2 DEF Checkpoint, IsMark
  <2> QED
    BY <2>1, <2>2
<1>13. (SeqIsGapless)'
  <2> SUFFICES ASSUME NEW i \in 1 .. (n + 1) PROVE file'[i].seq = i
    BY <1>7 DEF SeqIsGapless
  <2>1. CASE i \in 1 .. n
    BY <1>0, <1>7, <2>1 DEF SeqIsGapless
  <2>2. CASE i = n + 1
    BY <1>5, <1>7, <2>2
  <2> QED
    BY <1>1, <2>1, <2>2
<1>14. (NothingBehindTheMarker)'
  <2> SUFFICES ASSUME NEW i \in 1 .. (n + 1), NEW j \in 1 .. (n + 1),
                      file'[i].record.kind = "journal.truncated", i < j
               PROVE  file'[j].record.kind = "terminal"
    BY <1>7 DEF NothingBehindTheMarker
  <2>1. i \in 1 .. n /\ IsMark(i)
    BY <1>11
  <2>2. CASE j \in 1 .. n
    BY <1>0, <1>7, <2>1, <2>2 DEF NothingBehindTheMarker, IsMark
  <2>3. CASE j = n + 1
    BY <1>3, <1>5, <1>7, <2>1, <2>3
  <2> QED
    BY <2>2, <2>3
<1> QED
  BY <1>9, <1>10, <1>12, <1>13, <1>14 DEF JournalInv

\* A writer that fails or dies lets the lock go, and leaves the records.
LEMMA LettingGo ==
  ASSUME JournalInv, NEW w \in Writers, WriteFails(w) \/ Die(w)
  PROVE  JournalInv'
<1>0. JournalTypes /\ LockedWrites /\ ReadFirst
  BY DEF JournalInv
<1>1. UNCHANGED <<file, view, given, buffer, pending>> /\ out' = [out EXCEPT ![w] = Nothing]
  BY DEF WriteFails, Die, intake
<1>2. lock' = IF lock = w THEN Nobody ELSE lock
  <2>1. WriteFails(w) => lock = w /\ lock' = Nobody
    BY <1>0 DEF WriteFails, LockedWrites
  <2>2. Die(w) => lock' = IF lock = w THEN Nobody ELSE lock
    BY DEF Die
  <2> QED
    BY <2>1, <2>2
<1>3. todo' \in [Writers -> Seq(Waiting)]
  <2>1. todo \in [Writers -> Seq(Waiting)] /\ <<>> \in Seq(Waiting)
    BY <1>0 DEF JournalTypes
  <2>2. todo' = todo \/ todo' = [todo EXCEPT ![w] = <<>>]
    BY DEF WriteFails, Die
  <2> QED
    BY <2>1, <2>2
<1>4. JournalTypes'
  BY <1>0, <1>1, <1>2, <1>3 DEF JournalTypes
<1>5. \A v \in Writers : out'[v] = Nothing \/ (v # w /\ out'[v] = out[v])
  BY <1>0, <1>1 DEF JournalTypes
<1>6. LockedWrites' /\ ReadFirst'
  BY <1>0, <1>1, <1>2, <1>5, JournalAssumption DEF LockedWrites, ReadFirst, JournalTypes
<1> QED
  BY <1>1, <1>4, <1>6 DEF JournalInv, Checkpoint, IsMark, SeqIsGapless, NothingBehindTheMarker

LEMMA AsideKeeps == ASSUME JournalInv, Aside, JournalTypes' PROVE JournalInv'
  BY DEF Aside, JournalInv, LockedWrites, Checkpoint, IsMark, ReadFirst, SeqIsGapless, NothingBehindTheMarker

LEMMA JournalStep ==
  ASSUME JournalInv, [Next]_vars
  PROVE  JournalInv'
<1>0. JournalTypes
  BY DEF JournalInv
<1> USE DEF disk, intake, work, watcher
<1>1. ASSUME NEW w \in Writers, Step(w) \/ Failure(w) PROVE JournalInv'
  <2>1. CASE Intakes(w)
    BY <1>0, <2>1, IntakeKeeps, AsideKeeps
  <2> QED
    BY <1>1, <2>1, OpenKeeps, BeginKeeps, WriteKeeps, LettingGo DEF Step, Failure, Intakes
<1>2. CASE Repair \/ ReadEvents \/ ReadFails \/ ReadStatus \/ UNCHANGED vars
  <2>1. Aside /\ UNCHANGED <<given, buffer, pending, todo>>
    BY <1>2 DEF Repair, ReadEvents, ReadFails, ReadStatus, vars, Aside
  <2>2. JournalTypes'
    BY <1>0, <2>1 DEF JournalTypes, Aside
  <2> QED
    BY <2>1, <2>2, AsideKeeps
<1> QED
  BY <1>1, <1>2 DEF Next

\* The inductive invariant of the journal holds in every reachable state.
THEOREM JournalInvariance == Spec => []JournalInv
<1> QED
  BY JournalInitially, JournalStep, PTL DEF Spec

\* Records are numbered from one without a gap, whoever wrote them, failed, died or
\* cut off a torn tail.
THEOREM EventsAreGapless == Spec => []SeqIsGapless
<1>1. JournalInv => SeqIsGapless
  BY DEF JournalInv
<1> QED
  BY <1>1, JournalInvariance, PTL

\* One marker at most, and only terminal records behind it.
THEOREM TruncationIsTheEnd == Spec => []NothingBehindTheMarker
<1>1. JournalInv => NothingBehindTheMarker
  BY DEF JournalInv
<1> QED
  BY <1>1, JournalInvariance, PTL

-----------------------------------------------------------------------------
(* The reserve                                                              *)

Lives ==
  /\ mode \in [Writers -> {"new", "open", "closing", "closed", "dead"}]
  /\ degraded \in [Writers -> Degradation]
  /\ faults \in Nat

\* Whose terminal record is written.
Ended ==
  {w \in Writers : \E i \in 1 .. Len(file) : file[i].record.kind = "terminal" /\ file[i].record.by = w}

LastOf(w) == Rec(w, "terminal", <<>>, MarkSize)

\* A writer has one terminal record, and nothing to append behind it.
Ending(w) == mode[w] = "closing" /\ w \notin Ended
Prospect(w) ==
  /\ \/ todo[w] \in Seq(Plain(w)) /\ (out[w].kind = "terminal" => Ending(w) /\ todo[w] = <<>>)
     \/ \E s \in Seq(Plain(w)) : todo[w] = Append(s, LastOf(w)) /\ Ending(w) /\ out[w].kind # "terminal"
  /\ out[w] # Nothing => out[w].by = w
  /\ out[w].kind = "terminal" => out[w].size = MarkSize
  /\ w \in Ended => mode[w] \notin {"new", "open"} /\ todo[w] = <<>> /\ out[w] = Nothing

\* Terminal records take what is reserved for them, and nothing else does.
Room ==
  /\ Bytes(file) <= MaxBytes - Reserve + MarkSize * Cardinality(Ended)
  /\ \A w \in Writers : out[w] # Nothing /\ out[w].kind # "terminal" =>
       Bytes(file) + out[w].size <= MaxBytes - Reserve

BudgetInv ==
  /\ Lives /\ (\A w \in Writers : Prospect(w)) /\ Room /\ PeersNeverDisable

\* The writers that ended are finitely many.
LEMMA EndedSet ==
  IsFiniteSet(Ended) /\ Cardinality(Ended) \in Nat /\ Cardinality(Ended) <= Cardinality(Writers)
  /\ Cardinality(Writers) \in Nat
BY FS_Subset, FS_CardinalityType, ReserveAssumption DEF Ended

\* There is room for one more terminal record.
LEMMA RoomToEnd ==
  ASSUME JournalInv, Room, NEW w \in Writers, w \notin Ended
  PROVE  Bytes(file) + MarkSize <= MaxBytes
<1>1. Cardinality(Ended \cup {w}) = Cardinality(Ended) + 1
  BY EndedSet, FS_AddElement
<1>2. Cardinality(Ended \cup {w}) <= Cardinality(Writers)
  <2>1. Ended \cup {w} \subseteq Writers
    BY DEF Ended
  <2> QED
    BY <2>1, FS_Subset, ReserveAssumption
<1>3. Bytes(file) \in Nat
  BY BytesGrow DEF JournalInv, JournalTypes
<1>4. PICK c \in Nat : c = Cardinality(Ended)
  BY EndedSet
<1>5. PICK d \in Nat : d = Cardinality(Writers)
  BY EndedSet
<1>6. c + 1 <= d /\ d * 2 <= Reserve /\ Bytes(file) <= MaxBytes - Reserve + 2 * c
  BY <1>1, <1>2, <1>4, <1>5, ReserveAssumption DEF Room, MarkSize
<1> QED
  BY <1>3, <1>6, JournalAssumption DEF MarkSize

\* A record ends its writer when it is a terminal one.
LEMMA EndedGrows ==
  ASSUME JournalTypes, NEW e \in [seq : Nat, record : Line], file' = Append(file, e)
  PROVE  Ended' = IF e.record.kind = "terminal" THEN Ended \cup {e.record.by} ELSE Ended
<1>1. PICK n \in Nat : n = Len(file) /\ Len(file') = n + 1 /\ file'[n + 1] = e
  BY Appended
<1>2. \A i \in 1 .. n : file'[i] = file[i]
  BY <1>1, Appended
<1>3. e.record.by \in Writers
  BY DEF Line
<1>4. ASSUME NEW w \in Writers
      PROVE  w \in Ended' <=> w \in Ended \/ (e.record.kind = "terminal" /\ e.record.by = w)
  <2>1. \A i \in 1 .. (n + 1) : i \in 1 .. n \/ i = n + 1
    BY <1>1
  <2>2. n + 1 \in 1 .. (n + 1) /\ \A i \in 1 .. n : i \in 1 .. (n + 1)
    BY <1>1
  <2> QED
    BY <1>1, <1>2, <2>1, <2>2 DEF Ended
<1>5. Ended \subseteq Writers /\ Ended' \subseteq Writers
  BY DEF Ended
<1> HIDE DEF Ended
<1> QED
  BY <1>3, <1>4, <1>5

\* As long as the file stands, nobody ends.
LEMMA EndedStands == ASSUME file' = file PROVE Ended' = Ended
  BY DEF Ended

\* A step of another writer that ends no run leaves a writer its prospect.
LEMMA Untouched ==
  ASSUME NEW v \in Writers, Prospect(v), UNCHANGED <<todo[v], out[v], mode[v]>>,
         v \in Ended' <=> v \in Ended
  PROVE  Prospect(v)'
  BY DEF Prospect, Ending

\* What failing does to a writer.
LEMMA Degrading ==
  ASSUME degraded \in [Writers -> Degradation], NEW w \in Writers,
         NEW why \in Failures \cup {"journal_shrunk", "corrupt_complete_record", "terminal_reserve_exhausted"},
         Degrade(w, why)
  PROVE  /\ degraded' \in [Writers -> Degradation]
         /\ degraded'[w].noted /\ degraded'[w].disabled /\ degraded'[w].reason = why
         /\ \A v \in Writers \ {w} : degraded'[v] = degraded[v]
<1>1. PICK d \in Degradation : d = [noted |-> TRUE, disabled |-> TRUE, reason |-> why]
  BY DEF Degradation
<1>2. degraded' = [degraded EXCEPT ![w] = d]
  BY <1>1 DEF Degrade
<1> QED
  BY <1>1, <1>2

\* What running out of buffer does to it.
LEMMA Overflowing ==
  ASSUME degraded \in [Writers -> Degradation], NEW w \in Writers, BufferOverflows(w)
  PROVE  /\ degraded' \in [Writers -> Degradation]
         /\ degraded'[w].noted /\ ~ degraded[w].disabled /\ ~ degraded'[w].disabled
         /\ \A v \in Writers \ {w} : degraded'[v] = degraded[v]
<1>1. PICK d \in Degradation : d = [degraded[w] EXCEPT !.noted = TRUE, !.reason = "pre_session_overflow"]
  BY DEF Degradation
<1>2. degraded' = [degraded EXCEPT ![w] = d]
  BY <1>1 DEF BufferOverflows
<1>3. d.noted /\ d.disabled = degraded[w].disabled
  BY <1>1 DEF Degradation
<1> QED
  BY <1>1, <1>2, <1>3 DEF BufferOverflows, Disabled

\* What a writer that takes frames in, ends, closes or fails there does to its life.
LEMMA IntakeLives ==
  ASSUME Lives, NEW w \in Writers, Intakes(w)
  PROVE  /\ Lives'
         /\ \A v \in Writers \ {w} : UNCHANGED <<mode[v], degraded[v]>>
         /\ PeersNeverDisable => (PeersNeverDisable)'
<1> USE DEF disk, work, intake, watcher
<1>1. CASE BufferOverflows(w)
  <2>1. UNCHANGED <<mode, faults>>
    BY <1>1 DEF BufferOverflows
  <2> QED
    BY <1>1, <2>1, Overflowing DEF Lives, PeersNeverDisable, Disabled
<1>2. CASE OpenFails(w) \/ SyncFails(w)
  <2>1. /\ Degrade(w, "open") \/ Degrade(w, "fsync")
        /\ mode' = mode \/ mode' = [mode EXCEPT ![w] = "open"]
        /\ faults' = faults + 1
    BY <1>2 DEF OpenFails, SyncFails, Fault
  <2>2. /\ degraded' \in [Writers -> Degradation] /\ degraded'[w].reason \in Failures
        /\ \A v \in Writers \ {w} : degraded'[v] = degraded[v]
    BY <2>1, Degrading DEF Lives, Failures
  <2>3. \A v \in Writers \ {w} : mode'[v] = mode[v]
    BY <2>1 DEF Lives
  <2>4. mode' \in [Writers -> {"new", "open", "closing", "closed", "dead"}]
    BY <2>1 DEF Lives
  <2>5. faults' \in Nat
    BY <2>1 DEF Lives
  <2> QED
    BY <2>2, <2>3, <2>4, <2>5 DEF Lives, PeersNeverDisable, Disabled
<1>3. CASE ~ (OpenFails(w) \/ SyncFails(w) \/ BufferOverflows(w))
  <2>1. /\ UNCHANGED <<degraded, faults>>
        /\ \/ mode' = mode
           \/ mode' = [mode EXCEPT ![w] = "closing"]
           \/ mode' = [mode EXCEPT ![w] = "closed"]
    BY <1>3 DEF Intakes, FrameArrives, FrameIgnored, FrameBuffered, SetSession, Replay, Flush, Skip,
                Finalize, Close
  <2> QED
    BY <2>1 DEF Lives, PeersNeverDisable, Disabled
<1> QED
  BY <1>1, <1>2, <1>3

\* What is taken in is put before the end, and the end once.
LEMMA IntakeProspect ==
  ASSUME JournalTypes, Lives, NEW w \in Writers, Intakes(w), \A v \in Writers : Prospect(v)
  PROVE  \A v \in Writers : Prospect(v)'
<1> USE DEF disk, work, intake, watcher
<1>0. Aside /\ Ended' = Ended /\ Prospect(w) /\ UNCHANGED out /\ pending[w] \in Seq(Nat)
  BY IntakeKeeps, EndedStands DEF Aside, JournalTypes
<1>1. ASSUME NEW v \in Writers, v # w PROVE Prospect(v)'
  <2>1. todo'[v] = todo[v]
    <3>1. todo' = todo \/ \E s : todo' = [todo EXCEPT ![w] = s]
      BY DEF Intakes, FrameArrives, FrameIgnored, FrameBuffered, BufferOverflows, SetSession, Replay, Flush,
             Skip, Finalize, Close, OpenFails, SyncFails, Ingest, IngestEvent, IngestDelta
    <3> QED
      BY <1>1, <3>1 DEF JournalTypes
  <2> QED
    BY <1>0, <1>1, <2>1, IntakeLives, Untouched
<1>14. SUFFICES Prospect(w)'
  BY <1>1
<1>2. ASSUME UNCHANGED <<todo, mode>> PROVE Prospect(w)'
  BY <1>0, <1>2, Untouched
<1>3. ASSUME NEW s \in Seq(Plain(w)), todo' = [todo EXCEPT ![w] = s], mode' = mode, out[w] = Nothing,
             mode[w] = "open" \/ s = <<>>
      PROVE  Prospect(w)'
  <2>1. Nothing.kind = "nothing"
    BY DEF Nothing
  <2> QED
    BY <1>0, <1>3, <2>1 DEF Prospect, Ending, JournalTypes
<1>4. CASE \E f \in Taken : Ingest(w, f) /\ mode' = mode /\ out[w] = Nothing /\ mode[w] = "open"
  BY <1>3, <1>4, TakingIn
<1>5. CASE FrameArrives(w)
  <2>1. PICK kind \in {"small", "large", "delta"} : Ingest(w, NextFrame(w, kind))
    BY <1>5 DEF FrameArrives
  <2>2. NextFrame(w, kind) \in Taken
    BY DEF NextFrame, Taken, JournalTypes
  <2> QED
    BY <1>4, <1>5, <2>1, <2>2 DEF FrameArrives, Give, Idle
<1>6. CASE Replay(w)
  <2>1. Head(buffer[w]) \in Taken
    BY <1>6 DEF Replay, JournalTypes
  <2> QED
    BY <1>2, <1>4, <1>6, <2>1 DEF Replay, Idle
<1>7. CASE Flush(w)
  BY <1>0, <1>3, <1>7, Gathered DEF Flush, Idle
<1>8. CASE Skip(w)
  <2>1. <<>> \in Seq(Plain(w))
    OBVIOUS
  <2> QED
    BY <1>3, <1>8, <2>1 DEF Skip
<1>9. CASE Finalize(w)
  <2>1. PICK s \in Seq(Plain(w)) : s = Delta(w, pending[w])
    BY <1>0, Gathered
  <2>2. /\ todo'[w] = Append(s, LastOf(w)) /\ mode'[w] = "closing" /\ mode[w] = "open"
        /\ out[w] = Nothing
    BY <1>9, <2>1 DEF Finalize, Idle, LastOf, Lives, JournalTypes
  <2>3. w \notin Ended /\ Nothing.kind = "nothing"
    BY <1>0, <2>2 DEF Prospect, Nothing
  <2> QED
    BY <1>0, <2>2, <2>3 DEF Prospect, Ending
<1>10. CASE Close(w)
  <2>1. /\ todo'[w] = <<>> /\ mode'[w] = "closed" /\ out[w] = Nothing
    BY <1>10 DEF Close, Lives
  <2>2. <<>> \in Seq(Plain(w)) /\ Nothing.kind = "nothing"
    BY DEF Nothing
  <2> QED
    BY <1>0, <2>1, <2>2 DEF Prospect
<1>11. CASE OpenFails(w)
  <2>1. mode[w] = "new" /\ mode'[w] = "open" /\ todo' = todo
    BY <1>11 DEF OpenFails, Lives
  <2> QED
    BY <1>0, <2>1 DEF Prospect, Ending
<1>12. CASE FrameIgnored(w) \/ FrameBuffered(w) \/ BufferOverflows(w) \/ SetSession(w) \/ SyncFails(w)
  BY <1>2, <1>12 DEF FrameIgnored, FrameBuffered, BufferOverflows, SetSession, SyncFails
<1> QED
  BY <1>5, <1>6, <1>7, <1>8, <1>9, <1>10, <1>11, <1>12 DEF Intakes

\* What is read for the first time continues the numbers of the checkpoint.
LEMMA NeverSpoiled ==
  ASSUME JournalInv, NEW v, Checkpoint(v)
  PROVE  ~ Spoiled(v)
<1>1. /\ DOMAIN Unread(v) = 1 .. (Len(file) - v.read) /\ v.seq = v.read /\ v.read \in 0 .. Len(file)
      /\ \A i \in 1 .. (Len(file) - v.read) : Unread(v)[i] = file[v.read + i]
  BY UnreadIs DEF JournalInv, Checkpoint
<1>2. Len(file) \in Nat /\ DOMAIN file = 1 .. Len(file)
  BY DEF JournalInv, JournalTypes, Lines
<1>3. ASSUME NEW i \in 1 .. (Len(file) - v.read) PROVE Unread(v)[i].seq = v.seq + i
  <2>1. v.read + i \in 1 .. Len(file)
    BY <1>1, <1>2
  <2>2. file[v.read + i].seq = v.read + i
    BY <1>2, <2>1 DEF JournalInv, SeqIsGapless
  <2> QED
    BY <1>1, <2>2
<1> QED
  BY <1>1, <1>3 DEF Spoiled

\* The next record of a writer is an event of its own, or its last record.
LEMMA NextRecord ==
  ASSUME NEW w \in Writers, Prospect(w), todo[w] # <<>>
  PROVE  \/ /\ Head(todo[w]) \in Plain(w)
            /\ \/ Tail(todo[w]) \in Seq(Plain(w))
               \/ \E s \in Seq(Plain(w)) : Tail(todo[w]) = Append(s, LastOf(w)) /\ Ending(w)
         \/ Head(todo[w]) = LastOf(w) /\ Tail(todo[w]) = <<>> /\ Ending(w)
<1> HIDE DEF Plain
<1>1. CASE todo[w] \in Seq(Plain(w))
  BY <1>1
<1>2. ASSUME NEW s \in Seq(Plain(w)), todo[w] = Append(s, LastOf(w)), Ending(w), s = <<>>
      PROVE  Head(todo[w]) = LastOf(w) /\ Tail(todo[w]) = <<>>
  BY <1>2
<1>3. ASSUME NEW s \in Seq(Plain(w)), todo[w] = Append(s, LastOf(w)), Ending(w), s # <<>>
      PROVE  Head(todo[w]) \in Plain(w) /\ Tail(s) \in Seq(Plain(w)) /\ Tail(todo[w]) = Append(Tail(s), LastOf(w))
  BY <1>3
<1> QED
  BY <1>1, <1>2, <1>3 DEF Prospect

\* The decisions under the lock.
Decided(w, r, v) ==
  \/ /\ v.truncated /\ r.kind # "terminal"
     /\ view' = [view EXCEPT ![w] = v] /\ UNCHANGED <<degraded, out, lock>>
  \/ /\ r.kind # "terminal" => ~ v.truncated
     /\ ~ Exceeds(v, r)
     /\ view' = [view EXCEPT ![w] = v] /\ out' = [out EXCEPT ![w] = r] /\ lock' = w /\ UNCHANGED degraded
  \/ /\ Exceeds(v, r) /\ r.kind = "terminal" /\ Degrade(w, "terminal_reserve_exhausted")
     /\ view' = [view EXCEPT ![w] = v] /\ UNCHANGED <<out, lock>>
  \/ /\ r.kind # "terminal" /\ MarkFits(v)
     /\ view' = [view EXCEPT ![w] = v] /\ out' = [out EXCEPT ![w] = Mark(w)] /\ lock' = w /\ UNCHANGED degraded
  \/ /\ r.kind # "terminal" /\ ~ MarkFits(v)
     /\ view' = [view EXCEPT ![w] = [v EXCEPT !.truncated = TRUE]] /\ UNCHANGED <<degraded, out, lock>>

LEMMA Deciding ==
  ASSUME JournalInv, NEW w \in Writers, Begin(w)
  PROVE  /\ lock = Nobody /\ todo[w] # <<>> /\ todo' = [todo EXCEPT ![w] = Tail(@)]
         /\ UNCHANGED <<file, mode, faults, session, given, buffer, pending, status>>
         /\ ~ Disabled(w) /\ (\A v \in Writers : out[v] = Nothing) /\ Cut
         /\ Decided(w, Head(todo[w]), Recovered(Base(view[w])))
<1>0. ~ Shrunk(view[w])
  BY NotShrunk DEF JournalInv
<1>1. /\ lock = Nobody /\ todo[w] # <<>> /\ todo' = [todo EXCEPT ![w] = Tail(@)]
      /\ UNCHANGED <<file, mode, faults, session, given, buffer, pending, status>>
      /\ ~ Disabled(w) /\ Decide(w, Head(todo[w])) /\ Cut
  BY <1>0 DEF Begin, Recover, Cut, intake
<1>2. \A v \in Writers : out[v] = Nothing
  BY <1>1, JournalAssumption DEF JournalInv, LockedWrites
<1>3. ~ Spoiled(Base(view[w]))
  BY Reread, NeverSpoiled DEF JournalInv
<1>4. PICK r : r = Head(todo[w])
  OBVIOUS
<1>5. PICK v : v = Recovered(Base(view[w]))
  OBVIOUS
<1>6. Decided(w, r, v)
  BY <1>1, <1>3, <1>4, <1>5, Zenon DEF Decide, Decided
<1> QED
  BY <1>1, <1>2, <1>4, <1>5, <1>6

\* Nothing is taken in at the expense of the reserve.
LEMMA IntakeBudget ==
  ASSUME JournalInv, BudgetInv, NEW w \in Writers, Intakes(w)
  PROVE  BudgetInv'
<1>0. JournalTypes /\ Lives /\ Room /\ PeersNeverDisable
  BY DEF JournalInv, BudgetInv
<1>1. UNCHANGED <<file, out>> /\ Ended' = Ended
  BY <1>0, IntakeKeeps, EndedStands DEF Aside
<1>2. Lives' /\ \A v \in Writers : Prospect(v)'
  BY <1>0, IntakeLives, IntakeProspect DEF BudgetInv
<1>3. Room'
  BY <1>0, <1>1 DEF Room
<1>4. (PeersNeverDisable)'
  BY <1>0, IntakeLives
<1> QED
  BY <1>2, <1>3, <1>4 DEF BudgetInv

\* A decision under the lock leaves the reserve alone, and never fails for want of it.
LEMMA BeginBudget ==
  ASSUME JournalInv, BudgetInv, NEW w \in Writers, Begin(w)
  PROVE  BudgetInv'
<1>0. JournalTypes /\ Lives /\ Room /\ PeersNeverDisable /\ Prospect(w) /\ Bytes(file) \in Nat
  BY BytesGrow DEF JournalInv, BudgetInv, JournalTypes
<1>1. PICK r : r = Head(todo[w])
  OBVIOUS
<1>2. PICK v : v = Recovered(Base(view[w]))
  OBVIOUS
<1>3. /\ todo[w] # <<>> /\ todo' = [todo EXCEPT ![w] = Tail(todo[w])]
      /\ UNCHANGED <<file, mode, faults>> /\ (\A u \in Writers : out[u] = Nothing)
      /\ Decided(w, r, v)
  BY <1>1, <1>2, Deciding
<1>4. \/ /\ r \in Plain(w)
         /\ \/ Tail(todo[w]) \in Seq(Plain(w))
            \/ \E s \in Seq(Plain(w)) : Tail(todo[w]) = Append(s, LastOf(w)) /\ Ending(w)
      \/ r = LastOf(w) /\ Tail(todo[w]) = <<>> /\ Ending(w)
  BY <1>0, <1>1, <1>3, NextRecord
<1>5. /\ Plain(w) \subseteq Line /\ (r \in Plain(w) => r.kind \notin {"terminal", "journal.truncated"} /\ r.by = w)
      /\ LastOf(w).kind = "terminal" /\ LastOf(w).by = w /\ LastOf(w).size = MarkSize /\ LastOf(w) \in Line
      /\ Mark(w).kind = "journal.truncated" /\ Mark(w).by = w /\ Mark(w).size = MarkSize /\ Mark(w) \in Line
      /\ Nothing.kind = "nothing"
  BY DEF Plain, Waiting, LastOf, Mark, Rec, Nothing, Line, Kinds, MarkSize
<1>6. Ended' = Ended
  BY <1>3, EndedStands
<1>7. r.kind = "terminal" => ~ Exceeds(v, r)
  <2> SUFFICES ASSUME r.kind = "terminal" PROVE ~ Exceeds(v, r)
    OBVIOUS
  <2>1. r = LastOf(w) /\ w \notin Ended
    BY <1>4, <1>5 DEF Ending
  <2>2. Bytes(file) + MarkSize <= MaxBytes
    BY <1>0, <2>1, RoomToEnd
  <2>3. r.size = MarkSize
    BY <1>5, <2>1
  <2> QED
    BY <1>0, <2>2, <2>3, JournalAssumption DEF Exceeds, Limit, Ordinary, MarkSize
<1>8. /\ UNCHANGED degraded
      /\ \/ out' = out
         \/ ~ Exceeds(v, r) /\ out' = [out EXCEPT ![w] = r]
         \/ r.kind # "terminal" /\ MarkFits(v) /\ out' = [out EXCEPT ![w] = Mark(w)]
  BY <1>3, <1>7 DEF Decided
<1>9. /\ \A u \in Writers \ {w} : out'[u] = Nothing /\ UNCHANGED <<todo[u], out[u], mode[u]>>
      /\ todo'[w] = Tail(todo[w]) /\ mode'[w] = mode[w]
  BY <1>0, <1>3, <1>8 DEF JournalTypes
<1>10. \A u \in Writers : Prospect(u)'
  <2>1. ASSUME NEW u \in Writers, u # w PROVE Prospect(u)'
    BY <1>6, <1>9, <2>1, Untouched DEF BudgetInv
  <2>2. Prospect(w)'
    <3>0. w \notin Ended
      BY <1>0, <1>3 DEF Prospect
    <3>1. CASE out' = out
      <4>1. out'[w] = Nothing
        BY <1>3, <3>1
      <4>2. <<>> \in Seq(Plain(w))
        OBVIOUS
      <4> QED
        BY <1>4, <1>5, <1>6, <1>9, <3>0, <4>1, <4>2 DEF Prospect, Ending
    <3>2. CASE out' = [out EXCEPT ![w] = r]
      <4>1. out'[w] = r
        BY <1>0, <3>2 DEF JournalTypes
      <4>2. <<>> \in Seq(Plain(w))
        OBVIOUS
      <4> QED
        BY <1>4, <1>5, <1>6, <1>9, <3>0, <4>1, <4>2 DEF Prospect, Ending
    <3>3. CASE r.kind # "terminal" /\ out' = [out EXCEPT ![w] = Mark(w)]
      <4>1. out'[w] = Mark(w) /\ r \in Plain(w)
        BY <1>0, <1>4, <1>5, <3>3 DEF JournalTypes
      <4> QED
        BY <1>4, <1>5, <1>6, <1>9, <3>0, <3>3, <4>1 DEF Prospect, Ending
    <3> QED
      BY <1>8, <3>1, <3>2, <3>3
  <2> QED
    BY <2>1, <2>2
<1>11. Room'
  <2>1. ASSUME out'[w] # Nothing, out'[w].kind # "terminal"
        PROVE  Bytes(file) + out'[w].size <= MaxBytes - Reserve
    <3>1. CASE ~ Exceeds(v, r) /\ out' = [out EXCEPT ![w] = r]
      <4>1. out'[w] = r /\ r.kind # "terminal" /\ r.size \in Nat
        BY <1>0, <1>4, <1>5, <2>1, <3>1 DEF JournalTypes, Line
      <4> QED
        BY <1>0, <3>1, <4>1, JournalAssumption DEF Exceeds, Limit
    <3>2. CASE MarkFits(v) /\ out' = [out EXCEPT ![w] = Mark(w)]
      <4>1. out'[w] = Mark(w)
        BY <1>0, <3>2 DEF JournalTypes
      <4> QED
        BY <1>5, <3>2, <4>1 DEF MarkFits
    <3>3. CASE out' = out
      BY <1>3, <2>1, <3>3
    <3> QED
      BY <1>8, <3>1, <3>2, <3>3
  <2>2. file' = file
    BY <1>3
  <2> QED
    BY <1>0, <1>6, <1>9, <2>1, <2>2 DEF Room
<1>12. Lives' /\ (PeersNeverDisable)'
  BY <1>0, <1>3, <1>8 DEF Lives, PeersNeverDisable, Disabled
<1> QED
  BY <1>10, <1>11, <1>12 DEF BudgetInv

\* A terminal record takes the place its writer had in the reserve.
LEMMA WriteBudget ==
  ASSUME JournalInv, BudgetInv, NEW w \in Writers, Write(w)
  PROVE  BudgetInv'
<1>0. JournalTypes /\ LockedWrites /\ Lives /\ Room /\ PeersNeverDisable /\ Prospect(w) /\ Bytes(file) \in Nat
  BY BytesGrow DEF JournalInv, BudgetInv, JournalTypes
<1>1. PICK r \in Line : r = out[w] /\ out[w] # Nothing /\ r.by = w
  BY <1>0 DEF JournalTypes, Write, Prospect
<1>2. /\ out' = [out EXCEPT ![w] = Nothing] /\ UNCHANGED <<mode, todo, degraded, faults>> /\ lock = w
  BY <1>0, <1>1 DEF Write, LockedWrites
<1>3. PICK e \in [seq : Nat, record : Line] : file' = Append(file, e) /\ e.record = r
  <2>1. [seq |-> view[w].seq + 1, record |-> out[w]] \in [seq : Nat, record : Line]
    <3>1. view[w].seq \in Nat
      <4>1. Checkpoint(view[w]) /\ Len(file) \in Nat
        BY <1>0 DEF JournalInv, JournalTypes, Lines
      <4> QED
        BY <4>1 DEF Checkpoint
    <3> QED
      BY <1>1, <3>1
  <2> QED
    BY <1>1, <2>1 DEF Write
<1>4. Bytes(file') = Bytes(file) + r.size /\ r.size \in Nat
  BY <1>0, <1>3, BytesGrow DEF JournalTypes, Line
<1>5. Ended' = IF r.kind = "terminal" THEN Ended \cup {w} ELSE Ended
  BY <1>0, <1>1, <1>3, EndedGrows
<1>6. /\ \A u \in Writers : out'[u] = Nothing
      /\ \A u \in Writers \ {w} : out[u] = Nothing
      /\ Nothing.kind = "nothing"
  BY <1>0, <1>2 DEF LockedWrites, JournalTypes, Nothing
<1>7. r.kind = "terminal" => Ending(w) /\ r.size = MarkSize /\ todo[w] \in Seq(Plain(w)) /\ todo[w] = <<>>
  BY <1>0, <1>1 DEF Prospect
<1>8. \A u \in Writers : Prospect(u)'
  <2>1. ASSUME NEW u \in Writers, u # w PROVE Prospect(u)'
    BY <1>2, <1>5, <1>6, <2>1, Untouched DEF BudgetInv
  <2>2. Prospect(w)'
    <3>1. CASE r.kind = "terminal"
      BY <1>2, <1>5, <1>6, <1>7, <3>1 DEF Prospect, Ending
    <3>2. CASE r.kind # "terminal"
      <4>1. w \notin Ended
        BY <1>0, <1>1 DEF Prospect
      <4> QED
        BY <1>0, <1>1, <1>2, <1>5, <1>6, <3>2, <4>1 DEF Prospect, Ending
    <3> QED
      BY <3>1, <3>2
  <2> QED
    BY <2>1, <2>2
<1>9. Room'
  <2>1. PICK c \in Nat : c = Cardinality(Ended)
    BY EndedSet
  <2>2. CASE r.kind = "terminal"
    <3>1. Cardinality(Ended') = c + 1
      BY <1>5, <1>7, <2>1, <2>2, EndedSet, FS_AddElement DEF Ending
    <3>2. Bytes(file) <= MaxBytes - Reserve + 2 * c /\ Bytes(file') = Bytes(file) + 2
      BY <1>0, <1>4, <1>7, <2>1, <2>2 DEF Room, MarkSize
    <3>3. Bytes(file') <= MaxBytes - Reserve + 2 * (c + 1)
      BY <1>0, <3>2, JournalAssumption
    <3> QED
      BY <1>6, <3>1, <3>3 DEF Room, MarkSize
  <2>3. CASE r.kind # "terminal"
    <3>1. Ended' = Ended /\ Bytes(file) + r.size <= MaxBytes - Reserve
      BY <1>0, <1>1, <1>5, <2>3 DEF Room
    <3> QED
      BY <1>0, <1>4, <1>6, <2>1, <3>1, JournalAssumption DEF Room, MarkSize
  <2> QED
    BY <2>2, <2>3
<1>10. Lives' /\ (PeersNeverDisable)'
  BY <1>0, <1>2 DEF Lives, PeersNeverDisable, Disabled
<1> QED
  BY <1>8, <1>9, <1>10 DEF BudgetInv

\* A failing write and a death count as faults.
LEMMA LettingGoBudget ==
  ASSUME JournalInv, BudgetInv, NEW w \in Writers, WriteFails(w) \/ Die(w)
  PROVE  BudgetInv'
<1>0. JournalTypes /\ Lives /\ Room /\ Prospect(w) /\ PeersNeverDisable
  BY DEF JournalInv, BudgetInv
<1>1. /\ file' = file /\ faults' = faults + 1 /\ out' = [out EXCEPT ![w] = Nothing]
      /\ \/ todo' = todo /\ mode' = mode
         \/ todo' = [todo EXCEPT ![w] = <<>>] /\ mode' = [mode EXCEPT ![w] = "dead"]
      /\ \/ degraded' = degraded
         \/ Degrade(w, "write")
  BY DEF WriteFails, Die, Fault
<1>2. Ended' = Ended
  BY <1>1, EndedStands
<1>3. Lives'
  <2>2. degraded' \in [Writers -> Degradation]
    BY <1>0, <1>1, Degrading DEF Lives, Failures
  <2> QED
    BY <1>0, <1>1, <2>2 DEF Lives
<1>4. \A u \in Writers : Prospect(u)'
  <2>1. ASSUME NEW u \in Writers, u # w PROVE Prospect(u)'
    <3>1. UNCHANGED <<todo[u], out[u], mode[u]>>
      BY <1>0, <1>1, <2>1 DEF JournalTypes, Lives
    <3> QED
      BY <1>2, <3>1, Untouched DEF BudgetInv
  <2>2. Prospect(w)'
    <3>0. out'[w] = Nothing /\ Nothing.kind = "nothing" /\ <<>> \in Seq(Plain(w))
      BY <1>0, <1>1 DEF JournalTypes, Nothing
    <3>1. CASE todo' = todo /\ mode' = mode
      BY <1>0, <1>2, <3>0, <3>1 DEF Prospect, Ending
    <3>2. CASE todo' = [todo EXCEPT ![w] = <<>>] /\ mode' = [mode EXCEPT ![w] = "dead"]
      <4>1. todo'[w] = <<>> /\ mode'[w] = "dead"
        BY <1>0, <3>2 DEF JournalTypes, Lives
      <4> QED
        BY <3>0, <4>1 DEF Prospect
    <3> QED
      BY <1>1, <3>1, <3>2
  <2> QED
    BY <2>1, <2>2
<1>5. Room'
  <2>1. \A u \in Writers : out'[u] = Nothing \/ out'[u] = out[u]
    BY <1>0, <1>1 DEF JournalTypes
  <2> QED
    BY <1>0, <1>1, <1>2, <2>1 DEF Room
<1>6. (PeersNeverDisable)'
  <2>1. CASE degraded' = degraded
    BY <1>0, <2>1 DEF PeersNeverDisable, Disabled
  <2>2. CASE Degrade(w, "write")
    BY <1>0, <2>2, Degrading DEF Lives, Failures, PeersNeverDisable, Disabled
  <2> QED
    BY <1>1, <2>1, <2>2
<1> QED
  BY <1>3, <1>4, <1>5, <1>6 DEF BudgetInv

\* Opening changes neither file nor prospect.
LEMMA OpenBudget ==
  ASSUME JournalInv, BudgetInv, NEW w \in Writers, Open(w)
  PROVE  BudgetInv'
<1>0. JournalTypes /\ Lives /\ Room /\ Prospect(w) /\ PeersNeverDisable
  BY DEF JournalInv, BudgetInv
<1>1. UNCHANGED <<file, todo, out, degraded, faults>> /\ mode[w] = "new" /\ mode' = [mode EXCEPT ![w] = "open"]
  BY DEF Open
<1>2. Ended' = Ended
  BY <1>1, EndedStands
<1>3. \A u \in Writers : Prospect(u)'
  <2>1. ASSUME NEW u \in Writers, u # w PROVE Prospect(u)'
    BY <1>0, <1>1, <1>2, <2>1, Untouched DEF BudgetInv, Lives
  <2>2. Prospect(w)'
    <3>1. mode'[w] = "open"
      BY <1>0, <1>1 DEF Lives
    <3> QED
      BY <1>0, <1>1, <1>2, <3>1 DEF Prospect, Ending
  <2> QED
    BY <2>1, <2>2
<1> QED
  BY <1>0, <1>1, <1>2, <1>3 DEF BudgetInv, Lives, Room, PeersNeverDisable, Disabled

\* Every step keeps within the budget.
LEMMA BudgetStep ==
  ASSUME JournalInv, BudgetInv, [Next]_vars
  PROVE  BudgetInv'
<1> USE DEF disk, work, intake, watcher
<1>1. ASSUME NEW w \in Writers, Step(w) \/ Failure(w) PROVE BudgetInv'
  <2>1. CASE Intakes(w)
    BY <2>1, IntakeBudget
  <2> QED
    BY <1>1, <2>1, OpenBudget, BeginBudget, WriteBudget, LettingGoBudget DEF Step, Failure, Intakes
<1>2. CASE Repair \/ ReadEvents \/ ReadFails \/ ReadStatus \/ UNCHANGED vars
  <2>1. UNCHANGED <<file, mode, todo, out, degraded, faults>>
    BY <1>2 DEF Repair, ReadEvents, ReadFails, ReadStatus, vars
  <2>2. Ended' = Ended
    BY <2>1, EndedStands
  <2>3. \A u \in Writers : Prospect(u)'
    BY <2>1, <2>2, Untouched DEF BudgetInv
  <2> QED
    BY <2>1, <2>2, <2>3 DEF BudgetInv, Lives, Room, PeersNeverDisable, Disabled
<1> QED
  BY <1>1, <1>2 DEF Next

\* The reserve is kept for terminal records on every behaviour.
LEMMA BudgetInvariance == Spec => []BudgetInv
<1>1. Init => BudgetInv
  <2> SUFFICES ASSUME Init PROVE BudgetInv
    OBVIOUS
  <2>1. Lives
    <3>1. Sound \in Degradation
      BY DEF Sound, Degradation
    <3> QED
      BY <3>1 DEF Init, Lives
  <2>2. Ended = {}
    BY DEF Init, Ended
  <2>3. \A w \in Writers : Prospect(w)
    <3>1. Nothing.kind = "nothing"
      BY DEF Nothing
    <3>2. \A w \in Writers : <<>> \in Seq(Plain(w)) /\ todo[w] = <<>> /\ out[w] = Nothing
      BY DEF Init
    <3> QED
      BY <2>2, <3>1, <3>2 DEF Prospect
  <2>4. Room
    <3>1. Bytes(file) = 0 /\ Cardinality(Ended) = 0
      BY <2>2, BytesGrow, FS_EmptySet DEF Init
    <3>2. \A w \in Writers : out[w] = Nothing
      BY DEF Init
    <3> QED
      BY <3>1, <3>2, JournalAssumption DEF Room, MarkSize
  <2>5. PeersNeverDisable
    BY DEF Init, Sound, PeersNeverDisable, Disabled
  <2> QED
    BY <2>1, <2>3, <2>4, <2>5 DEF BudgetInv
<1> QED
  BY <1>1, JournalInvariance, BudgetStep, PTL DEF Spec

\* Whatever peers write, tear, cut off or die on, a writer is disabled by a failing call of
\* its own alone: what it reads behind its checkpoint is in sequence, and it finds its part of
\* the reserve left for its terminal record.
THEOREM PeersDoNoHarm == Spec => []PeersNeverDisable
<1>1. BudgetInv => PeersNeverDisable
  BY DEF BudgetInv
<1> QED
  BY <1>1, BudgetInvariance, PTL

\* The file stays within its cap.
THEOREM TheCapIsKept == Spec => []CapIsKept
<1>1. JournalInv /\ BudgetInv => CapIsKept
  <2> SUFFICES ASSUME JournalInv, BudgetInv PROVE CapIsKept
    OBVIOUS
  <2>1. PICK c \in Nat, d \in Nat : c = Cardinality(Ended) /\ d = Cardinality(Writers) /\ c <= d
    BY EndedSet
  <2>2. Bytes(file) \in Nat
    BY BytesGrow DEF JournalInv, JournalTypes
  <2>3. Bytes(file) <= MaxBytes - Reserve + 2 * c /\ d * 2 <= Reserve
    BY <2>1, ReserveAssumption DEF BudgetInv, Room, MarkSize
  <2> QED
    BY <2>1, <2>2, <2>3, JournalAssumption DEF CapIsKept
<1> QED
  BY <1>1, JournalInvariance, BudgetInvariance, PTL

-----------------------------------------------------------------------------
(* The spectator                                                            *)

\* An unfinished first record is that of a writer that writes no more.
FirstKnown ==
  first # Nothing =>
    first \in [seq : Nat, record : Line] /\ first.seq = 1 /\ Stopped(first.record.by)

\* It has shown the file up to some record, or such a first record in its place.
Follows == shown \in Lines /\ FirstKnown /\ ShownOnce

\* Stopped, in the next state.
StoppedThen(w) == mode'[w] = "dead" \/ degraded'[w].disabled

\* What can be read is numbered like the file.
LEMMA ReadableIs ==
  ASSUME JournalTypes, SeqIsGapless, FirstKnown
  PROVE  Readable \in Lines /\ \A i \in 1 .. Len(Readable) : Readable[i].seq = i
<1>1. CASE file = <<>> /\ first # Nothing
  <2>1. Readable = <<first>> /\ first \in [seq : Nat, record : Line] /\ first.seq = 1
    BY <1>1 DEF Readable, FirstKnown
  <2>2. Readable \in Lines /\ Len(Readable) = 1 /\ Readable[1] = first
    BY <2>1 DEF Lines
  <2>3. \A i \in 1 .. 1 : i = 1
    OBVIOUS
  <2> QED
    BY <2>1, <2>2, <2>3
<1>2. CASE ~ (file = <<>> /\ first # Nothing)
  <2>1. Readable = file /\ file \in Lines /\ DOMAIN file = 1 .. Len(file)
    BY <1>2 DEF Readable, JournalTypes, Lines
  <2> QED
    BY <2>1 DEF SeqIsGapless
<1> QED
  BY <1>1, <1>2

LEMMA ShowsTheRest ==
  ASSUME JournalTypes, SeqIsGapless, Follows
  PROVE  News = SubSeq(Readable, Len(shown) + 1, Len(Readable))
<1> DEFINE Row == [seq : Nat, record : Line]
<1>0. PICK s \in Seq(Row) : s = Readable /\ \A i \in 1 .. Len(s) : s[i].seq = i
  BY ReadableIs DEF Follows, Lines
<1>1. PICK n \in Nat : n = Len(s) /\ DOMAIN s = 1 .. n
  BY <1>0
<1>2. PICK k \in Nat : k = Len(shown) /\ DOMAIN shown = 1 .. k
  BY DEF Follows, Lines
<1> HIDE DEF Row
<1> DEFINE fresh == [i \in 1 .. n |-> IF i <= k THEN <<>> ELSE <<s[i]>>]
<1>4. News = FlattenSeq(fresh)
  <2>1. ASSUME NEW i \in 1 .. n
        PROVE  (\A j \in DOMAIN shown : s[i].seq > shown[j].seq) <=> ~ (i <= k)
    <3>1. s[i].seq = i
      BY <1>0, <1>1
    <3>2. \A j \in 1 .. k : shown[j].seq = j
      BY <1>2 DEF Follows, ShownOnce
    <3>3. CASE i <= k
      <4>1. i \in 1 .. k /\ ~ (i > i)
        BY <3>3
      <4> QED
        BY <1>2, <3>1, <3>2, <3>3, <4>1
    <3>4. CASE ~ (i <= k)
      BY <1>2, <3>1, <3>2, <3>4
    <3> QED
      BY <3>3, <3>4
  <2>2. [i \in 1 .. n |-> IF \A j \in DOMAIN shown : s[i].seq > shown[j].seq
                          THEN <<s[i]>> ELSE <<>>] = fresh
    BY <2>1
  <2> HIDE DEF fresh
  <2> QED
    BY <1>0, <1>1, <2>2 DEF News
<1>5. fresh \in Seq(Seq(Row)) /\ Len(fresh) = n
  <2>1. \A i \in 1 .. n : s[i] \in Row
    BY <1>0, <1>1
  <2> DEFINE Q == Seq(Row)
  <2>2. <<>> \in Q /\ \A i \in 1 .. n : <<s[i]>> \in Q
    BY <2>1
  <2> HIDE DEF Q
  <2>3. fresh \in [1 .. n -> Q]
    BY <2>2
  <2> HIDE DEF fresh
  <2>4. fresh \in Seq(Q) /\ Len(fresh) = n
    BY <2>3
  <2> QED
    BY <2>4 DEF Q
<1> DEFINE h == [i \in 0 .. n |-> IF i <= k THEN <<>> ELSE SubSeq(s, k + 1, i)]
<1>6. Joins(h, fresh)
  <2>1. h[0] = <<>>
    OBVIOUS
  <2>2. ASSUME NEW i \in 1 .. n PROVE h[i] = h[i - 1] \o fresh[i]
    <3>1. CASE i <= k
      <4>1. h[i] = <<>> /\ h[i - 1] = <<>> /\ fresh[i] = <<>>
        BY <3>1
      <4>2. <<>> \o <<>> = <<>>
        OBVIOUS
      <4> HIDE DEF h, fresh
      <4> QED
        BY <4>1, <4>2
    <3>2. CASE ~ (i <= k)
      <4>1. h[i] = SubSeq(s, k + 1, i) /\ fresh[i] = <<s[i]>>
        BY <3>2
      <4>2. h[i - 1] = SubSeq(s, k + 1, i - 1)
        <5>1. CASE i - 1 <= k
          <6>1. SubSeq(s, k + 1, i - 1) = <<>>
            BY <5>1, SubSeqEmpty
          <6>2. h[i - 1] = <<>>
            BY <5>1
          <6> QED
            BY <6>1, <6>2
        <5>2. CASE ~ (i - 1 <= k)
          BY <5>2
        <5> QED
          BY <5>1, <5>2
      <4>3. SubSeq(s, k + 1, i) = SubSeq(s, k + 1, i - 1) \o <<s[i]>>
        <5>1. k + 1 \in 1 .. Len(s) /\ i \in (k + 1) .. Len(s)
          BY <1>1, <3>2
        <5> QED
          BY <1>0, <5>1, SubSeqRecursiveSecond, Zenon
      <4> HIDE DEF h, fresh
      <4> QED
        BY <4>1, <4>2, <4>3
    <3> QED
      BY <3>1, <3>2
  <2> HIDE DEF h, fresh
  <2> QED
    BY <1>5, <2>1, <2>2 DEF Joins
<1>7. FlattenSeq(fresh) = h[n]
  <2> HIDE DEF h, fresh
  <2>1. FlattenSeq(fresh) = h[Len(fresh)]
    BY <1>5, <1>6, FlattenIs
  <2> QED
    BY <1>5, <2>1
<1>8. h[n] = SubSeq(s, k + 1, n)
  <2>1. CASE n <= k
    <3>1. SubSeq(s, k + 1, n) = <<>>
      BY <2>1, SubSeqEmpty
    <3> QED
      BY <2>1, <3>1
  <2>2. CASE ~ (n <= k)
    BY <2>2
  <2> QED
    BY <2>1, <2>2
<1> HIDE DEF h, fresh
<1> QED
  BY <1>0, <1>1, <1>2, <1>4, <1>7, <1>8

\* A poll leaves what was shown and adds what can be read behind it.
LEMMA PollShows ==
  ASSUME JournalTypes, SeqIsGapless, Follows, ReadEvents
  PROVE  /\ shown' \in Lines
         /\ Len(shown') = IF Len(shown) < Len(Readable) THEN Len(Readable) ELSE Len(shown)
         /\ \A i \in 1 .. Len(shown') :
              shown'[i] = IF i <= Len(shown) THEN shown[i] ELSE Readable[i]
<1> DEFINE Row == [seq : Nat, record : Line]
<1>1. PICK s \in Seq(Row), k \in Nat, n \in Nat : s = Readable /\ n = Len(s) /\ k = Len(shown)
  BY ReadableIs DEF Follows, Lines
<1>2. shown' = shown \o SubSeq(s, k + 1, n) /\ shown \in Seq(Row)
  BY <1>1, ShowsTheRest DEF ReadEvents, Follows, Lines
<1> HIDE DEF Row
<1>3. \A i \in (k + 1) .. n : s[i] \in Row
  BY <1>1
<1>10. PICK m \in Int : m = k + 1 /\ n \in Int
  BY <1>1
<1>11. /\ SubSeq(s, m, n) \in Seq(Row)
       /\ Len(SubSeq(s, m, n)) = IF m <= n THEN n - m + 1 ELSE 0
       /\ \A i \in 1 .. (n - m + 1) : SubSeq(s, m, n)[i] = s[m + i - 1]
  BY <1>3, <1>10, SubSeqProperties
<1>4. PICK t \in Seq(Row) : t = SubSeq(s, k + 1, n)
  BY <1>10, <1>11
<1>5. /\ Len(t) = IF k + 1 <= n THEN n - (k + 1) + 1 ELSE 0
      /\ \A i \in 1 .. (n - (k + 1) + 1) : t[i] = s[(k + 1) + i - 1]
  BY <1>4, <1>10, <1>11
<1>6. /\ shown' \in Seq(Row) /\ Len(shown') = k + Len(t)
      /\ \A i \in 1 .. (k + Len(t)) : shown'[i] = IF i <= k THEN shown[i] ELSE t[i - k]
  BY <1>1, <1>2, <1>4
<1>7. ASSUME NEW i \in 1 .. (k + Len(t)) PROVE shown'[i] = IF i <= k THEN shown[i] ELSE s[i]
  <2>1. CASE i <= k
    BY <1>6, <2>1
  <2>2. CASE ~ (i <= k)
    <3>1. i - k \in 1 .. (n - (k + 1) + 1) /\ (k + 1) + (i - k) - 1 = i
      BY <1>5, <2>2
    <3>2. t[i - k] = s[i]
      BY <1>5, <3>1
    <3> QED
      BY <1>6, <2>2, <3>2
  <2> QED
    BY <2>1, <2>2
<1>8. Len(shown') = IF k < n THEN n ELSE k
  BY <1>5, <1>6
<1>9. shown' \in Lines
  BY <1>6 DEF Row, Lines
<1> QED
  BY <1>1, <1>6, <1>7, <1>8, <1>9

\* A writer that stopped does not start again.
LEMMA StoppedStays ==
  ASSUME Lives, [Next]_vars, NEW w \in Writers, Stopped(w)
  PROVE  StoppedThen(w)
<1> USE DEF disk, work, intake, watcher
<1>1. ASSUME NEW v \in Writers, Step(v) \/ Failure(v)
      PROVE  /\ \/ mode' = mode
                \/ mode[v] # "dead" /\ \E m : mode' = [mode EXCEPT ![v] = m]
                \/ mode' = [mode EXCEPT ![v] = "dead"]
             /\ \/ degraded' = degraded
                \/ BufferOverflows(v)
                \/ \E why : Degrade(v, why)
  <2>1. CASE Open(v) \/ OpenFails(v) \/ Finalize(v) \/ Close(v)
    BY <2>1 DEF Open, OpenFails, Finalize, Close, Idle
  <2>2. CASE FrameArrives(v) \/ FrameIgnored(v) \/ FrameBuffered(v) \/ BufferOverflows(v)
    BY <2>2 DEF FrameArrives, FrameIgnored, FrameBuffered, BufferOverflows
  <2>3. CASE SetSession(v) \/ Replay(v) \/ Flush(v) \/ Skip(v) \/ Write(v)
    BY <2>3 DEF SetSession, Replay, Flush, Skip, Write
  <2>4. CASE Begin(v)
    BY <2>4, Zenon DEF Begin, Recover, Decide
  <2>5. CASE WriteFails(v) \/ SyncFails(v) \/ Die(v)
    BY <2>5 DEF WriteFails, SyncFails, Die
  <2> QED
    BY <1>1, <2>1, <2>2, <2>3, <2>4, <2>5 DEF Step, Failure
<1>2. ASSUME NEW v \in Writers, Step(v) \/ Failure(v) PROVE StoppedThen(w)
  <2>1. mode[w] = "dead" => mode'[w] = "dead"
    BY <1>1, <1>2 DEF Lives
  <2>2. Disabled(w) => degraded'[w].disabled
    <3>0. CASE degraded' = degraded
      BY <3>0 DEF Disabled
    <3>1. ASSUME NEW why, Degrade(v, why) PROVE Disabled(w) => degraded'[w].disabled
      <4>1. PICK d : d = [noted |-> TRUE, disabled |-> TRUE, reason |-> why]
        OBVIOUS
      <4>2. degraded' = [degraded EXCEPT ![v] = d] /\ d.disabled
        BY <3>1, <4>1 DEF Degrade
      <4> QED
        BY <4>2 DEF Disabled, Lives
    <3>2. CASE BufferOverflows(v)
      BY <3>2, Overflowing DEF Lives, Disabled
    <3> QED
      BY <1>1, <1>2, <3>0, <3>1, <3>2
  <2> QED
    BY <2>1, <2>2 DEF Stopped, StoppedThen, Disabled
<1>3. CASE Repair \/ ReadEvents \/ ReadFails \/ ReadStatus \/ UNCHANGED vars
  BY <1>3 DEF Repair, ReadEvents, ReadFails, ReadStatus, vars, Stopped, StoppedThen, Disabled
<1> QED
  BY <1>2, <1>3 DEF Next

\* What is left of a first record is left by a writer that stops there.
LEMMA FirstStays ==
  ASSUME JournalInv, BudgetInv, FirstKnown, [Next]_vars
  PROVE  FirstKnown'
<1> USE DEF disk, work, intake, watcher
<1>0. JournalTypes /\ Lives
  BY DEF JournalInv, BudgetInv
<1>1. CASE first' = first
  <2> SUFFICES ASSUME first # Nothing PROVE StoppedThen(first.record.by)
    BY <1>1 DEF FirstKnown, Stopped, StoppedThen, Disabled, Line
  <2>1. first.record.by \in Writers
    BY DEF FirstKnown, Line
  <2> QED
    BY <1>0, <2>1, StoppedStays DEF FirstKnown
<1>2. CASE first' = Nothing
  BY <1>2 DEF FirstKnown
<1>3. ASSUME NEW w \in Writers, WriteFails(w) \/ Die(w), out[w] # Nothing,
             first' = [seq |-> 1, record |-> out[w]]
      PROVE  FirstKnown'
  <2>1. PICK r \in Line : r = out[w] /\ r.by = w
    BY <1>0, <1>3 DEF JournalTypes, BudgetInv, Prospect
  <2>2. first' \in [seq : Nat, record : Line] /\ first'.seq = 1 /\ first'.record.by = w
    BY <1>3, <2>1
  <2>3. StoppedThen(w)
    BY <1>0, <1>3 DEF WriteFails, Die, Degrade, StoppedThen, Lives
  <2> QED
    BY <2>2, <2>3 DEF FirstKnown, Stopped, StoppedThen, Disabled, Line
<1>4. ASSUME NEW w \in Writers, Step(w) \/ Failure(w), first' # first, first' # Nothing
      PROVE  /\ WriteFails(w) \/ Die(w)
             /\ out[w] # Nothing /\ first' = [seq |-> 1, record |-> out[w]]
  <2>1. CASE Intakes(w)
    BY <1>4, <2>1 DEF Intakes, FrameArrives, FrameIgnored, FrameBuffered, BufferOverflows, SetSession,
                      Replay, Flush, Skip, Finalize, Close, OpenFails, SyncFails
  <2>2. CASE Open(w) \/ Write(w)
    BY <1>4, <2>2 DEF Open, Write
  <2>3. CASE Begin(w)
    BY <1>4, <2>3, Zenon DEF Begin, Recover, Cut
  <2>4. CASE WriteFails(w) \/ Die(w)
    BY <1>4, <2>4 DEF WriteFails, Die, LeavesPart
  <2> QED
    BY <1>4, <2>1, <2>2, <2>3, <2>4 DEF Step, Failure, Intakes
<1>5. CASE Repair \/ ReadEvents \/ ReadFails \/ ReadStatus \/ UNCHANGED vars
  BY <1>1, <1>5 DEF Repair, ReadEvents, ReadFails, ReadStatus, vars
<1> QED
  BY <1>1, <1>2, <1>3, <1>4, <1>5 DEF Next

\* Records are only ever added at the end.
LEMMA FileGrows ==
  ASSUME JournalInv, [Next]_vars
  PROVE  UNCHANGED file \/ \E e \in [seq : Nat, record : Line] : file' = Append(file, e)
<1> USE DEF disk, work, intake, watcher
<1>1. ASSUME NEW w \in Writers, Write(w) PROVE \E e \in [seq : Nat, record : Line] : file' = Append(file, e)
  <2>1. view[w].seq + 1 \in Nat /\ out[w] \in Line
    <3>1. Checkpoint(view[w]) /\ Len(file) \in Nat /\ out[w] \in Line \cup {Nothing}
      BY DEF JournalInv, JournalTypes, Lines
    <3> QED
      BY <1>1, <3>1 DEF Checkpoint, Write
  <2>2. [seq |-> view[w].seq + 1, record |-> out[w]] \in [seq : Nat, record : Line]
    BY <2>1
  <2> QED
    BY <1>1, <2>2 DEF Write
<1>2. ASSUME NEW w \in Writers, (Step(w) \/ Failure(w)), ~ Write(w) PROVE file' = file
  <2>1. CASE Intakes(w)
    BY <2>1, IntakeKeeps DEF JournalInv, Aside
  <2> QED
    BY <1>2, <2>1 DEF Step, Failure, Intakes, Open, Begin, Recover, Cut, WriteFails, Die
<1>3. CASE Repair \/ ReadEvents \/ ReadFails \/ ReadStatus \/ UNCHANGED vars
  BY <1>3 DEF Repair, ReadEvents, ReadFails, ReadStatus, vars
<1> QED
  BY <1>1, <1>2, <1>3 DEF Next

\* Nothing but a poll shows anything.
LEMMA OnlyPollsShow == ASSUME [Next]_vars PROVE UNCHANGED shown \/ ReadEvents
  BY DEF Next, vars, Step, Failure, Open, OpenFails, FrameArrives, FrameIgnored, FrameBuffered,
     BufferOverflows, SetSession, Replay, Flush, Begin, Skip, Write, WriteFails, SyncFails, Finalize,
     Close, Die, Repair, ReadStatus, ReadFails, watcher

\* A record that stands for itself or was cut short goes on doing so.
LEMMA StaysShown ==
  ASSUME JournalInv, BudgetInv, [Next]_vars, NEW e \in [seq : Nat, record : Line], NEW i \in Nat,
         \/ i \in DOMAIN file /\ e = file[i]
         \/ i = 1 /\ Stopped(e.record.by)
  PROVE  \/ i \in DOMAIN file' /\ e = file'[i]
         \/ i = 1 /\ StoppedThen(e.record.by)
<1>1. CASE i \in DOMAIN file /\ e = file[i]
  <2>1. CASE UNCHANGED file
    BY <1>1, <2>1
  <2>2. ASSUME NEW f \in [seq : Nat, record : Line], file' = Append(file, f)
        PROVE  i \in DOMAIN file' /\ e = file'[i]
    BY <1>1, <2>2, Appended DEF JournalInv
  <2> QED
    BY <2>1, <2>2, FileGrows
<1>2. CASE i = 1 /\ Stopped(e.record.by)
  <2>1. e.record.by \in Writers
    BY DEF Line
  <2> QED
    BY <1>2, <2>1, StoppedStays DEF BudgetInv
<1> QED
  BY <1>1, <1>2

LEMMA FollowsStep ==
  ASSUME JournalInv, BudgetInv, Follows, [Next]_vars
  PROVE  Follows'
<1> DEFINE Row == [seq : Nat, record : Line]
<1>0. JournalTypes /\ SeqIsGapless /\ FirstKnown /\ FirstKnown'
  BY FirstStays DEF JournalInv, Follows
<1>9. shown \in Seq(Row)
  BY DEF Follows, Lines
<1> HIDE DEF Row
<1>1. PICK k \in Nat : k = Len(shown) /\ DOMAIN shown = 1 .. k
  BY <1>9
<1>2. \A i \in 1 .. k : shown[i] \in Row
  BY <1>1, <1>9
<1>3. ASSUME NEW i \in 1 .. k
      PROVE  /\ shown[i].seq = i
             /\ \/ i \in DOMAIN file' /\ shown[i] = file'[i]
                \/ i = 1 /\ StoppedThen(shown[i].record.by)
  <2>1. /\ shown[i].seq = i
        /\ \/ i \in DOMAIN file /\ shown[i] = file[i]
           \/ i = 1 /\ Stopped(shown[i].record.by)
    BY <1>1 DEF Follows, ShownOnce
  <2>2. PICK e \in Row : e = shown[i]
    BY <1>2
  <2>3. \/ i \in DOMAIN file' /\ e = file'[i]
        \/ i = 1 /\ StoppedThen(e.record.by)
    BY <2>1, <2>2, StaysShown DEF Row
  <2> QED
    BY <2>1, <2>2, <2>3
<1>4. CASE shown' = shown
  <2>1. ASSUME NEW i \in DOMAIN shown'
        PROVE  /\ shown'[i].seq = i
               /\ \/ i \in DOMAIN file' /\ shown'[i] = file'[i]
                  \/ i = 1 /\ StoppedThen(shown'[1].record.by)
    <3>1. i \in 1 .. k
      BY <1>1, <1>4, <2>1
    <3> QED
      BY <1>3, <1>4, <3>1
  <2>2. ShownOnce'
    BY <2>1 DEF ShownOnce, Stopped, StoppedThen, Disabled
  <2>3. shown' \in Lines
    BY <1>4 DEF Follows
  <2> QED
    BY <1>0, <2>2, <2>3 DEF Follows, Lines, Line
<1>5. CASE ReadEvents
  <2>1. PICK n \in Nat : n = Len(Readable)
    BY <1>0, ReadableIs DEF Lines
  <2>2. /\ shown' \in Lines /\ Len(shown') = IF k < n THEN n ELSE k
        /\ \A i \in 1 .. Len(shown') : shown'[i] = IF i <= k THEN shown[i] ELSE Readable[i]
    BY <1>0, <1>1, <1>5, <2>1, PollShows
  <2>3. DOMAIN shown' = 1 .. Len(shown')
    BY <2>2 DEF Lines
  <2>4. file' = file /\ first' = first /\ mode' = mode /\ degraded' = degraded
    BY <1>5 DEF ReadEvents, disk, work
  <2>5. ASSUME NEW i \in 1 .. Len(shown')
        PROVE  /\ shown'[i].seq = i
               /\ \/ i \in DOMAIN file' /\ shown'[i] = file'[i]
                  \/ i = 1 /\ StoppedThen(shown'[i].record.by)
    <3>1. CASE i <= k
      <4>1. i \in 1 .. k /\ shown'[i] = shown[i]
        BY <2>2, <3>1
      <4> QED
        BY <1>3, <4>1
    <3>2. CASE ~ (i <= k)
      <4>1. i \in 1 .. n /\ shown'[i] = Readable[i]
        BY <1>1, <2>2, <3>2
      <4>2. shown'[i].seq = i
        BY <1>0, <2>1, <4>1, ReadableIs
      <4>3. CASE file = <<>> /\ first # Nothing
        <5>1. Readable = <<first>>
          BY <4>3 DEF Readable
        <5>2. i = 1 /\ shown'[i] = first
          BY <2>1, <4>1, <5>1
        <5>3. StoppedThen(shown'[i].record.by)
          BY <1>0, <2>4, <4>3, <5>2 DEF FirstKnown, Stopped, StoppedThen, Disabled
        <5> QED
          BY <4>2, <5>2, <5>3
      <4>4. CASE ~ (file = <<>> /\ first # Nothing)
        <5>1. Readable = file /\ DOMAIN file = 1 .. n
          BY <1>0, <2>1, <4>4 DEF Readable, JournalTypes, Lines
        <5> QED
          BY <2>4, <4>1, <4>2, <5>1
      <4> QED
        BY <4>3, <4>4
    <3> QED
      BY <3>1, <3>2
  <2>6. ShownOnce'
    BY <2>3, <2>5 DEF ShownOnce, Stopped, StoppedThen, Disabled
  <2> QED
    BY <1>0, <2>2, <2>6 DEF Follows, Lines, Line
<1> QED
  BY <1>4, <1>5, OnlyPollsShow

LEMMA FollowsInitially == ASSUME Init PROVE Follows
  BY DEF Init, Follows, FirstKnown, ShownOnce, Lines

\* The spectator is never ahead of the file, nor beside it but for its first record.
LEMMA FollowsAlways == Spec => []Follows
<1> QED
  BY FollowsInitially, FollowsStep, JournalInvariance, BudgetInvariance, PTL DEF Spec

\* The spectator shows the records in the order of the file and each of them once, while
\* writers append to it, fail on it and cut off what is torn.  Only the first of them can be
\* another than the file's, and then its writer failed or died on it.
THEOREM RecordsAreShownOnce == Spec => []ShownOnce
<1>1. Follows => ShownOnce
  BY DEF Follows
<1> QED
  BY <1>1, FollowsAlways, PTL

-----------------------------------------------------------------------------
(* The log                                                                  *)

\* A write puts the next record, and a poll shows all.
LEMMA LogStep ==
  ASSUME JournalInv, BudgetInv, Follows, [Next]_vars
  PROVE  [Log!Next]_(Log!logVars)
<1>0. JournalTypes /\ SeqIsGapless
  BY DEF JournalInv
<1>1. ASSUME NEW w \in Writers, Write(w) PROVE Log!Next
  <2>1. PICK r \in Line : r = out[w] /\ out[w] # Nothing /\ r.by = w
    BY <1>0, <1>1 DEF JournalTypes, Write, Prospect, BudgetInv
  <2>2. PICK n \in Nat : n = Len(file) /\ DOMAIN file = 1 .. n
    BY <1>0 DEF JournalTypes, Lines
  <2>3. view[w].read = n /\ view[w].seq = n /\ (r.kind # "terminal" => ~ view[w].truncated)
    BY <2>1, <2>2 DEF JournalInv, ReadFirst, Checkpoint
  <2>4. PICK e \in [seq : Nat, record : Line] : e.seq = n + 1 /\ e.record = r /\ file' = Append(file, e)
    <3>1. [seq |-> n + 1, record |-> r] \in [seq : Nat, record : Line]
      OBVIOUS
    <3> QED
      BY <1>1, <2>1, <2>3, <3>1 DEF Write
  <2>5. DOMAIN file' = 1 .. (n + 1) /\ file'[n + 1] = e
    BY <1>0, <2>2, <2>4, Appended
  <2>6. ~ Log!Over(w)
    <3>1. w \notin Ended
      BY <2>1 DEF BudgetInv, Prospect
    <3> QED
      BY <2>2, <3>1 DEF Ended, Log!Over
  <2>7. Log!Truncated => r.kind = "terminal"
    <3>1. Log!Truncated => view[w].marked
      BY <2>2, <2>3 DEF Log!Truncated, JournalInv, Checkpoint, IsMark
    <3>2. view[w].marked => view[w].truncated
      BY DEF JournalInv, Checkpoint
    <3> QED
      BY <2>3, <3>1, <3>2
  <2>8. shown' = shown
    BY <1>1 DEF Write, watcher
  <2>9. Log!Put(e)
    BY <2>1, <2>2, <2>4, <2>6, <2>7, <2>8 DEF Log!Put
  <2>10. n + 1 \in DOMAIN file' \ DOMAIN file
    BY <2>2, <2>5
  <2> QED
    BY <2>5, <2>9, <2>10 DEF Log!Next
<1>2. CASE ReadEvents
  <2>0. FirstKnown /\ shown \in Lines /\ file \in Lines /\ file' = file
    BY <1>2 DEF Follows, JournalInv, JournalTypes, ReadEvents, disk
  <2>1. PICK n \in Nat, k \in Nat : n = Len(Readable) /\ k = Len(shown)
    BY <1>0, <2>0, ReadableIs DEF Lines
  <2>2. /\ shown' \in Lines /\ Len(shown') = IF k < n THEN n ELSE k
        /\ \A i \in 1 .. Len(shown') : shown'[i] = IF i <= k THEN shown[i] ELSE Readable[i]
    BY <1>0, <1>2, <2>1, PollShows
  <2>3. CASE file = <<>> /\ first # Nothing /\ shown = <<>>
    <3>1. Readable = <<first>> /\ first.seq = 1
      BY <2>0, <2>3 DEF Readable, FirstKnown
    <3>2. n = 1 /\ k = 0 /\ Readable[1] = first
      BY <2>1, <2>3, <3>1
    <3>3. Len(shown') = 1 /\ shown'[1] = first
      BY <2>2, <3>2
    <3> QED
      BY <2>0, <2>3, <3>1, <3>3 DEF Log!Next, Log!Glimpse
  <2>4. CASE file = <<>> /\ ~ (first # Nothing /\ shown = <<>>)
    <3>1. n <= k
      <4>1. CASE first = Nothing
        BY <2>1, <2>4, <4>1 DEF Readable
      <4>2. CASE first # Nothing
        <5>1. Readable = <<first>> /\ shown # <<>>
          BY <2>4, <4>2 DEF Readable
        <5>2. n = 1 /\ k # 0
          BY <2>0, <2>1, <5>1 DEF Lines
        <5> QED
          BY <5>2
      <4> QED
        BY <4>1, <4>2
    <3>2. Len(shown') = k /\ \A i \in 1 .. k : shown'[i] = shown[i]
      BY <2>1, <2>2, <3>1
    <3>3. shown' = shown
      BY <2>0, <2>1, <2>2, <3>2, SeqEqual DEF Lines
    <3> QED
      BY <2>0, <3>3 DEF Log!logVars
  <2>5. CASE file # <<>>
    <3>1. Readable = file /\ DOMAIN file = 1 .. n
      BY <2>0, <2>1, <2>5 DEF Readable, Lines
    <3>2. k <= n /\ \A i \in 1 .. k : i = 1 \/ shown[i] = file[i]
      <4>1. DOMAIN shown = 1 .. k
        BY <2>0, <2>1 DEF Lines
      <4>2. n # 0
        BY <2>0, <2>1, <2>5, <3>1 DEF Lines
      <4>3. \A i \in 1 .. k : i = 1 \/ (i \in 1 .. n /\ shown[i] = file[i])
        BY <3>1, <4>1 DEF Follows, ShownOnce
      <4>4. k = 0 \/ k = 1 \/ k \in 1 .. n
        BY <4>3
      <4> QED
        BY <4>2, <4>3, <4>4
    <3>3. DOMAIN shown' = 1 .. n
      BY <2>2, <3>2 DEF Lines
    <3>4. shown # <<>> <=> k # 0
      BY <2>0, <2>1 DEF Lines
    <3>5. ASSUME NEW i \in 1 .. n
          PROVE  shown'[i] = IF i = 1 /\ shown # <<>> THEN shown[1] ELSE file[i]
      BY <2>2, <3>1, <3>2, <3>4
    <3>6. shown' = [i \in 1 .. n |-> IF i = 1 /\ shown # <<>> THEN shown[1] ELSE file[i]]
      BY <2>2, <3>3, <3>5 DEF Lines
    <3> QED
      BY <2>0, <2>5, <3>1, <3>6 DEF Log!Next, Log!Show
  <2> QED
    BY <2>3, <2>4, <2>5
<1>3. CASE ~ ReadEvents /\ \A w \in Writers : ~ Write(w)
  <2>1. UNCHANGED <<file, shown>>
    BY <1>3 DEF Next, vars, disk, work, intake, watcher, Step, Failure, Open, OpenFails, FrameArrives,
       FrameIgnored, FrameBuffered, BufferOverflows, SetSession, Replay, Flush, Begin, Recover, Cut, Skip, WriteFails,
       SyncFails, Finalize, Close, Die, Repair, ReadStatus, ReadFails
  <2> QED
    BY <2>1 DEF Log!logVars
<1> QED
  BY <1>1, <1>2, <1>3

\* To its readers the journal is one log that only grows: records are numbered from one, a
\* writer's terminal record is its last, only terminal records follow the marker, and what a
\* spectator was shown is all there was, but for an attempt at the first record that it may
\* have seen in its place.
THEOREM JournalRefinement == Spec => ImplementsLog
<1>1. Init => Log!Init /\ Follows
  BY FollowsInitially DEF Init, Log!Init
<1> QED
  BY <1>1, JournalInvariance, BudgetInvariance, FollowsStep, LogStep, PTL DEF Spec, ImplementsLog, Log!Spec

-----------------------------------------------------------------------------
(* Where the frames are                                                     *)

Upto(n)      == [i \in 1 .. n |-> i]
Numbers(s)   == [i \in DOMAIN s |-> s[i].number]
RecordsOf(s) == [i \in DOMAIN s |-> s[i].record]

\* The frames of a record being written, of the records to come, of the text and of the buffer.
HeldOf(w, o, t, p, b) ==
  (IF o = Nothing THEN <<>> ELSE o.frames) \o FramesOf(w, t) \o p \o Numbers(b)

\* The numbers of the frames given, and one more.
LEMMA UptoGrows ==
  ASSUME NEW n \in Nat
  PROVE  Upto(n) \in Seq(Nat) /\ Upto(n + 1) = Upto(n) \o <<n + 1>>
<1>1. PICK u \in Seq(Nat) : u = Upto(n) /\ Len(u) = n /\ \A i \in 1 .. n : u[i] = i
  <2>1. /\ Upto(n) \in Seq(Nat) /\ Len(Upto(n)) = n /\ \A i \in 1 .. n : Upto(n)[i] = i
    BY DEF Upto
  <2> QED
    BY <2>1
<1>2. PICK v \in Seq(Nat) : v = Upto(n + 1) /\ Len(v) = n + 1 /\ \A i \in 1 .. (n + 1) : v[i] = i
  <2>1. /\ Upto(n + 1) \in Seq(Nat) /\ Len(Upto(n + 1)) = n + 1 /\ \A i \in 1 .. (n + 1) : Upto(n + 1)[i] = i
    BY DEF Upto
  <2> QED
    BY <2>1
<1>3. v = Append(u, n + 1)
  BY <1>1, <1>2
<1>4. Append(u, n + 1) = u \o <<n + 1>>
  OBVIOUS
<1> QED
  BY <1>1, <1>2, <1>3, <1>4

\* The frames of a buffer, from its head and at its end.
LEMMA NumbersOf ==
  ASSUME NEW s \in Seq(Taken)
  PROVE  /\ Numbers(s) \in Seq(Nat)
         /\ s = <<>> => Numbers(s) = <<>>
         /\ s # <<>> => Head(s).number \in Nat /\ Tail(s) \in Seq(Taken)
                        /\ Numbers(s) = <<Head(s).number>> \o Numbers(Tail(s))
         /\ \A f \in Taken : /\ f.number \in Nat /\ Append(s, f) \in Seq(Taken)
                             /\ Numbers(Append(s, f)) = Numbers(s) \o <<f.number>>
<1>0. ASSUME NEW t \in Seq(Taken)
      PROVE  Numbers(t) \in Seq(Nat) /\ Len(Numbers(t)) = Len(t) /\ \A i \in 1 .. Len(t) : Numbers(t)[i] = t[i].number
  <2>1. PICK n \in Nat : n = Len(t) /\ DOMAIN t = 1 .. n
    OBVIOUS
  <2>2. \A i \in 1 .. n : t[i] \in Taken
    BY <2>1
  <2>3. \A i \in 1 .. n : t[i].number \in Nat
    BY <2>2 DEF Taken
  <2>4. PICK q : q = [i \in 1 .. n |-> t[i].number]
    OBVIOUS
  <2>5. q = Numbers(t)
    BY <2>1, <2>4 DEF Numbers
  <2>6. q \in Seq(Nat) /\ Len(q) = n
    BY <2>3, <2>4
  <2> QED
    BY <2>1, <2>4, <2>5, <2>6
<1>1. ASSUME s # <<>>
      PROVE  Head(s).number \in Nat /\ Tail(s) \in Seq(Taken) /\ Numbers(s) = <<Head(s).number>> \o Numbers(Tail(s))
  <2>1. Head(s) \in Taken /\ Tail(s) \in Seq(Taken) /\ Len(s) \in Nat \ {0} /\ Len(Tail(s)) = Len(s) - 1
        /\ Head(s) = s[1] /\ \A i \in 1 .. (Len(s) - 1) : Tail(s)[i] = s[i + 1]
    BY <1>1
  <2>2. Head(s).number \in Nat
    BY <2>1 DEF Taken
  <2>3. PICK x \in Seq(Nat) : x = Numbers(s) /\ Len(x) = Len(s) /\ \A i \in 1 .. Len(s) : x[i] = s[i].number
    BY <1>0
  <2>4. PICK y \in Seq(Nat) : y = Numbers(Tail(s)) /\ Len(y) = Len(s) - 1
                              /\ \A i \in 1 .. (Len(s) - 1) : y[i] = Tail(s)[i].number
    BY <1>0, <2>1
  <2>5. PICK h \in Nat : h = Head(s).number
    BY <2>2
  <2>6. x = <<h>> \o y
    <3>1. x[1] = h /\ \A i \in 1 .. (Len(s) - 1) : x[i + 1] = y[i]
      BY <2>1, <2>3, <2>4, <2>5
    <3> QED
      BY <2>1, <2>3, <2>4, <3>1
  <2> QED
    BY <2>1, <2>2, <2>3, <2>4, <2>5, <2>6
<1>2. ASSUME NEW f \in Taken
      PROVE  f.number \in Nat /\ Append(s, f) \in Seq(Taken) /\ Numbers(Append(s, f)) = Numbers(s) \o <<f.number>>
  <2>1. /\ Append(s, f) \in Seq(Taken) /\ Len(s) \in Nat /\ Len(Append(s, f)) = Len(s) + 1
        /\ Append(s, f)[Len(s) + 1] = f /\ \A i \in 1 .. Len(s) : Append(s, f)[i] = s[i]
    OBVIOUS
  <2>2. f.number \in Nat
    BY DEF Taken
  <2>3. PICK x \in Seq(Nat) : x = Numbers(s) /\ Len(x) = Len(s) /\ \A i \in 1 .. Len(s) : x[i] = s[i].number
    BY <1>0
  <2>4. PICK y \in Seq(Nat) : y = Numbers(Append(s, f)) /\ Len(y) = Len(s) + 1
                              /\ \A i \in 1 .. (Len(s) + 1) : y[i] = Append(s, f)[i].number
    BY <1>0, <2>1
  <2>5. PICK h \in Nat : h = f.number
    BY <2>2
  <2>6. y = x \o <<h>>
    <3>1. y[Len(s) + 1] = h /\ \A i \in 1 .. Len(s) : y[i] = x[i]
      BY <2>1, <2>3, <2>4, <2>5
    <3> QED
      BY <2>1, <2>3, <2>4, <3>1
  <2> QED
    BY <2>1, <2>2, <2>3, <2>4, <2>5, <2>6
<1>3. s = <<>> => Numbers(s) = <<>>
  BY DEF Numbers
<1> QED
  BY <1>0, <1>1, <1>2, <1>3

\* The records of a file, and of a longer one.
LEMMA RecordsAre ==
  ASSUME NEW s \in Lines
  PROVE  /\ RecordsOf(s) \in Seq(Line)
         /\ \A e \in [seq : Nat, record : Line] : RecordsOf(Append(s, e)) = RecordsOf(s) \o <<e.record>>
<1> DEFINE Row == [seq : Nat, record : Line]
<1>9. \A e \in Row : e.record \in Line
  OBVIOUS
<1>8. s \in Seq(Row)
  BY DEF Lines
<1> HIDE DEF Row
<1>0. ASSUME NEW t \in Seq(Row)
      PROVE  RecordsOf(t) \in Seq(Line) /\ Len(RecordsOf(t)) = Len(t) /\ \A i \in 1 .. Len(t) : RecordsOf(t)[i] = t[i].record
  <2>1. PICK n \in Nat : n = Len(t) /\ DOMAIN t = 1 .. n
    OBVIOUS
  <2>2. \A i \in 1 .. n : t[i] \in Row
    BY <2>1
  <2>3. \A i \in 1 .. n : t[i].record \in Line
    BY <1>9, <2>2
  <2>4. PICK q : q = [i \in 1 .. n |-> t[i].record]
    OBVIOUS
  <2>5. q = RecordsOf(t)
    BY <2>1, <2>4 DEF RecordsOf
  <2>6. q \in Seq(Line) /\ Len(q) = n
    BY <2>3, <2>4
  <2> QED
    BY <2>1, <2>4, <2>5, <2>6
<1>2. ASSUME NEW f \in Row
      PROVE  RecordsOf(Append(s, f)) = RecordsOf(s) \o <<f.record>>
  <2>1. /\ Append(s, f) \in Seq(Row) /\ Len(s) \in Nat /\ Len(Append(s, f)) = Len(s) + 1
        /\ Append(s, f)[Len(s) + 1] = f /\ \A i \in 1 .. Len(s) : Append(s, f)[i] = s[i]
    BY <1>8
  <2>3. PICK x \in Seq(Line) : x = RecordsOf(s) /\ Len(x) = Len(s) /\ \A i \in 1 .. Len(s) : x[i] = s[i].record
    BY <1>0, <1>8
  <2>4. PICK y \in Seq(Line) : y = RecordsOf(Append(s, f)) /\ Len(y) = Len(s) + 1
                              /\ \A i \in 1 .. (Len(s) + 1) : y[i] = Append(s, f)[i].record
    BY <1>0, <2>1
  <2>5. PICK h \in Line : h = f.record
    BY <1>9
  <2>6. y = x \o <<h>>
    <3>1. y[Len(s) + 1] = h /\ \A i \in 1 .. Len(s) : y[i] = x[i]
      BY <2>1, <2>3, <2>4, <2>5
    <3>2. y = Append(x, h)
      BY <2>1, <2>3, <2>4, <3>1
    <3>3. Append(x, h) = x \o <<h>>
      OBVIOUS
    <3> QED
      BY <3>2, <3>3
  <2> QED
    BY <2>3, <2>4, <2>5, <2>6
<1> QED
  BY <1>0, <1>2, <1>8 DEF Row

\* A record is stored behind those before it.
LEMMA StoredGrows ==
  ASSUME NEW w, NEW s \in Lines, NEW e \in [seq : Nat, record : Line]
  PROVE  /\ FramesOf(w, RecordsOf(s)) \in Seq(Nat)
         /\ FramesOf(w, RecordsOf(Append(s, e))) =
              FramesOf(w, RecordsOf(s)) \o (IF e.record.by = w THEN e.record.frames ELSE <<>>)
<1>1. e.record \in Line
  OBVIOUS
<1>2. PICK r \in Line : r = e.record
  BY <1>1
<1>3. RecordsOf(s) \in Seq(Line) /\ RecordsOf(Append(s, e)) = RecordsOf(s) \o <<r>>
  BY <1>2, RecordsAre
<1>4. PICK q \in Seq(Line) : q = <<r>>
  <2>1. <<r>> \in Seq(Line)
    OBVIOUS
  <2> QED
    BY <2>1, Zenon
<1>5. FramesOf(w, RecordsOf(s) \o q) = FramesOf(w, RecordsOf(s)) \o FramesOf(w, q)
  BY <1>3, FramesConcat, Zenon
<1> QED
  BY <1>2, <1>3, <1>4, <1>5, FramesOne, FramesConcat

Text == Seq(Nat)
Join(x, y) == x \o y

\* Texts are joined in any grouping.
LEMMA Joining ==
  /\ \A x, y \in Text : Join(x, y) \in Text
  /\ \A x \in Text : Join(x, <<>>) = x /\ Join(<<>>, x) = x
  /\ \A x, y, z \in Text : Join(Join(x, y), z) = Join(x, Join(y, z))
  /\ <<>> \in Text /\ \A n \in Nat : <<n>> \in Text
<1>1. \A x, y, z \in Seq(Nat) : (x \o y) \o z = x \o (y \o z)
  BY ConcatAssociative
<1>2. \A x, y \in Seq(Nat) : x \o y \in Seq(Nat)
  OBVIOUS
<1>3. \A x \in Seq(Nat) : x \o <<>> = x /\ <<>> \o x = x
  BY ConcatEmptySeq
<1>4. <<>> \in Text /\ \A n \in Nat : <<n>> \in Text
  BY DEF Text
<1> QED
  BY <1>1, <1>2, <1>3, <1>4, Zenon DEF Text, Join

\* All frames are stored or held, in the order of their numbers.
Whole(w, s, o, t, p, b, n) == Join(FramesOf(w, RecordsOf(s)), HeldOf(w, o, t, p, b)) = Upto(n)

\* The texts that the frames are in.
LEMMA Texts ==
  ASSUME NEW w, NEW s \in Lines, NEW t \in Seq(Line), NEW b \in Seq(Taken)
  PROVE  FramesOf(w, RecordsOf(s)) \in Text /\ FramesOf(w, t) \in Text /\ Numbers(b) \in Text
  BY RecordsAre, FramesConcat, NumbersOf DEF Text

\* What is held, record by record, text and buffer.
LEMMA HeldIs ==
  /\ \A w, t, p, b : p \in Text /\ FramesOf(w, t) \in Text /\ Numbers(b) \in Text =>
       HeldOf(w, Nothing, t, p, b) = Join(Join(FramesOf(w, t), p), Numbers(b))
  /\ \A w, t, p, b, o : p \in Text /\ FramesOf(w, t) \in Text /\ Numbers(b) \in Text /\ o \in Line /\ o # Nothing =>
       HeldOf(w, o, t, p, b) = Join(o.frames, Join(Join(FramesOf(w, t), p), Numbers(b)))
<1> SUFFICES ASSUME NEW w, NEW t, NEW p \in Text, NEW b, FramesOf(w, t) \in Text, Numbers(b) \in Text
             PROVE  /\ HeldOf(w, Nothing, t, p, b) = Join(Join(FramesOf(w, t), p), Numbers(b))
                    /\ \A o \in Line : o # Nothing =>
                         HeldOf(w, o, t, p, b) = Join(o.frames, Join(Join(FramesOf(w, t), p), Numbers(b)))
  OBVIOUS
<1> DEFINE f == FramesOf(w, t)
           m == Numbers(b)
<1>1. f \in Text /\ m \in Text /\ <<>> \in Text
  BY Joining
<1>2. ASSUME NEW g \in Text PROVE Join(Join(Join(g, f), p), m) = Join(g, Join(Join(f, p), m))
  <2> HIDE DEF f, m
  <2> QED
    BY <1>1, Joining
<1>3. HeldOf(w, Nothing, t, p, b) = Join(Join(f, p), m)
  <2>1. HeldOf(w, Nothing, t, p, b) = Join(Join(Join(<<>>, f), p), m)
    BY DEF HeldOf, Join
  <2>2. Join(<<>>, f) = f
    BY <1>1, Joining
  <2> QED
    BY <2>1, <2>2
<1>4. ASSUME NEW o \in Line, o # Nothing PROVE HeldOf(w, o, t, p, b) = Join(o.frames, Join(Join(f, p), m))
  <2>1. o.frames \in Text
    BY DEF Line, Text
  <2>2. HeldOf(w, o, t, p, b) = Join(Join(Join(o.frames, f), p), m)
    BY <1>4 DEF HeldOf, Join
  <2> QED
    BY <1>2, <2>1, <2>2
<1> QED
  BY <1>3, <1>4

\* What happens to the frames of a writer between two records.
LEMMA WholeTakes ==
  ASSUME NEW w, NEW s \in Lines, NEW p \in Text, NEW b \in Seq(Taken), NEW n \in Nat,
         Whole(w, s, Nothing, <<>>, p, b, n), NEW t \in Seq(Line), NEW q \in Text
  PROVE  /\ \A f \in Taken : f.number = n + 1 => Whole(w, s, Nothing, <<>>, p, Append(b, f), n + 1)
         /\ b = <<>> /\ Join(FramesOf(w, t), q) = Join(p, <<n + 1>>) => Whole(w, s, Nothing, t, q, b, n + 1)
         /\ b # <<>> /\ Join(FramesOf(w, t), q) = Join(p, <<Head(b).number>>) => Whole(w, s, Nothing, t, q, Tail(b), n)
         /\ FramesOf(w, t) = p => Whole(w, s, Nothing, t, <<>>, b, n)
<1>0. PICK x \in Text : x = FramesOf(w, RecordsOf(s))
  BY Texts
<1>1. PICK u : u = Upto(n) /\ Upto(n + 1) = Join(u, <<n + 1>>)
  BY UptoGrows DEF Join
<1>2. PICK m \in Text : m = Numbers(b)
  BY Texts
<1>4. PICK one \in Text : one = <<n + 1>>
  <2>1. <<n + 1>> \in Text
    BY DEF Text
  <2> QED
    BY <2>1
<1>5. PICK f \in Text : f = FramesOf(w, t)
  BY Texts
<1>11. <<>> \in Text /\ <<>> = FramesOf(w, <<>>) /\ Join(<<>>, p) = p
  BY Joining, FramesOne
<1>3. Join(x, Join(p, m)) = u
  <2>2. HeldOf(w, Nothing, <<>>, p, b) = Join(Join(<<>>, p), m)
    BY <1>2, <1>11, HeldIs
  <2> QED
    BY <1>0, <1>1, <1>11, <2>2 DEF Whole
<1>6. Join(p, <<>>) = p /\ Join(m, one) \in Text /\ Join(p, one) \in Text
  BY Joining
<1>12. Join(Join(x, Join(p, m)), one) = Join(x, Join(p, Join(m, one)))
  BY Joining
<1>7. ASSUME NEW g \in Taken, g.number = n + 1 PROVE Whole(w, s, Nothing, <<>>, p, Append(b, g), n + 1)
  <2>1. Join(m, one) = Numbers(Append(b, g))
    BY <1>2, <1>4, <1>7, NumbersOf DEF Join
  <2>3. HeldOf(w, Nothing, <<>>, p, Append(b, g)) = Join(Join(<<>>, p), Join(m, one))
    BY <1>6, <1>11, <2>1, HeldIs
  <2> QED
    BY <1>0, <1>1, <1>3, <1>4, <1>11, <1>12, <2>3 DEF Whole
<1>8. ASSUME b = <<>>, Join(f, q) = Join(p, one) PROVE Whole(w, s, Nothing, t, q, b, n + 1)
  <2>1. m = <<>>
    BY <1>2, <1>8, NumbersOf
  <2>2. HeldOf(w, Nothing, t, q, b) = Join(Join(f, q), m)
    BY <1>2, <1>5, HeldIs
  <2>3. Join(<<>>, one) = one /\ Join(Join(p, one), <<>>) = Join(p, one)
    BY <1>6, Joining
  <2> QED
    BY <1>0, <1>1, <1>3, <1>4, <1>8, <1>12, <2>1, <2>2, <2>3 DEF Whole
<1>9. ASSUME b # <<>>, Join(f, q) = Join(p, <<Head(b).number>>) PROVE Whole(w, s, Nothing, t, q, Tail(b), n)
  <2>1. Head(b).number \in Nat /\ Tail(b) \in Seq(Taken) /\ m = Join(<<Head(b).number>>, Numbers(Tail(b)))
    BY <1>2, <1>9, NumbersOf DEF Join
  <2>2. PICK h \in Text : h = <<Head(b).number>>
    BY <2>1, Joining
  <2>3. PICK y \in Text : y = Numbers(Tail(b))
    BY <2>1, Texts
  <2>4. Join(Join(p, h), y) = Join(p, Join(h, y))
    BY Joining
  <2>5. HeldOf(w, Nothing, t, q, Tail(b)) = Join(Join(f, q), y)
    BY <1>5, <2>3, HeldIs
  <2> QED
    BY <1>0, <1>1, <1>3, <1>9, <2>1, <2>2, <2>3, <2>4, <2>5 DEF Whole
<1>10. ASSUME f = p PROVE Whole(w, s, Nothing, t, <<>>, b, n)
  <2>1. HeldOf(w, Nothing, t, <<>>, b) = Join(Join(f, <<>>), m)
    BY <1>2, <1>5, <1>11, HeldIs
  <2> QED
    BY <1>0, <1>1, <1>3, <1>6, <1>10, <2>1 DEF Whole
<1> QED
  BY <1>4, <1>5, <1>7, <1>8, <1>9, <1>10

\* The record to be written next goes from the records to come to the lock, and from
\* there to the file.
LEMMA WholeMoves ==
  ASSUME NEW w, NEW s \in Lines, NEW o \in Line \cup {Nothing}, NEW t \in Seq(Line),
         NEW p \in Text, NEW b \in Seq(Taken), NEW n, Whole(w, s, o, t, p, b, n),
         NEW e \in [seq : Nat, record : Line]
  PROVE  /\ o = Nothing /\ t # <<>> /\ Head(t) # Nothing /\ Head(t).by = w => Whole(w, s, Head(t), Tail(t), p, b, n)
         /\ o # Nothing /\ o.by = w /\ e.record = o => Whole(w, Append(s, e), Nothing, t, p, b, n)
         /\ e.record.by # w => Whole(w, Append(s, e), o, t, p, b, n)
<1>0. PICK x \in Text : x = FramesOf(w, RecordsOf(s))
  BY Texts
<1>2. PICK m \in Text : m = Numbers(b)
  BY Texts
<1>3. PICK f \in Text : f = FramesOf(w, t)
  BY Texts
<1>4. Join(Join(f, p), m) \in Text
  BY Joining
<1>5. ASSUME o = Nothing, t # <<>>, Head(t) # Nothing, Head(t).by = w
      PROVE  Whole(w, s, Head(t), Tail(t), p, b, n)
  <2>0. Head(t) \in Line /\ Tail(t) \in Seq(Line) /\ t = <<Head(t)>> \o Tail(t) /\ <<Head(t)>> \in Seq(Line)
    BY <1>5
  <2>5. PICK g \in Text : g = Head(t).frames
    BY <2>0 DEF Line, Text
  <2>6. PICK y \in Text : y = FramesOf(w, Tail(t))
    BY <2>0, Texts
  <2>7. f = Join(g, y)
    <3>1. FramesOf(w, <<Head(t)>> \o Tail(t)) = FramesOf(w, <<Head(t)>>) \o FramesOf(w, Tail(t))
      BY <2>0, FramesConcat, Zenon
    <3>2. FramesOf(w, <<Head(t)>>) = g
      BY <1>5, <2>0, <2>5, FramesOne
    <3> QED
      BY <1>3, <2>0, <2>6, <3>1, <3>2, Zenon DEF Join
  <2>8. Join(Join(Join(g, y), p), m) = Join(g, Join(Join(y, p), m))
    BY Joining
  <2>9. HeldOf(w, Nothing, t, p, b) = Join(Join(f, p), m)
    BY <1>2, <1>3, HeldIs
  <2>10. HeldOf(w, Head(t), Tail(t), p, b) = Join(g, Join(Join(y, p), m))
    BY <1>2, <1>5, <2>0, <2>5, <2>6, HeldIs
  <2> QED
    BY <1>5, <2>7, <2>8, <2>9, <2>10 DEF Whole
<1>6. ASSUME o # Nothing, o.by = w, e.record = o
      PROVE  Whole(w, Append(s, e), Nothing, t, p, b, n)
  <2>1. o \in Line
    BY <1>6
  <2>2. FramesOf(w, RecordsOf(Append(s, e))) = Join(x, o.frames)
    BY <1>0, <1>6, StoredGrows DEF Join
  <2>5. o.frames \in Text
    BY <2>1 DEF Line, Text
  <2>3. /\ HeldOf(w, o, t, p, b) = Join(o.frames, Join(Join(f, p), m))
        /\ HeldOf(w, Nothing, t, p, b) = Join(Join(f, p), m)
    BY <1>2, <1>3, <1>6, <2>1, HeldIs
  <2>4. Join(Join(x, o.frames), Join(Join(f, p), m)) = Join(x, Join(o.frames, Join(Join(f, p), m)))
    BY <1>4, <2>5, Joining
  <2> QED
    BY <1>0, <2>2, <2>3, <2>4 DEF Whole
<1>7. ASSUME e.record.by # w PROVE Whole(w, Append(s, e), o, t, p, b, n)
  <2>1. FramesOf(w, RecordsOf(Append(s, e))) = Join(x, <<>>)
    BY <1>0, <1>7, StoredGrows DEF Join
  <2>2. Join(x, <<>>) = x
    BY Joining
  <2> QED
    BY <1>0, <2>1, <2>2 DEF Whole
<1> QED
  BY <1>5, <1>6, <1>7

-----------------------------------------------------------------------------
(* Loss                                                                     *)

Full      == Bytes(file) + MarkSize > MaxBytes - Reserve
Single(w) == \A v \in Writers \ {w} : mode[v] = "new"

\* A writer that has not opened the file has nothing to write; a disabled one has said
\* so; a truncation that left no marker was for want of room; and as long as no peer
\* has opened the file, a writer in order need not read its own records again.
Fresh(w) == mode[w] = "new" => todo[w] = <<>> /\ out[w] = Nothing /\ ~ view[w].truncated
Noted(w) == Disabled(w) => degraded[w].noted
Kept(w)  == view[w].truncated /\ ~ view[w].marked => Full
Sole(w)  == Single(w) /\ mode[w] \notin {"new", "dead"} /\ ~ degraded[w].noted =>
              ~ torn /\ view[w].stat.known /\ view[w].stat.stamp = stamp
Known(w) == Fresh(w) /\ Noted(w) /\ Kept(w) /\ Sole(w)

\* Where all frames are, or what tells that some are lost.
Complete(w)  == Whole(w, file, out[w], todo[w], pending[w], buffer[w], given[w])
Accounted(w) ==
  \/ Complete(w)
  \/ degraded[w].noted \/ mode[w] = "dead" \/ out[w].kind = "journal.truncated" \/ view[w].marked
  \/ Full /\ (view[w].truncated \/ ~ Single(w))

LossInv == \A w \in Writers : Known(w) /\ Accounted(w)

\* A step of w is its own affair.
LEMMA OwnAffairs ==
  ASSUME JournalTypes, Lives, NEW w \in Writers, Step(w) \/ Failure(w), NEW v \in Writers, v # w
  PROVE  UNCHANGED <<mode[v], degraded[v], todo[v], out[v], view[v], given[v], buffer[v], pending[v]>>
<1> USE DEF disk, work, intake, watcher, Step, Failure, Open, OpenFails, FrameArrives, FrameIgnored, FrameBuffered,
     BufferOverflows, SetSession, Replay, Flush, Begin, Skip, Write, WriteFails, SyncFails, Finalize,
     Close, Die, Give, Degrade
<1>1. mode' = mode \/ \E x : mode' = [mode EXCEPT ![w] = x]
  OBVIOUS
<1>2. degraded' = degraded \/ \E x : degraded' = [degraded EXCEPT ![w] = x]
  BY DEF Recover, Decide
<1>3. todo' = todo \/ \E x : todo' = [todo EXCEPT ![w] = x]
  BY DEF Ingest, IngestEvent, IngestDelta
<1>4. out' = out \/ \E x : out' = [out EXCEPT ![w] = x]
  BY DEF Recover, Decide
<1>5. view' = view \/ \E x : view' = [view EXCEPT ![w] = x]
  BY DEF Recover, Decide
<1>6. given' = given \/ \E x : given' = [given EXCEPT ![w] = x]
  OBVIOUS
<1>7. buffer' = buffer \/ \E x : buffer' = [buffer EXCEPT ![w] = x]
  OBVIOUS
<1>8. pending' = pending \/ \E x : pending' = [pending EXCEPT ![w] = x]
  BY DEF Ingest, IngestEvent, IngestDelta
<1> QED
  BY <1>1, <1>2, <1>3, <1>4, <1>5, <1>6, <1>7, <1>8 DEF JournalTypes, Lives

\* Whoever acts has opened the file.
LEMMA Opened ==
  ASSUME Lives, NEW w \in Writers, Fresh(w), Step(w) \/ Failure(w)
  PROVE  mode'[w] # "new" /\ (mode[w] = "new" => Open(w) \/ OpenFails(w))
<1> USE DEF disk, work, intake, watcher
<1>1. CASE mode[w] # "new"
  <2>1. mode' = mode \/ \E x \in {"open", "closing", "closed", "dead"} : mode' = [mode EXCEPT ![w] = x]
    BY DEF Step, Failure, Open, OpenFails, FrameArrives, FrameIgnored, FrameBuffered,
     BufferOverflows, SetSession, Replay, Flush, Begin, Skip, Write, WriteFails, SyncFails, Finalize, Close, Die
  <2> QED
    BY <1>1, <2>1 DEF Lives
<1>2. CASE mode[w] = "new"
  <2>1. Open(w) \/ OpenFails(w)
    BY <1>2 DEF Fresh, Step, Failure, FrameArrives, FrameIgnored, FrameBuffered, Give, Idle,
     BufferOverflows, SetSession, Replay, Flush, Begin, Skip, Write, WriteFails, SyncFails, Finalize, Close, Die
  <2>2. mode' = [mode EXCEPT ![w] = "open"]
    BY <2>1 DEF Open, OpenFails
  <2> QED
    BY <2>1, <2>2 DEF Lives
<1> QED
  BY <1>1, <1>2

\* A full file stays full.
LEMMA FullStays ==
  ASSUME JournalTypes, NEW e \in [seq : Nat, record : Line], file' = Append(file, e), Full
  PROVE  Full'
<1>1. Bytes(file) \in Nat /\ Bytes(file') = Bytes(file) + e.record.size /\ e.record.size \in Nat
  BY BytesGrow DEF JournalTypes, Line
<1> QED
  BY <1>1, JournalAssumption DEF Full, MarkSize

\* What a step of w means for another writer.
LEMMA PeerStands ==
  ASSUME JournalTypes, NEW w \in Writers, NEW v \in Writers, v # w, Known(v), Accounted(v), mode'[w] # "new",
         UNCHANGED <<mode[v], degraded[v], todo[v], out[v], view[v], given[v], buffer[v], pending[v]>>,
         UNCHANGED file \/ \E e \in [seq : Nat, record : Line] : file' = Append(file, e) /\ e.record.by # v
  PROVE  Known(v)' /\ Accounted(v)'
<1>1. Full => Full'
  BY FullStays DEF Full
<1>2. ~ Single(v)'
  BY DEF Single
<1>3. Complete(v) => Complete(v)'
  <2>1. CASE UNCHANGED file
    BY <2>1 DEF Complete
  <2>2. ASSUME NEW e \in [seq : Nat, record : Line], file' = Append(file, e), e.record.by # v, Complete(v)
        PROVE  Complete(v)'
    <3>1. /\ file \in Lines /\ out[v] \in Line \cup {Nothing} /\ todo[v] \in Seq(Line)
          /\ pending[v] \in Text /\ buffer[v] \in Seq(Taken)
      <4>1. todo[v] \in Seq(Waiting) /\ Waiting \subseteq Line
        BY DEF JournalTypes, Waiting
      <4> HIDE DEF Waiting
      <4>2. todo[v] \in Seq(Line)
        BY <4>1
      <4> QED
        BY <4>2 DEF JournalTypes, Text
    <3>2. Whole(v, Append(file, e), out[v], todo[v], pending[v], buffer[v], given[v])
      BY <2>2, <3>1, WholeMoves DEF Complete
    <3> QED
      BY <2>2, <3>2 DEF Complete
  <2> QED
    BY <2>1, <2>2
<1>4. Known(v)'
  BY <1>1, <1>2 DEF Known, Fresh, Noted, Disabled, Kept, Sole
<1>5. Accounted(v)'
  BY <1>1, <1>2, <1>3 DEF Accounted
<1> QED
  BY <1>4, <1>5


\* A writer that takes frames in loses none, unless it says so.
LEMMA IntakeComplete ==
  ASSUME JournalTypes, Lives, NEW w \in Writers, Intakes(w), Noted(w), ~ degraded'[w].noted, Complete(w)
  PROVE  Complete(w)'
<1> USE DEF disk, work, intake, watcher
<1>0. /\ given[w] \in Nat /\ buffer[w] \in Seq(Taken) /\ pending[w] \in Text /\ file \in Lines
      /\ DOMAIN given = Writers /\ DOMAIN buffer = Writers /\ DOMAIN pending = Writers /\ DOMAIN todo = Writers
  BY DEF JournalTypes, Text
<1>1. UNCHANGED <<file, out>>
  BY IntakeKeeps DEF Aside
<1>2. ~ (OpenFails(w) \/ SyncFails(w) \/ BufferOverflows(w))
  BY Degrading, Overflowing DEF OpenFails, SyncFails, Failures, Lives
<1>3. ~ Disabled(w)
  <2>1. CASE degraded' = degraded
    BY <2>1 DEF Noted
  <2> QED
    BY <1>2, <2>1 DEF Intakes, FrameArrives, FrameIgnored, FrameBuffered, SetSession, Replay, Flush, Skip,
                Finalize, Close
<1>4. ASSUME NEW s \in Seq(Line), NEW p \in Text, NEW b, NEW n,
             todo'[w] = s, pending'[w] = p, buffer'[w] = b, given'[w] = n, Whole(w, file, out[w], s, p, b, n)
      PROVE  Complete(w)'
  BY <1>1, <1>4 DEF Complete
<1>5. ASSUME out[w] = Nothing, todo[w] = <<>>
      PROVE  Whole(w, file, Nothing, <<>>, pending[w], buffer[w], given[w])
  BY <1>5 DEF Complete
<1>6. <<>> \in Seq(Line) /\ <<>> \in Text
  BY DEF Text
<1>7. CASE FrameArrives(w)
  <2>1. PICK kind \in {"small", "large", "delta"} : Ingest(w, NextFrame(w, kind))
    BY <1>7 DEF FrameArrives
  <2>2. PICK f \in Taken : f = NextFrame(w, kind) /\ f.number = given[w] + 1
    <3>1. NextFrame(w, kind) \in Taken /\ NextFrame(w, kind).number = given[w] + 1
      BY <1>0 DEF NextFrame, Taken
    <3> QED
      BY <3>1
  <2>3. PICK s \in Seq(Plain(w)), p \in Seq(Nat) :
          /\ todo' = [todo EXCEPT ![w] = s] /\ pending' = [pending EXCEPT ![w] = p]
          /\ FramesOf(w, s) \o p = pending[w] \o <<f.number>>
    BY <2>1, <2>2, TakingIn
  <2>4. out[w] = Nothing /\ todo[w] = <<>> /\ buffer[w] = <<>> /\ buffer' = buffer /\ given'[w] = given[w] + 1
    BY <1>0, <1>7 DEF FrameArrives, Give, Idle, Replayed
  <2>5. todo'[w] = s /\ pending'[w] = p /\ s \in Seq(Line) /\ p \in Text
    BY <1>0, <2>3, PlainWaits DEF Text
  <2>6. Join(FramesOf(w, s), p) = Join(pending[w], <<given[w] + 1>>)
    BY <2>2, <2>3, Zenon DEF Join
  <2>7. Whole(w, file, Nothing, s, p, buffer[w], given[w] + 1)
    BY <1>0, <1>5, <2>4, <2>5, <2>6, WholeTakes
  <2> QED
    BY <1>4, <2>4, <2>5, <2>7
<1>8. CASE FrameBuffered(w)
  <2>1. PICK kind \in {"small", "delta"} : buffer' = [buffer EXCEPT ![w] = Append(@, NextFrame(w, kind))]
    BY <1>8 DEF FrameBuffered
  <2>2. PICK f \in Taken : f = NextFrame(w, kind) /\ f.number = given[w] + 1
    <3>1. NextFrame(w, kind) \in Taken /\ NextFrame(w, kind).number = given[w] + 1
      BY <1>0 DEF NextFrame, Taken
    <3> QED
      BY <3>1
  <2>3. /\ out[w] = Nothing /\ todo[w] = <<>> /\ UNCHANGED <<todo, pending>> /\ given'[w] = given[w] + 1
        /\ buffer'[w] = Append(buffer[w], f)
    BY <1>0, <1>8, <2>1, <2>2 DEF FrameBuffered, Give, Idle
  <2>4. Whole(w, file, Nothing, <<>>, pending[w], Append(buffer[w], f), given[w] + 1)
    BY <1>0, <1>5, <1>6, <2>2, <2>3, WholeTakes
  <2> QED
    BY <1>0, <1>4, <1>6, <2>3, <2>4
<1>9. CASE Replay(w)
  <2>1. PICK f \in Taken : f = Head(buffer[w]) /\ Ingest(w, f)
    BY <1>0, <1>3, <1>9 DEF Replay
  <2>2. PICK s \in Seq(Plain(w)), p \in Seq(Nat) :
          /\ todo' = [todo EXCEPT ![w] = s] /\ pending' = [pending EXCEPT ![w] = p]
          /\ FramesOf(w, s) \o p = pending[w] \o <<f.number>>
    BY <2>1, TakingIn
  <2>3. /\ out[w] = Nothing /\ todo[w] = <<>> /\ buffer[w] # <<>> /\ buffer'[w] = Tail(buffer[w])
        /\ given'[w] = given[w]
    BY <1>0, <1>9 DEF Replay, Idle
  <2>4. todo'[w] = s /\ pending'[w] = p /\ s \in Seq(Line) /\ p \in Text
    BY <1>0, <2>2, PlainWaits DEF Text
  <2>5. Join(FramesOf(w, s), p) = Join(pending[w], <<Head(buffer[w]).number>>)
    BY <2>1, <2>2, Zenon DEF Join
  <2>6. Whole(w, file, Nothing, s, p, Tail(buffer[w]), given[w])
    BY <1>0, <1>5, <2>3, <2>4, <2>5, WholeTakes
  <2> QED
    BY <1>4, <2>3, <2>4, <2>6
<1>10. CASE Flush(w)
  <2>1. PICK s \in Seq(Plain(w)) : s = Delta(w, pending[w]) /\ FramesOf(w, s) = pending[w]
    BY <1>0, Gathered DEF Text
  <2>2. /\ out[w] = Nothing /\ todo[w] = <<>> /\ todo'[w] = s /\ pending'[w] = <<>> /\ UNCHANGED <<buffer, given>>
        /\ s \in Seq(Line)
    BY <1>0, <1>10, <2>1, PlainWaits DEF Flush, Idle
  <2>3. Whole(w, file, Nothing, s, <<>>, buffer[w], given[w])
    BY <1>0, <1>5, <2>1, <2>2, WholeTakes
  <2> QED
    BY <1>4, <1>6, <2>2, <2>3
<1>11. CASE Finalize(w)
  <2>1. PICK d \in Seq(Plain(w)) : d = Delta(w, pending[w]) /\ FramesOf(w, d) = pending[w]
    BY <1>0, Gathered DEF Text
  <2>2. PICK r \in Line : r = LastOf(w) /\ r.frames = <<>>
    <3>1. LastOf(w) \in Line /\ LastOf(w).frames = <<>>
      BY DEF LastOf, Rec, MarkSize, Line, Kinds
    <3> QED
      BY <3>1
  <2>3. d \in Seq(Line) /\ <<r>> \in Seq(Line)
    BY <2>1, <2>2, PlainWaits
  <2>4. PICK s \in Seq(Line) : s = Append(d, r) /\ s = d \o <<r>>
    <3>1. Append(d, r) \in Seq(Line) /\ Append(d, r) = d \o <<r>>
      BY <2>3
    <3> QED
      BY <3>1
  <2>5. FramesOf(w, s) = pending[w]
    <3>1. FramesOf(w, d \o <<r>>) = FramesOf(w, d) \o FramesOf(w, <<r>>)
      BY <2>3, FramesConcat, Zenon
    <3>2. FramesOf(w, <<r>>) = <<>>
      BY <2>2, FramesOne
    <3>3. Join(pending[w], <<>>) = pending[w]
      BY <1>0, Joining
    <3> QED
      BY <2>1, <2>4, <3>1, <3>2, <3>3, Zenon DEF Join
  <2>6. out[w] = Nothing /\ todo[w] = <<>> /\ todo'[w] = s /\ pending'[w] = <<>> /\ UNCHANGED <<buffer, given>>
    BY <1>0, <1>11, <2>1, <2>2, <2>4 DEF Finalize, Idle, LastOf
  <2>7. Whole(w, file, Nothing, s, <<>>, buffer[w], given[w])
    BY <1>0, <1>5, <2>4, <2>5, <2>6, WholeTakes
  <2> QED
    BY <1>4, <1>6, <2>4, <2>6, <2>7
<1>12. CASE SetSession(w) \/ Close(w)
  BY <1>1, <1>12 DEF SetSession, Close, Complete
<1>13. ~ FrameIgnored(w) /\ ~ Skip(w)
  BY <1>3 DEF FrameIgnored, Skip
<1> QED
  BY <1>2, <1>7, <1>8, <1>9, <1>10, <1>11, <1>12, <1>13 DEF Intakes

\* Taking frames in, ending, closing and failing there.
LEMMA IntakeAccounts ==
  ASSUME JournalTypes, Lives, NEW w \in Writers, Intakes(w), Known(w), Accounted(w)
  PROVE  Known(w)' /\ Accounted(w)'
<1> USE DEF disk, work, intake, watcher
<1>1. UNCHANGED <<file, torn, stamp, out, view>>
  BY DEF Intakes, FrameArrives, FrameIgnored, FrameBuffered, BufferOverflows, SetSession,
         Replay, Flush, Skip, Finalize, Close, OpenFails, SyncFails
<1>2. mode'[w] # "new" /\ (mode[w] = "new" => OpenFails(w))
  <2>1. Step(w) \/ Failure(w)
    BY DEF Step, Failure, Intakes
  <2>2. ~ Open(w) \/ OpenFails(w)
    <3>1. mode[w] = "new" => OpenFails(w)
      BY DEF Known, Fresh, Intakes, FrameArrives, FrameIgnored, FrameBuffered, Give, Idle,
     BufferOverflows, SetSession, Replay, Flush, Skip, SyncFails, Finalize, Close
    <3> QED
      BY <3>1 DEF Open
  <2> QED
    BY <2>1, <2>2, Opened DEF Known
<1>3. /\ \A v \in Writers \ {w} : mode'[v] = mode[v]
      /\ Single(w)' = Single(w) /\ Full' = Full
  BY <1>1, IntakeLives DEF Single, Full
<1>4. mode'[w] = "dead" <=> mode[w] = "dead"
  BY DEF Intakes, FrameArrives, FrameIgnored, FrameBuffered, BufferOverflows, SetSession, Give, Idle, Lives,
         Replay, Flush, Skip, Finalize, Close, OpenFails, SyncFails
<1>5. degraded'[w].noted \/ (degraded' = degraded /\ mode[w] # "new")
  <2>1. OpenFails(w) \/ SyncFails(w) \/ BufferOverflows(w) => degraded'[w].noted
    BY Degrading, Overflowing DEF OpenFails, SyncFails, Failures, Lives
  <2> QED
    BY <1>2, <2>1 DEF Intakes, FrameArrives, FrameIgnored, FrameBuffered, SetSession, Replay, Flush, Skip,
                      Finalize, Close
<1>6. Known(w)'
  BY <1>1, <1>2, <1>3, <1>4, <1>5 DEF Known, Fresh, Noted, Disabled, Kept, Sole
<1>7. CASE degraded'[w].noted
  BY <1>6, <1>7 DEF Accounted
<1>8. CASE ~ degraded'[w].noted
  <2>1. Complete(w) => Complete(w)'
    BY <1>8, IntakeComplete DEF Known
  <2> QED
    BY <1>1, <1>3, <1>4, <1>5, <1>6, <1>8, <2>1 DEF Accounted
<1> QED
  BY <1>7, <1>8


\* A record that is not written leaves its trace.
LEMMA BeginAccounts ==
  ASSUME JournalInv, Lives, NEW w \in Writers, Prospect(w), Begin(w), Known(w), Accounted(w)
  PROVE  Known(w)' /\ Accounted(w)'
<1>0. JournalTypes /\ Checkpoint(view[w]) /\ mode[w] # "new"
  BY DEF JournalInv, Known, Fresh, Begin
<1>1. PICK r : r = Head(todo[w])
  OBVIOUS
<1>2. PICK b : b = Base(view[w]) /\ (b = view[w] \/ b = Blank) /\ Checkpoint(b)
  BY <1>0, Reread DEF Base
<1>3. PICK v, u : v = Recovered(b) /\ u = [v EXCEPT !.truncated = TRUE]
  OBVIOUS
<1>4. /\ v.marked = (b.marked \/ Marks(Unread(b))) /\ v.truncated = (b.truncated \/ Marks(Unread(b)))
      /\ v.stat.known /\ v.stat.stamp = CutStamp
      /\ u.marked = v.marked /\ u.truncated /\ u.stat = v.stat
  BY <1>3 DEF Recovered
<1>5. /\ todo[w] # <<>> /\ todo'[w] = Tail(todo[w]) /\ (\A x \in Writers : out[x] = Nothing)
      /\ UNCHANGED <<file, mode, given, buffer, pending>>
      /\ ~ Disabled(w) /\ Decided(w, r, v)
  BY <1>0, <1>1, <1>2, <1>3, Deciding DEF JournalTypes
<1>6. torn' = FALSE /\ stamp' = CutStamp
  BY Deciding DEF Cut
<1>7. Checkpoint(v) /\ v.read = Len(file)
  BY <1>0, <1>2, <1>3, Recovering
<1>8. view[w].marked => v.marked
  <2>1. view[w].marked => \E i \in 1 .. view[w].read : IsMark(i)
    BY <1>0 DEF Checkpoint
  <2>2. view[w].read \in 0 .. Len(file) /\ Len(file) \in Nat
    BY <1>0 DEF Checkpoint, JournalTypes, Lines
  <2>3. (\E i \in 1 .. Len(file) : IsMark(i)) => v.marked
    BY <1>7 DEF Checkpoint
  <2> QED
    BY <2>1, <2>2, <2>3
<1>9. v.truncated /\ ~ v.marked => Full
  <2>1. Blank.truncated = FALSE
    BY DEF Blank
  <2> QED
    BY <1>2, <1>4, <2>1 DEF Known, Kept
<1>10. view[w].truncated /\ Single(w) => v.truncated \/ degraded[w].noted \/ mode[w] = "dead"
  <2>1. ASSUME view[w].truncated, Single(w), ~ degraded[w].noted, mode[w] # "dead" PROVE b = view[w]
    BY <1>0, <1>2, <2>1 DEF Known, Sole, Base
  <2> QED
    BY <1>4, <2>1
<1>11. r.kind # "terminal" /\ ~ MarkFits(v) => v.marked \/ Full
  <2>1. Bytes(file) \in Nat
    BY <1>0, BytesGrow DEF JournalTypes
  <2> QED
    BY <2>1, JournalAssumption DEF MarkFits, Full, MarkSize
<1>12. /\ degraded'[w] = degraded[w] \/ degraded'[w].noted
       /\ view'[w] = v \/ (view'[w] = u /\ r.kind # "terminal" /\ ~ MarkFits(v))
  <2>1. \/ view' = [view EXCEPT ![w] = v]
        \/ view' = [view EXCEPT ![w] = u] /\ r.kind # "terminal" /\ ~ MarkFits(v)
    BY <1>3, <1>5, Zenon DEF Decided
  <2>2. degraded' = degraded \/ Degrade(w, "terminal_reserve_exhausted")
    BY <1>5, Zenon DEF Decided
  <2>3. degraded'[w] = degraded[w] \/ degraded'[w].noted
    BY <1>0, <2>2, Degrading DEF Lives
  <2> QED
    BY <1>0, <2>1, <2>3 DEF JournalTypes
<1>13. /\ view'[w].marked = v.marked /\ (v.truncated => view'[w].truncated) /\ view'[w].stat = v.stat
       /\ view'[w].truncated => v.truncated \/ v.marked \/ Full
  BY <1>4, <1>11, <1>12
<1>14. Full' = Full /\ Single(w)' = Single(w) /\ mode'[w] = mode[w]
  BY <1>5 DEF Full, Single
<1>15. Known(w)'
  <2>1. Fresh(w)'
    BY <1>0, <1>14 DEF Fresh
  <2>2. Noted(w)'
    BY <1>5, <1>12 DEF Noted, Disabled
  <2>3. Kept(w)'
    BY <1>9, <1>13, <1>14 DEF Kept
  <2>4. Sole(w)'
    BY <1>4, <1>6, <1>13 DEF Sole
  <2> QED
    BY <2>1, <2>2, <2>3, <2>4 DEF Known
<1>18. SUFFICES Accounted(w)'
  BY <1>15
<1>16. CASE Complete(w)
  <2>1. Whole(w, file, Nothing, todo[w], pending[w], buffer[w], given[w])
    BY <1>5, <1>16 DEF Complete
  <2>2. CASE out' = [out EXCEPT ![w] = r]
    <3>1. r.by = w /\ r \in Line /\ r # Nothing
      <4>1. r \in Plain(w) \/ r = LastOf(w)
        BY <1>1, <1>5, NextRecord
      <4>2. Plain(w) \subseteq Line /\ LastOf(w) \in Line /\ LastOf(w).by = w /\ Nothing.kind \notin Kinds
        BY DEF Plain, Waiting, LastOf, Rec, Line, Kinds, MarkSize, Nothing
      <4>3. r.by = w /\ r \in Line
        BY <4>1, <4>2 DEF Plain
      <4> QED
        BY <4>2, <4>3 DEF Line
    <3>2. out'[w] = r
      BY <1>0, <2>2 DEF JournalTypes
    <3>3. PICK e \in [seq : Nat, record : Line] : e = [seq |-> 0, record |-> r]
      <4>1. [seq |-> 0, record |-> r] \in [seq : Nat, record : Line]
        BY <3>1
      <4> QED
        BY <4>1
    <3>4. /\ file \in Lines /\ Nothing \in Line \cup {Nothing} /\ todo[w] \in Seq(Line)
          /\ pending[w] \in Text /\ buffer[w] \in Seq(Taken)
      <4>1. todo[w] \in Seq(Waiting) /\ Waiting \subseteq Line
        BY <1>0 DEF JournalTypes, Waiting
      <4> HIDE DEF Waiting
      <4>2. todo[w] \in Seq(Line)
        BY <4>1
      <4> QED
        BY <1>0, <4>2 DEF JournalTypes, Text
    <3>5. Whole(w, file, r, Tail(todo[w]), pending[w], buffer[w], given[w])
      BY <1>1, <1>5, <2>1, <3>1, <3>3, <3>4, WholeMoves
    <3> QED
      BY <1>5, <3>2, <3>5 DEF Complete, Accounted
  <2>3. CASE out' = [out EXCEPT ![w] = Mark(w)]
    <3>1. out'[w].kind = "journal.truncated"
      BY <1>0, <2>3 DEF JournalTypes, Mark, Rec
    <3> QED
      BY <3>1 DEF Accounted
  <2>4. CASE v.truncated
    BY <1>9, <1>13, <1>14, <2>4 DEF Accounted
  <2>5. CASE r.kind # "terminal" /\ ~ MarkFits(v) /\ view' = [view EXCEPT ![w] = u]
    <3>1. view'[w] = u
      BY <1>0, <2>5 DEF JournalTypes
    <3> QED
      BY <1>4, <1>11, <1>14, <2>5, <3>1 DEF Accounted
  <2>6. CASE Degrade(w, "terminal_reserve_exhausted")
    <3>1. degraded'[w].noted
      BY <1>0, <2>6, Degrading DEF Lives
    <3> QED
      BY <3>1 DEF Accounted
  <2> QED
    BY <1>3, <1>5, <2>2, <2>3, <2>4, <2>5, <2>6, Zenon DEF Decided
<1>17. CASE ~ Complete(w)
  <2>1. out[w].kind # "journal.truncated"
    BY <1>5 DEF Nothing
  <2> QED
    BY <1>8, <1>10, <1>12, <1>13, <1>14, <1>17, <2>1 DEF Accounted
<1> QED
  BY <1>15, <1>16, <1>17

\* A record that is written is not lost.
LEMMA WriteAccounts ==
  ASSUME JournalInv, Lives, NEW w \in Writers, Prospect(w), Write(w), Known(w), Accounted(w)
  PROVE  Known(w)' /\ Accounted(w)'
<1>0. JournalTypes /\ Checkpoint(view[w])
  BY DEF JournalInv
<1>1. PICK r \in Line : r = out[w] /\ out[w] # Nothing /\ r.by = w
  BY <1>0 DEF JournalTypes, Write, Prospect
<1>2. PICK e \in [seq : Nat, record : Line] : file' = Append(file, e) /\ e.record = r
  <2>1. [seq |-> view[w].seq + 1, record |-> out[w]] \in [seq : Nat, record : Line]
    <3>1. view[w].seq \in Nat
      <4>1. Len(file) \in Nat
        BY <1>0 DEF JournalTypes, Lines
      <4> QED
        BY <1>0, <4>1 DEF Checkpoint
    <3> QED
      BY <1>1, <3>1
  <2> QED
    BY <1>1, <2>1 DEF Write
<1>3. /\ out'[w] = Nothing /\ UNCHANGED <<torn, stamp, mode, todo, degraded, given, buffer, pending>>
      /\ view'[w].marked = (view[w].marked \/ r.kind = "journal.truncated")
      /\ view'[w].truncated = (view[w].truncated \/ r.kind = "journal.truncated")
      /\ view'[w].stat.known /\ view'[w].stat.stamp = stamp
  BY <1>0, <1>1 DEF Write, intake, JournalTypes
<1>4. Full => Full'
  BY <1>0, <1>2, FullStays
<1>5. Single(w)' = Single(w) /\ mode[w] # "new"
  BY <1>1, <1>3 DEF Single, Known, Fresh
<1>6. Known(w)'
  BY <1>3, <1>4, <1>5 DEF Known, Fresh, Noted, Disabled, Kept, Sole
<1>7. CASE Complete(w)
  <2>1. Whole(w, file, r, todo[w], pending[w], buffer[w], given[w])
    BY <1>1, <1>7 DEF Complete
  <2>2. /\ file \in Lines /\ r \in Line \cup {Nothing} /\ todo[w] \in Seq(Line)
        /\ pending[w] \in Text /\ buffer[w] \in Seq(Taken)
    <3>1. todo[w] \in Seq(Waiting) /\ Waiting \subseteq Line
      BY <1>0 DEF JournalTypes, Waiting
    <3> HIDE DEF Waiting
    <3>2. todo[w] \in Seq(Line)
      BY <3>1
    <3> QED
      BY <1>0, <3>2 DEF JournalTypes, Text
  <2>3. Whole(w, Append(file, e), Nothing, todo[w], pending[w], buffer[w], given[w])
    BY <1>1, <1>2, <2>1, <2>2, WholeMoves
  <2> QED
    BY <1>2, <1>3, <1>6, <2>3 DEF Complete, Accounted
<1>8. CASE ~ Complete(w)
  BY <1>1, <1>3, <1>4, <1>5, <1>6, <1>8 DEF Accounted
<1> QED
  BY <1>7, <1>8

\* Opening, failing to write, dying.
LEMMA OthersAccount ==
  ASSUME JournalInv, Lives, NEW w \in Writers, Open(w) \/ WriteFails(w) \/ Die(w), Known(w), Accounted(w)
  PROVE  Known(w)' /\ Accounted(w)'
<1>0. JournalTypes /\ Checkpoint(view[w])
  BY DEF JournalInv
<1>1. CASE WriteFails(w)
  <2>1. /\ degraded'[w].noted /\ mode' = mode /\ view' = view /\ file' = file /\ mode[w] # "new"
    BY <1>1 DEF WriteFails, Degrade, Lives, Known, Fresh
  <2> QED
    BY <2>1 DEF Known, Fresh, Noted, Kept, Sole, Accounted, Full
<1>2. CASE Die(w)
  <2>1. mode'[w] = "dead" /\ view' = view /\ file' = file /\ degraded' = degraded
    BY <1>2 DEF Die, Lives
  <2> QED
    BY <2>1 DEF Known, Fresh, Noted, Disabled, Kept, Sole, Accounted, Full
<1>3. CASE Open(w)
  <2> DEFINE v == Recovered(Blank)
             u == [v EXCEPT !.stat.stamp = CutStamp + 1]
  <2>1. /\ v.truncated = v.marked
        /\ u.truncated = v.truncated /\ u.marked = v.marked /\ u.stat.known /\ u.stat.stamp = CutStamp + 1
    BY DEF Recovered, Blank
  <2>2. /\ view'[w] = u /\ mode'[w] = "open" /\ mode[w] = "new" /\ torn' = FALSE /\ stamp' = CutStamp + 1
        /\ UNCHANGED <<file, degraded, todo, out, given, buffer, pending>>
    BY <1>0, <1>3 DEF Open, Lives, JournalTypes, intake
  <2> HIDE DEF v, u
  <2>3. Known(w)'
    BY <2>1, <2>2 DEF Known, Fresh, Noted, Disabled, Kept, Sole
  <2>4. ~ view[w].marked /\ ~ view[w].truncated /\ out[w] = Nothing /\ Nothing.kind = "nothing"
    BY <1>0, <2>2 DEF Known, Fresh, Checkpoint, Nothing
  <2>5. \A x \in Writers \ {w} : mode'[x] = mode[x]
    BY <1>3 DEF Open, Lives
  <2>6. Full' = Full /\ Single(w)' = Single(w) /\ Complete(w)' = Complete(w)
    BY <2>2, <2>5 DEF Full, Single, Complete
  <2> QED
    BY <2>2, <2>3, <2>4, <2>6 DEF Accounted
<1> QED
  BY <1>1, <1>2, <1>3

\* Every step keeps the account of the frames.
LEMMA LossStep ==
  ASSUME JournalInv, BudgetInv, LossInv, [Next]_vars
  PROVE  LossInv'
<1>0. JournalTypes /\ Lives /\ \A v \in Writers : Prospect(v) /\ Known(v) /\ Accounted(v)
  BY DEF JournalInv, BudgetInv, LossInv
<1>1. ASSUME NEW w \in Writers, Step(w) \/ Failure(w) PROVE LossInv'
  <2>1. Known(w)' /\ Accounted(w)'
    BY <1>0, <1>1, IntakeAccounts, BeginAccounts, WriteAccounts, OthersAccount DEF Step, Failure, Intakes
  <2>2. mode'[w] # "new"
    BY <1>0, <1>1, Opened DEF Known
  <2>3. ASSUME NEW v \in Writers, v # w PROVE Known(v)' /\ Accounted(v)'
    <3>1. UNCHANGED <<mode[v], degraded[v], todo[v], out[v], view[v], given[v], buffer[v], pending[v]>>
      BY <1>0, <1>1, <2>3, OwnAffairs
    <3>2. UNCHANGED file \/ \E e \in [seq : Nat, record : Line] : file' = Append(file, e) /\ e.record.by # v
      <4>1. CASE Write(w)
        <5>1. PICK r \in Line : r = out[w] /\ r.by = w
          BY <1>0, <4>1 DEF JournalTypes, Write, Prospect
        <5>2. view[w].seq \in Nat
          <6>1. Checkpoint(view[w]) /\ Len(file) \in Nat
            BY <1>0 DEF JournalInv, JournalTypes, Lines
          <6> QED
            BY <6>1 DEF Checkpoint
        <5>3. PICK e \in [seq : Nat, record : Line] : e = [seq |-> view[w].seq + 1, record |-> r]
          <6>1. [seq |-> view[w].seq + 1, record |-> r] \in [seq : Nat, record : Line]
            BY <5>2
          <6> QED
            BY <6>1
        <5> QED
          BY <2>3, <4>1, <5>1, <5>3 DEF Write
      <4>2. CASE ~ Write(w)
        BY <1>1, <4>2 DEF disk, work, intake, watcher, Step, Failure, Open, OpenFails, FrameArrives,
             FrameIgnored, FrameBuffered, BufferOverflows, SetSession, Replay, Flush, Begin, Skip, WriteFails,
             SyncFails, Finalize, Close, Die, Recover, Cut
      <4> QED
        BY <4>1, <4>2
    <3> QED
      BY <1>0, <2>2, <2>3, <3>1, <3>2, PeerStands
  <2> QED
    BY <2>1, <2>3 DEF LossInv
<1>2. CASE Repair \/ ReadEvents \/ ReadFails \/ ReadStatus \/ UNCHANGED vars
  <2>1. UNCHANGED <<disk, mode, intake, work>>
    BY <1>2 DEF Repair, ReadEvents, ReadFails, ReadStatus, vars
  <2>2. \A w \in Writers : Known(w)' = Known(w) /\ Accounted(w)' = Accounted(w)
    BY <2>1 DEF disk, intake, work, Known, Fresh, Noted, Disabled, Kept, Full, Single, Sole, Accounted, Complete
  <2> QED
    BY <2>2 DEF LossInv
<1> QED
  BY <1>1, <1>2 DEF Next


\* No frame was given yet.
LEMMA LossInitially ==
  ASSUME Init
  PROVE  LossInv
<1>1. ASSUME NEW w \in Writers PROVE Known(w)
  <2>1. /\ todo[w] = <<>> /\ out[w] = Nothing /\ mode[w] = "new" /\ ~ degraded[w].disabled /\ ~ view[w].truncated
    BY DEF Init, Blank, Sound
  <2> QED
    BY <2>1 DEF Known, Fresh, Noted, Disabled, Kept, Sole
<1>2. ASSUME NEW w \in Writers PROVE Complete(w)
  <2>1. /\ todo[w] = <<>> /\ out[w] = Nothing /\ pending[w] = <<>> /\ buffer[w] = <<>> /\ given[w] = 0 /\ file = <<>>
    BY DEF Init
  <2>2. RecordsOf(<<>>) = <<>> /\ Numbers(<<>>) = <<>> /\ Upto(0) = <<>> /\ FramesOf(w, <<>>) = <<>>
    BY FramesOne DEF RecordsOf, Numbers, Upto
  <2>3. HeldOf(w, Nothing, <<>>, <<>>, <<>>) = Join(Join(<<>>, <<>>), <<>>)
    BY <2>2, HeldIs, Joining
  <2>4. Join(<<>>, <<>>) = <<>>
    BY Joining
  <2> QED
    BY <2>1, <2>2, <2>3, <2>4 DEF Complete, Whole
<1> QED
  BY <1>1, <1>2 DEF LossInv, Accounted

\* Between two calls, a writer that reports neither degradation nor truncation has
\* written or still holds every frame it was given, once and in the order of arrival.
THEOREM LossIsNoticed == Spec => []LossIsReported
<1>1. JournalInv /\ LossInv => LossIsReported
  <2> SUFFICES ASSUME JournalInv, LossInv, NEW w \in Writers,
                      mode[w] # "dead", out[w].kind # "journal.truncated", TruncationIsKept(w),
                      ~ degraded[w].noted, ~ view[w].truncated
               PROVE  Stored(w) \o Held(w) = [i \in 1 .. given[w] |-> i]
    BY DEF LossIsReported
  <2>1. ~ view[w].marked
    BY DEF JournalInv, Checkpoint
  <2>2. ~ (Full /\ ~ Single(w))
    <3>1. Bytes(file) \in Nat
      BY BytesGrow DEF JournalInv, JournalTypes
    <3> QED
      BY <3>1, JournalAssumption DEF Full, Single, TruncationIsKept, MarkSize
  <2>3. Complete(w)
    BY <2>1, <2>2 DEF LossInv, Accounted
  <2>4. Stored(w) = FramesOf(w, RecordsOf(file)) /\ Held(w) = HeldOf(w, out[w], todo[w], pending[w], buffer[w])
    BY DEF Stored, RecordsOf, Held, HeldOf, Numbers
  <2> QED
    BY <2>3, <2>4 DEF Complete, Whole, Join, Upto
<1>2. Init => LossInv
  BY LossInitially
<1> QED
  BY <1>1, <1>2, JournalInvariance, BudgetInvariance, LossStep, PTL DEF Spec

-----------------------------------------------------------------------------
(* The types of a journal                                                   *)

\* The sum of a function over a set, one argument after another.
Chosen(s)     == CHOOSE x \in s : TRUE
Adds(h, g, s) == h[s] = IF s = {} THEN 0 ELSE g[Chosen(s)] + h[s \ {Chosen(s)}]

LEMMA Remaining ==
  ASSUME NEW W, IsFiniteSet(W), NEW s \in SUBSET W
  PROVE  /\ Cardinality(s) \in Nat /\ Cardinality(s) <= Cardinality(W) /\ Cardinality(W) \in Nat
         /\ Cardinality(s) <= 0 => s = {}
         /\ s # {} => /\ Chosen(s) \in s /\ s \ {Chosen(s)} \in SUBSET W
                      /\ Cardinality(s \ {Chosen(s)}) = Cardinality(s) - 1 /\ Cardinality(s) > 0
<1>1. IsFiniteSet(s) /\ Cardinality(s) <= Cardinality(W)
  BY FS_Subset
<1>2. Cardinality(s) \in Nat /\ Cardinality(W) \in Nat /\ (Cardinality(s) = 0 => s = {})
  BY <1>1, FS_CardinalityType, FS_EmptySet
<1>3. s # {} => Chosen(s) \in s
  BY DEF Chosen
<1>4. s # {} => Cardinality(s \ {Chosen(s)}) = Cardinality(s) - 1
  BY <1>1, <1>3, FS_RemoveElement
<1> QED
  BY <1>1, <1>2, <1>3, <1>4

LEMMA AddsExist ==
  ASSUME NEW W, IsFiniteSet(W), NEW g \in [W -> Nat]
  PROVE  \E h \in [SUBSET W -> Nat] : \A s \in SUBSET W : Adds(h, g, s)
<1> DEFINE Can(n) == \E h \in [SUBSET W -> Nat] : \A s \in SUBSET W : Cardinality(s) <= n => Adds(h, g, s)
           T == {n \in Nat : Can(n)}
<1>1. 0 \in T
  <2>1. [s \in SUBSET W |-> 0] \in [SUBSET W -> Nat]
    OBVIOUS
  <2>2. \A s \in SUBSET W : Cardinality(s) <= 0 => s = {}
    BY Remaining
  <2> QED
    BY <2>1, <2>2 DEF Adds
<1>2. ASSUME NEW n \in Nat, Can(n) PROVE Can(n + 1)
  <2>1. PICK h \in [SUBSET W -> Nat] : \A s \in SUBSET W : Cardinality(s) <= n => Adds(h, g, s)
    BY <1>2
  <2>2. PICK k : k = [s \in SUBSET W |-> IF Cardinality(s) <= n THEN h[s] ELSE g[Chosen(s)] + h[s \ {Chosen(s)}]]
    OBVIOUS
  <2>3. k \in [SUBSET W -> Nat]
    <3>1. ASSUME NEW s \in SUBSET W, ~ (Cardinality(s) <= n) PROVE g[Chosen(s)] + h[s \ {Chosen(s)}] \in Nat
      <4>0. 0 <= n
        OBVIOUS
      <4>1. s # {}
        BY <3>1, <4>0, FS_EmptySet, Zenon
      <4>2. Chosen(s) \in W /\ s \ {Chosen(s)} \in SUBSET W
        BY <4>1, Remaining
      <4>3. g[Chosen(s)] \in Nat /\ h[s \ {Chosen(s)}] \in Nat
        BY <4>2
      <4> QED
        BY <4>3
    <3> QED
      BY <2>2, <3>1
  <2>4. ASSUME NEW s \in SUBSET W, Cardinality(s) <= n + 1 PROVE Adds(k, g, s)
    <3>1. CASE s = {}
      <4>1. Cardinality(s) <= n /\ Adds(h, g, s)
        BY <2>1, <3>1, FS_EmptySet
      <4> QED
        BY <2>2, <3>1, <4>1 DEF Adds
    <3>2. CASE s # {}
      <4>1. s \ {Chosen(s)} \in SUBSET W /\ Cardinality(s \ {Chosen(s)}) <= n /\ Cardinality(s) \in Nat
        BY <2>4, <3>2, Remaining
      <4>2. k[s \ {Chosen(s)}] = h[s \ {Chosen(s)}]
        BY <2>2, <4>1
      <4>3. k[s] = g[Chosen(s)] + h[s \ {Chosen(s)}]
        BY <2>1, <2>2, <3>2 DEF Adds
      <4> QED
        BY <3>2, <4>2, <4>3 DEF Adds
    <3> QED
      BY <3>1, <3>2
  <2> QED
    BY <2>3, <2>4
<1>3. Cardinality(W) \in T
  <2> HIDE DEF Can
  <2>1. \A n \in Nat : n \in T => n + 1 \in T
    BY <1>2
  <2> HIDE DEF T
  <2>2. Nat \subseteq T
    BY <1>1, <2>1, Induction
  <2> QED
    BY <2>2, FS_CardinalityType
<1>4. PICK h \in [SUBSET W -> Nat] : \A s \in SUBSET W : Cardinality(s) <= Cardinality(W) => Adds(h, g, s)
  BY <1>3
<1> QED
  BY <1>4, Remaining

\* No argument's value is above the sum.
LEMMA SumBounds ==
  ASSUME NEW g, IsFiniteSet(DOMAIN g), \A x \in DOMAIN g : g[x] \in Nat, g = [x \in DOMAIN g |-> g[x]]
  PROVE  FoldFunction(+, 0, g) \in Nat /\ \A w \in DOMAIN g : g[w] <= FoldFunction(+, 0, g)
<1> DEFINE Is(h) == h = [s \in SUBSET (DOMAIN g) |-> IF s = {} THEN 0
                                            ELSE g[CHOOSE x \in s : TRUE] + h[s \ {CHOOSE x \in s : TRUE}]]
           I == CHOOSE h : Is(h)
           Bounds(s) == I[s] \in Nat /\ \A x \in s : g[x] <= I[s]
           T == {n \in Nat : \A s \in SUBSET (DOMAIN g) : Cardinality(s) <= n => Bounds(s)}
<1>1. FoldFunction(+, 0, g) = I[DOMAIN g]
  BY Zenon DEF FoldFunction, FoldFunctionOnSet, MapThenFoldSet
<1>2. Is(I)
  <2>1. PICK h \in [SUBSET (DOMAIN g) -> Nat] : \A s \in SUBSET (DOMAIN g) : Adds(h, g, s)
    <3>1. g \in [DOMAIN g -> Nat]
      OBVIOUS
    <3> QED
      BY <3>1, AddsExist
  <2>2. Is(h)
    BY <2>1 DEF Adds, Chosen
  <2> HIDE DEF Is
  <2> QED
    BY <2>2
<1>3. \A s \in SUBSET (DOMAIN g) : I[s] = IF s = {} THEN 0 ELSE g[Chosen(s)] + I[s \ {Chosen(s)}]
  <2> HIDE DEF I
  <2> QED
    BY <1>2 DEF Chosen
<1> HIDE DEF I
<1>4. 0 \in T
  <2>1. \A s \in SUBSET (DOMAIN g) : Cardinality(s) <= 0 => s = {}
    BY Remaining
  <2>2. I[{}] = 0
    BY <1>3
  <2> QED
    BY <2>1, <2>2
<1>5. ASSUME NEW n \in Nat, n \in T, NEW s \in SUBSET (DOMAIN g), Cardinality(s) <= n + 1 PROVE Bounds(s)
  <2>1. CASE s = {}
    BY <1>3, <2>1
  <2>2. CASE s # {}
    <3>1. /\ Chosen(s) \in s /\ s \ {Chosen(s)} \in SUBSET (DOMAIN g)
          /\ Cardinality(s \ {Chosen(s)}) <= n
      BY <1>5, <2>2, Remaining
    <3>2. Bounds(s \ {Chosen(s)})
      BY <1>5, <3>1
    <3>3. I[s] = g[Chosen(s)] + I[s \ {Chosen(s)}] /\ g[Chosen(s)] \in Nat
      BY <1>3, <2>2, <3>1
    <3>4. ASSUME NEW x \in s PROVE g[x] <= I[s]
      <4>1. x = Chosen(s) \/ g[x] <= I[s \ {Chosen(s)}]
        BY <3>2
      <4>2. g[x] \in Nat
        OBVIOUS
      <4> QED
        BY <3>2, <3>3, <4>1, <4>2
    <3>5. I[s] \in Nat
      BY <3>2, <3>3
    <3> QED
      BY <3>4, <3>5
  <2> QED
    BY <2>1, <2>2
<1>6. Cardinality(DOMAIN g) \in T
  <2>1. \A n \in Nat : n \in T => n + 1 \in T
    BY <1>5
  <2> HIDE DEF T
  <2>2. Nat \subseteq T
    BY <1>4, <2>1, Induction
  <2> QED
    BY <2>2, FS_CardinalityType
<1>7. Bounds(DOMAIN g)
  BY <1>6, Remaining
<1> QED
  BY <1>1, <1>7, Zenon

LEMMA RecordsMade ==
  ASSUME NEW w \in Writers
  PROVE  /\ \A p \in Seq(1 .. MaxFrames) : Delta(w, p) \in Seq(Record)
         /\ \A f \in Frame : Projected(w, f) \in Record
         /\ Mark(w) \in Record /\ Rec(w, "terminal", <<>>, MarkSize) \in Record
<1>1. Small \in 1 .. Large /\ Large \in 1 .. Large /\ MarkSize \in 1 .. Large
  BY DEF Small, Large, MarkSize
<1>2. ASSUME NEW kind \in Kinds, NEW p \in Seq(1 .. MaxFrames), NEW n \in 1 .. Large
      PROVE  Rec(w, kind, p, n) \in Record
  BY <1>2 DEF Rec, Record
<1>3. {"event", "message.delta", "journal.truncated", "terminal"} \subseteq Kinds
  BY DEF Kinds
<1>4. <<>> \in Seq(1 .. MaxFrames)
  OBVIOUS
<1>5. ASSUME NEW p \in Seq(1 .. MaxFrames) PROVE Delta(w, p) \in Seq(Record)
  <2>1. Rec(w, "message.delta", p, IF Len(p) = 1 THEN Small ELSE Large) \in Record
    BY <1>1, <1>2, <1>3
  <2> QED
    BY <2>1 DEF Delta
<1>6. ASSUME NEW f \in Frame PROVE Projected(w, f) \in Record
  <2>1. <<f.number>> \in Seq(1 .. MaxFrames)
    BY DEF Frame
  <2> QED
    BY <1>1, <1>2, <1>3, <2>1 DEF Projected
<1> QED
  BY <1>1, <1>2, <1>3, <1>4, <1>5, <1>6 DEF Mark

\* What an ingest leaves to append and to gather.
LEMMA IngestIsTyped ==
  ASSUME JournalTypes, TypeOK, NEW w \in Writers, NEW f \in Frame, Ingest(w, f)
  PROVE  \E t \in Seq(Record), p \in Seq(1 .. MaxFrames) :
           /\ todo' = [todo EXCEPT ![w] = t] /\ pending' = [pending EXCEPT ![w] = p]
           /\ Len(p) <= Coalesce
<1>0. pending[w] \in Seq(1 .. MaxFrames) /\ f.number \in 1 .. MaxFrames /\ Coalesce \in Nat
  BY JournalAssumption DEF TypeOK, Frame
<1>1. CASE IngestEvent(w, f)
  <2>1. Append(Delta(w, pending[w]), Projected(w, f)) \in Seq(Record)
    BY <1>0, RecordsMade
  <2>2. <<>> \in Seq(1 .. MaxFrames) /\ Len(<<>>) <= Coalesce
    BY <1>0
  <2> QED
    BY <1>1, <2>1, <2>2 DEF IngestEvent
<1>2. CASE IngestDelta(w, f)
  <2>1. PICK kept \in Seq(1 .. MaxFrames), before \in Seq(Record) :
          LET text == Append(kept, f.number)
          IN IF Len(text) >= Coalesce
             THEN /\ todo' = [todo EXCEPT ![w] = before \o Delta(w, text)]
                  /\ pending' = [pending EXCEPT ![w] = <<>>]
             ELSE /\ todo' = [todo EXCEPT ![w] = before]
                  /\ pending' = [pending EXCEPT ![w] = text]
    <3>1. PICK other \in BOOLEAN :
            LET kept == IF other THEN <<>> ELSE pending[w]
                text == Append(kept, f.number)
                before == IF other THEN Delta(w, pending[w]) ELSE <<>>
            IN IF Len(text) >= Coalesce
               THEN /\ todo' = [todo EXCEPT ![w] = before \o Delta(w, text)]
                    /\ pending' = [pending EXCEPT ![w] = <<>>]
               ELSE /\ todo' = [todo EXCEPT ![w] = before]
                    /\ pending' = [pending EXCEPT ![w] = text]
      BY <1>2 DEF IngestDelta
    <3>2. /\ (IF other THEN <<>> ELSE pending[w]) \in Seq(1 .. MaxFrames)
          /\ (IF other THEN Delta(w, pending[w]) ELSE <<>>) \in Seq(Record)
      <4>1. Delta(w, pending[w]) \in Seq(Record)
        BY <1>0, RecordsMade, Zenon
      <4>2. <<>> \in Seq(1 .. MaxFrames) /\ <<>> \in Seq(Record)
        OBVIOUS
      <4> QED
        BY <1>0, <4>1, <4>2, Zenon
    <3> QED
      BY <3>1, <3>2
  <2> DEFINE text == Append(kept, f.number)
  <2>2. text \in Seq(1 .. MaxFrames) /\ Len(text) \in Nat
    BY <1>0
  <2> HIDE DEF text
  <2>3. before \o Delta(w, text) \in Seq(Record)
    BY <2>2, RecordsMade
  <2>4. <<>> \in Seq(1 .. MaxFrames) /\ Len(<<>>) <= Coalesce
    BY <1>0
  <2>5. CASE Len(text) >= Coalesce
    BY <2>1, <2>3, <2>4, <2>5 DEF text
  <2>6. CASE ~ (Len(text) >= Coalesce)
    <3>1. Len(text) <= Coalesce
      BY <1>0, <2>2, <2>6
    <3> QED
      BY <2>1, <2>2, <2>6, <3>1 DEF text
  <2> QED
    BY <2>5, <2>6
<1> QED
  BY <1>1, <1>2 DEF Ingest

LEMMA RecoveredIsTyped ==
  ASSUME TypeOK, NEW v \in View
  PROVE  /\ CutStamp \in Nat /\ Blank \in View
         /\ Recovered(v) \in View /\ Recovered(Base(v)) \in View
<1>1. CutStamp \in Nat /\ Len(file) \in Nat
  BY DEF TypeOK, CutStamp
<1>2. Blank \in View
  BY DEF Blank, View
<1>3. ASSUME NEW u \in View PROVE Recovered(u) \in View
  <2>1. Len(Unread(u)) \in Nat /\ Events(Unread(u)) \in Nat /\ Marks(Unread(u)) \in BOOLEAN
    <3>1. Unread(u) \in Seq(Numbered)
      BY DEF TypeOK, Unread, View
    <3> QED
      BY <3>1 DEF Events, Marks
  <2>2. (u.marked \/ Marks(Unread(u))) \in BOOLEAN /\ (u.truncated \/ Marks(Unread(u))) \in BOOLEAN
    OBVIOUS
  <2>3. u.seq + Len(Unread(u)) \in Nat /\ u.count + Events(Unread(u)) \in Nat
    BY <2>1 DEF View
  <2> QED
    BY <1>1, <2>2, <2>3 DEF Recovered, View
<1>4. Base(v) \in View
  BY <1>2 DEF Base
<1> QED
  BY <1>1, <1>2, <1>3, <1>4

\* What a writer holds.
HoldsTyped(w) ==
  /\ buffer[w] \in Seq(Frame) /\ Len(buffer[w]) <= MaxBuffer
  /\ pending[w] \in Seq(1 .. MaxFrames) /\ Len(pending[w]) <= Coalesce
  /\ todo[w] \in Seq(Record)
  /\ out[w] \in Record \cup {Nothing}

\* The rest of the types: those of the writers' lives, and of the file and its reader.
LivesTyped ==
  /\ mode \in [Writers -> {"new", "open", "closing", "closed", "dead"}]
  /\ session \in [Writers -> BOOLEAN]
  /\ given \in [Writers -> 0 .. MaxFrames]
  /\ degraded \in [Writers -> Degradation]
  /\ status \in {"running", "terminal"}
  /\ faults \in 0 .. MaxFaults

FileTyped ==
  /\ file \in Seq(Numbered) /\ torn \in BOOLEAN /\ stamp \in Nat
  /\ first \in Numbered \cup {Nothing}
  /\ lock \in Writers \cup {Nobody}
  /\ view \in [Writers -> View]
  /\ shown \in Seq(Numbered)
  /\ watch \in {"reading", "asking", "doubting", "gone"}

LEMMA TypesOfAJournal == TypeOK <=> FileTyped /\ LivesTyped /\ \A w \in Writers : HoldsTyped(w)
  BY Zenon DEF TypeOK, FileTyped, LivesTyped, HoldsTyped

LEMMA JournalTypedInitially == ASSUME Init PROVE TypeOK
<1>1. FileTyped
  <2>1. Blank \in View
    BY DEF Blank, View
  <2>2. <<>> \in Seq(Numbered)
    OBVIOUS
  <2> QED
    BY <2>1, <2>2, Zenon DEF Init, FileTyped
<1>2. LivesTyped
  <2>1. Sound \in Degradation
    BY DEF Sound, Degradation
  <2> QED
    BY <2>1, JournalAssumption DEF Init, LivesTyped
<1>3. \A w \in Writers : HoldsTyped(w)
  BY JournalAssumption DEF Init, HoldsTyped
<1> QED
  BY <1>1, <1>2, <1>3, TypesOfAJournal

\* The sum of what was given leaves room for one more.
LEMMA FrameIsTyped ==
  ASSUME TypeOK, NEW w \in Writers, Give(w)
  PROVE  /\ given' \in [Writers -> 0 .. MaxFrames]
         /\ \A kind \in {"small", "large", "delta"} : NextFrame(w, kind) \in Frame
<1>0. MaxFrames \in Nat /\ given \in [Writers -> 0 .. MaxFrames]
  BY JournalAssumption DEF TypeOK
<1>1. PICK m \in Nat : m < MaxFrames /\ \A v \in Writers : given[v] <= m
  <2>1. IsFiniteSet(DOMAIN given) /\ DOMAIN given = Writers
    BY <1>0, ReserveAssumption
  <2>2. \A v \in DOMAIN given : given[v] \in Nat
    BY <1>0
  <2>3. given = [v \in DOMAIN given |-> given[v]]
    BY <1>0
  <2>4. FoldFunction(+, 0, given) \in Nat /\ \A v \in DOMAIN given : given[v] <= FoldFunction(+, 0, given)
    BY <2>1, <2>2, <2>3, SumBounds, Zenon
  <2>5. FoldFunction(+, 0, given) < MaxFrames
    BY Zenon DEF Give, FramesLeft
  <2> QED
    BY <2>1, <2>4, <2>5, Zenon
<1>3. given[w] + 1 \in 1 .. MaxFrames
  BY <1>0, <1>1
<1>4. given' = [given EXCEPT ![w] = given[w] + 1]
  BY DEF Give
<1> QED
  BY <1>0, <1>3, <1>4 DEF NextFrame, Frame

\* A writer that takes in frames or prepares its records disturbs no other part.
LEMMA IngestHolds ==
  ASSUME TypeOK, JournalTypes, NEW w \in Writers, NEW f \in Frame, Ingest(w, f),
         UNCHANGED out, NEW b \in Seq(Frame), Len(b) <= MaxBuffer,
         buffer' = [buffer EXCEPT ![w] = b]
  PROVE  \A v \in Writers : HoldsTyped(v)'
<1>1. PICK t \in Seq(Record), p \in Seq(1 .. MaxFrames) :
        /\ todo' = [todo EXCEPT ![w] = t] /\ pending' = [pending EXCEPT ![w] = p]
        /\ Len(p) <= Coalesce
  BY IngestIsTyped
<1> QED
  BY <1>1 DEF TypeOK, JournalTypes, HoldsTyped

LEMMA LivesStayTyped ==
  ASSUME TypeOK, [Next]_vars
  PROVE  LivesTyped'
<1>0. /\ LivesTyped /\ MaxFaults \in Nat
  BY TypesOfAJournal, JournalAssumption
<1> USE DEF disk, intake, work, watcher
<1>1. ASSUME UNCHANGED <<mode, session, given, degraded, status, faults>> PROVE LivesTyped'
  BY <1>0, <1>1 DEF LivesTyped
<1>2. ASSUME Fault PROVE faults' \in 0 .. MaxFaults
  BY <1>0, <1>2 DEF Fault, LivesTyped
<1>3. ASSUME NEW w \in Writers,
             NEW why \in Failures \cup {"journal_shrunk", "corrupt_complete_record", "terminal_reserve_exhausted"},
             Degrade(w, why)
      PROVE  degraded' \in [Writers -> Degradation]
  BY <1>0, <1>3, Degrading DEF LivesTyped
<1>4. ASSUME NEW w \in Writers, NEW m \in {"open", "closing", "closed", "dead"},
             mode' = [mode EXCEPT ![w] = m]
      PROVE  mode' \in [Writers -> {"new", "open", "closing", "closed", "dead"}]
  BY <1>0, <1>4 DEF LivesTyped
<1>5. ASSUME NEW w \in Writers, Step(w) PROVE LivesTyped'
  <2>1. CASE Replay(w) \/ Flush(w) \/ Skip(w) \/ Write(w)
    BY <1>1, <2>1 DEF Replay, Flush, Skip, Write
  <2>2. CASE Open(w)
    BY <1>0, <1>4, <2>2 DEF Open, LivesTyped
  <2>3. CASE FrameArrives(w) \/ FrameIgnored(w) \/ FrameBuffered(w)
    <3>1. Give(w) /\ UNCHANGED <<mode, session, degraded, status, faults>>
      BY <2>3 DEF FrameArrives, FrameIgnored, FrameBuffered
    <3> QED
      BY <1>0, <3>1, FrameIsTyped DEF LivesTyped
  <2>4. CASE BufferOverflows(w)
    <3>1. Give(w) /\ UNCHANGED <<mode, session, status, faults>>
      BY <2>4 DEF BufferOverflows
    <3>2. degraded' \in [Writers -> Degradation]
      BY <1>0, <2>4, Overflowing DEF LivesTyped
    <3> QED
      BY <1>0, <3>1, <3>2, FrameIsTyped DEF LivesTyped
  <2>5. CASE SetSession(w)
    BY <1>0, <2>5 DEF SetSession, LivesTyped
  <2>6. CASE Begin(w)
    <3>1. \/ UNCHANGED degraded
          \/ \E why \in Failures \cup {"journal_shrunk", "corrupt_complete_record", "terminal_reserve_exhausted"} :
               Degrade(w, why)
      BY <2>6, Zenon DEF Begin, Recover, Decide
    <3>2. degraded' \in [Writers -> Degradation]
      BY <1>0, <1>3, <3>1 DEF LivesTyped
    <3> QED
      BY <1>0, <2>6, <3>2 DEF Begin, LivesTyped
  <2>7. CASE Finalize(w) \/ Close(w)
    BY <1>0, <1>4, <2>7 DEF Finalize, Close, LivesTyped
  <2> QED
    BY <1>5, <2>1, <2>2, <2>3, <2>4, <2>5, <2>6, <2>7 DEF Step
<1>6. ASSUME NEW w \in Writers, Failure(w) PROVE LivesTyped'
  <2>1. CASE OpenFails(w)
    BY <1>0, <1>2, <1>3, <1>4, <2>1 DEF OpenFails, Failures, LivesTyped
  <2>2. CASE WriteFails(w) \/ SyncFails(w)
    BY <1>0, <1>2, <1>3, <2>2 DEF WriteFails, SyncFails, Failures, LivesTyped
  <2>3. CASE Die(w)
    BY <1>0, <1>2, <1>4, <2>3 DEF Die, LivesTyped
  <2> QED
    BY <1>6, <2>1, <2>2, <2>3 DEF Failure
<1>7. CASE Repair
  BY <1>0, <1>7 DEF Repair, LivesTyped
<1>8. CASE ReadEvents \/ ReadFails \/ ReadStatus \/ UNCHANGED vars
  BY <1>1, <1>8 DEF ReadEvents, ReadFails, ReadStatus, vars
<1> QED
  BY <1>5, <1>6, <1>7, <1>8 DEF Next

LEMMA HoldingsStayTyped ==
  ASSUME TypeOK, JournalTypes, [Next]_vars
  PROVE  \A v \in Writers : HoldsTyped(v)'
<1>0. /\ \A v \in Writers : HoldsTyped(v)
      /\ DOMAIN buffer = Writers /\ DOMAIN pending = Writers /\ DOMAIN todo = Writers /\ DOMAIN out = Writers
      /\ buffer = [v \in Writers |-> buffer[v]] /\ pending = [v \in Writers |-> pending[v]]
      /\ todo = [v \in Writers |-> todo[v]] /\ out = [v \in Writers |-> out[v]]
  <2>1. \A v \in Writers : HoldsTyped(v)
    BY TypesOfAJournal
  <2> QED
    BY <2>1 DEF JournalTypes
<1>00. <<>> \in Seq(Record) /\ <<>> \in Seq(1 .. MaxFrames) /\ Len(<<>>) <= Coalesce
       /\ Coalesce \in Nat /\ MaxBuffer \in Nat
  BY JournalAssumption
<1> USE DEF disk, intake, work, watcher
<1>1. ASSUME UNCHANGED <<buffer, pending, todo, out>> PROVE \A v \in Writers : HoldsTyped(v)'
  BY <1>0, <1>1 DEF HoldsTyped
<1>2. ASSUME NEW w \in Writers, UNCHANGED <<buffer, out>>, NEW t \in Seq(Record),
             todo' = [todo EXCEPT ![w] = t], UNCHANGED pending \/ pending' = [pending EXCEPT ![w] = <<>>]
      PROVE  \A v \in Writers : HoldsTyped(v)'
  BY <1>0, <1>00, <1>2 DEF HoldsTyped
<1>3. ASSUME NEW w \in Writers, UNCHANGED <<buffer, pending>>, NEW t \in Seq(Record),
             todo' = [todo EXCEPT ![w] = t], NEW r \in Record \cup {Nothing}, out' = [out EXCEPT ![w] = r]
      PROVE  \A v \in Writers : HoldsTyped(v)'
  BY <1>0, <1>3 DEF HoldsTyped
<1>4. ASSUME NEW w \in Writers, Step(w) PROVE \A v \in Writers : HoldsTyped(v)'
  <2>1. CASE Open(w) \/ FrameIgnored(w) \/ BufferOverflows(w) \/ SetSession(w) \/ Close(w)
    BY <1>1, <2>1 DEF Open, FrameIgnored, BufferOverflows, SetSession, Close
  <2>2. CASE FrameArrives(w)
    <3>1. PICK kind \in {"small", "large", "delta"} : Ingest(w, NextFrame(w, kind))
      BY <2>2 DEF FrameArrives
    <3>2. NextFrame(w, kind) \in Frame
      BY <2>2, FrameIsTyped DEF FrameArrives
    <3>3. UNCHANGED <<buffer, out>>
      BY <2>2 DEF FrameArrives
    <3>4. buffer' = [buffer EXCEPT ![w] = buffer[w]] /\ buffer[w] \in Seq(Frame) /\ Len(buffer[w]) <= MaxBuffer
      BY <1>0, <3>3 DEF HoldsTyped
    <3> QED
      BY <3>1, <3>2, <3>3, <3>4, IngestHolds
  <2>3. CASE FrameBuffered(w)
    <3>1. PICK kind \in {"small", "delta"} : buffer' = [buffer EXCEPT ![w] = Append(@, NextFrame(w, kind))]
      BY <2>3 DEF FrameBuffered
    <3>2. NextFrame(w, kind) \in Frame
      BY <2>3, FrameIsTyped DEF FrameBuffered
    <3>3. Len(buffer[w]) < MaxBuffer /\ UNCHANGED <<pending, todo, out>>
      BY <2>3 DEF FrameBuffered
    <3>4. buffer[w] \in Seq(Frame)
      BY <1>0 DEF HoldsTyped
    <3>5. Append(buffer[w], NextFrame(w, kind)) \in Seq(Frame) /\ Len(Append(buffer[w], NextFrame(w, kind))) <= MaxBuffer
      BY <1>00, <3>2, <3>3, <3>4
    <3> QED
      BY <1>0, <3>1, <3>3, <3>5 DEF HoldsTyped
  <2>4. CASE Replay(w)
    <3>1. /\ buffer[w] \in Seq(Frame) /\ buffer[w] # <<>> /\ Len(buffer[w]) <= MaxBuffer
          /\ buffer' = [buffer EXCEPT ![w] = Tail(buffer[w])] /\ UNCHANGED out
      BY <1>0, <2>4 DEF Replay, HoldsTyped
    <3>2. Tail(buffer[w]) \in Seq(Frame) /\ Len(Tail(buffer[w])) <= MaxBuffer /\ Head(buffer[w]) \in Frame
      BY <1>00, <3>1
    <3>3. CASE Disabled(w)
      <4>1. UNCHANGED <<todo, pending, out>>
        BY <2>4, <3>3 DEF Replay
      <4> QED
        BY <1>0, <3>1, <3>2, <4>1 DEF HoldsTyped
    <3>4. CASE ~ Disabled(w)
      <4>1. Ingest(w, Head(buffer[w]))
        BY <2>4, <3>4 DEF Replay
      <4> QED
        BY <3>1, <3>2, <4>1, IngestHolds
    <3> QED
      BY <3>3, <3>4
  <2>5. CASE Flush(w) \/ Finalize(w)
    <3>1. Delta(w, pending[w]) \in Seq(Record) /\ Rec(w, "terminal", <<>>, MarkSize) \in Record
      BY <1>0, RecordsMade DEF HoldsTyped
    <3>2. Append(Delta(w, pending[w]), Rec(w, "terminal", <<>>, MarkSize)) \in Seq(Record)
      BY <3>1
    <3> QED
      BY <1>2, <2>5, <3>1, <3>2 DEF Flush, Finalize
  <2>6. CASE Begin(w)
    <3>1. todo[w] \in Seq(Record) /\ todo[w] # <<>> /\ out[w] = Nothing
      BY <1>0, <2>6 DEF Begin, HoldsTyped
    <3>2. Head(todo[w]) \in Record /\ Tail(todo[w]) \in Seq(Record) /\ Mark(w) \in Record
      BY <3>1, RecordsMade
    <3>3. UNCHANGED out \/ out' = [out EXCEPT ![w] = Head(todo[w])] \/ out' = [out EXCEPT ![w] = Mark(w)]
      BY <2>6, Zenon DEF Begin, Recover, Decide
    <3>4. PICK r \in Record \cup {Nothing} : out' = [out EXCEPT ![w] = r]
      <4>1. UNCHANGED out => out' = [out EXCEPT ![w] = Nothing]
        BY <1>0, <3>1
      <4> QED
        BY <3>2, <3>3, <4>1
    <3>5. todo' = [todo EXCEPT ![w] = Tail(todo[w])] /\ UNCHANGED <<buffer, pending>>
      BY <2>6 DEF Begin
    <3> QED
      BY <1>3, <3>2, <3>4, <3>5
  <2>7. CASE Skip(w)
    BY <1>00, <1>2, <2>7 DEF Skip
  <2>8. CASE Write(w)
    BY <1>0, <2>8 DEF Write, HoldsTyped
  <2> QED
    BY <1>4, <2>1, <2>2, <2>3, <2>4, <2>5, <2>6, <2>7, <2>8 DEF Step
<1>5. ASSUME NEW w \in Writers, Failure(w) PROVE \A v \in Writers : HoldsTyped(v)'
  <2>1. CASE OpenFails(w) \/ SyncFails(w)
    BY <1>1, <2>1 DEF OpenFails, SyncFails
  <2>2. CASE WriteFails(w)
    BY <1>0, <2>2 DEF WriteFails, HoldsTyped
  <2>3. CASE Die(w)
    BY <1>00, <1>3, <2>3 DEF Die
  <2> QED
    BY <1>5, <2>1, <2>2, <2>3 DEF Failure
<1>6. CASE Repair \/ ReadEvents \/ ReadFails \/ ReadStatus \/ UNCHANGED vars
  BY <1>1, <1>6 DEF Repair, ReadEvents, ReadFails, ReadStatus, vars
<1> QED
  BY <1>4, <1>5, <1>6 DEF Next

LEMMA FileStaysTyped ==
  ASSUME TypeOK, JournalInv, Follows, [Next]_vars
  PROVE  FileTyped'
<1>0. FileTyped /\ \A v \in Writers : HoldsTyped(v)
  BY TypesOfAJournal
<1> USE DEF disk, intake, work, watcher
<1>1. ASSUME UNCHANGED <<disk, view, watcher>> PROVE FileTyped'
  BY <1>0, <1>1 DEF FileTyped
<1>2. ASSUME NEW v \in View
      PROVE  /\ CutStamp \in Nat /\ Recovered(Base(v)) \in View
             /\ [Recovered(Base(v)) EXCEPT !.truncated = TRUE] \in View
  <2>1. CutStamp \in Nat /\ Recovered(Base(v)) \in View
    BY RecoveredIsTyped
  <2> QED
    BY <2>1 DEF View
<1>3. ASSUME NEW w \in Writers, Step(w) PROVE FileTyped'
  <2>1. CASE Open(w)
    <3>1. /\ CutStamp \in Nat /\ Recovered(Blank) \in View
      <4>1. view[w] \in View
        BY <1>0 DEF FileTyped
      <4>2. Blank \in View
        BY <4>1, RecoveredIsTyped
      <4> QED
        BY <4>2, RecoveredIsTyped
    <3>2. [Recovered(Blank) EXCEPT !.stat.stamp = CutStamp + 1] \in View
      BY <3>1 DEF View
    <3>3. view' = [view EXCEPT ![w] = [Recovered(Blank) EXCEPT !.stat.stamp = CutStamp + 1]]
      BY <2>1 DEF Open
    <3>4. torn' = FALSE /\ first' = Nothing /\ stamp' = CutStamp + 1 /\ UNCHANGED <<file, lock, shown, watch>>
      BY <2>1 DEF Open
    <3>5. view' \in [Writers -> View]
      BY <1>0, <3>2, <3>3 DEF FileTyped
    <3>6. torn' \in BOOLEAN /\ stamp' \in Nat /\ first' = Nothing
      <4>1. CutStamp + 1 \in Nat
        BY <3>1
      <4> QED
        BY <3>4, <4>1, Zenon
    <3>7. UNCHANGED <<file, lock, shown, watch>>
      BY <3>4
    <3> QED
      BY <1>0, <3>5, <3>6, <3>7 DEF FileTyped
  <2>2. CASE Begin(w)
    <3>1. view[w] \in View
      BY <1>0 DEF FileTyped
    <3>2. /\ \/ UNCHANGED view \/ view' = [view EXCEPT ![w] = Recovered(Base(view[w]))]
             \/ view' = [view EXCEPT ![w] = [Recovered(Base(view[w])) EXCEPT !.truncated = TRUE]]
          /\ UNCHANGED lock \/ lock' = w
      BY <2>2 DEF Begin, Recover, Decide
    <3>3. view' \in [Writers -> View]
      BY <1>0, <1>2, <3>1, <3>2 DEF FileTyped
    <3>4. /\ UNCHANGED <<file, shown, watch>>
          /\ \/ torn' = FALSE /\ first' = Nothing /\ stamp' = CutStamp
             \/ UNCHANGED <<torn, first, stamp>>
      BY <2>2 DEF Begin, Recover, Cut
    <3> QED
      BY <1>0, <1>2, <3>1, <3>2, <3>3, <3>4 DEF FileTyped
  <2>3. CASE Write(w)
    <3>1. view[w] \in View /\ out[w] \in Record /\ file \in Seq(Numbered) /\ stamp \in Nat
      BY <1>0, <2>3 DEF Write, FileTyped, HoldsTyped
    <3>2. [seq |-> view[w].seq + 1, record |-> out[w]] \in Numbered
      BY <3>1 DEF View, Numbered
    <3>3. file' \in Seq(Numbered)
      BY <2>3, <3>1, <3>2 DEF Write
    <3> DEFINE next == [seq |-> view[w].seq + 1,
                        count |-> IF Ordinary(out[w]) THEN view[w].count + 1 ELSE view[w].count,
                        read |-> view[w].read + 1,
                        marked |-> view[w].marked \/ out[w].kind = "journal.truncated",
                        truncated |-> view[w].truncated \/ out[w].kind = "journal.truncated",
                        stat |-> [known |-> TRUE, records |-> view[w].read + 1, stamp |-> stamp]]
    <3>4. next \in View
      <4>1. /\ view[w].seq + 1 \in Nat /\ view[w].read + 1 \in Nat
            /\ (IF Ordinary(out[w]) THEN view[w].count + 1 ELSE view[w].count) \in Nat
        BY <3>1 DEF View
      <4>2. /\ (view[w].marked \/ out[w].kind = "journal.truncated") \in BOOLEAN
            /\ (view[w].truncated \/ out[w].kind = "journal.truncated") \in BOOLEAN
        OBVIOUS
      <4> QED
        BY <3>1, <4>1, <4>2 DEF View
    <3>5. view' = [view EXCEPT ![w] = next] /\ lock' = Nobody /\ UNCHANGED <<torn, first, stamp, shown, watch>>
      BY <2>3 DEF Write
    <3> HIDE DEF next
    <3>6. view' \in [Writers -> View]
      BY <1>0, <3>4, <3>5 DEF FileTyped
    <3> QED
      BY <1>0, <3>3, <3>5, <3>6 DEF FileTyped
  <2>4. CASE ~ (Open(w) \/ Begin(w) \/ Write(w))
    <3>1. UNCHANGED <<disk, view, watcher>>
      BY <1>3, <2>4 DEF Step, FrameArrives, FrameIgnored, FrameBuffered, BufferOverflows, SetSession,
                        Replay, Flush, Skip, Finalize, Close
    <3> QED
      BY <1>1, <3>1
  <2> QED
    BY <2>1, <2>2, <2>3, <2>4
<1>4. ASSUME NEW w \in Writers, Failure(w) PROVE FileTyped'
  <2>1. /\ UNCHANGED <<file, stamp, view, shown, watch>>
        /\ UNCHANGED torn \/ torn' \in BOOLEAN
        /\ UNCHANGED lock \/ lock' = Nobody
        /\ UNCHANGED first \/ first' = Nothing \/ (first' = [seq |-> 1, record |-> out[w]] /\ out[w] # Nothing)
    BY <1>4 DEF Failure, OpenFails, WriteFails, SyncFails, Die, LeavesPart
  <2>2. out[w] # Nothing => [seq |-> 1, record |-> out[w]] \in Numbered
    BY <1>0 DEF HoldsTyped, Numbered
  <2> QED
    BY <1>0, <2>1, <2>2 DEF FileTyped
<1>5. CASE ReadEvents
  <2>1. Readable \in Seq(Numbered) /\ shown \in Seq(Numbered)
    BY <1>0 DEF Readable, FileTyped
  <2>2. News \in Seq(Numbered)
    <3>1. PICK s \in Seq(Numbered), k \in Nat, n \in Nat : s = Readable /\ n = Len(s) /\ k = Len(shown)
      BY <2>1
    <3>2. News = SubSeq(s, k + 1, n)
      BY <3>1, ShowsTheRest DEF JournalInv
    <3>3. \A i \in (k + 1) .. n : s[i] \in Numbered
      BY <3>1
    <3> QED
      BY <3>2, <3>3, SubSeqProperties
  <2> QED
    BY <1>0, <1>5, <2>1, <2>2 DEF ReadEvents, FileTyped
<1>6. CASE ReadStatus \/ ReadFails
  BY <1>0, <1>6 DEF ReadStatus, ReadFails, FileTyped
<1>7. CASE Repair \/ UNCHANGED vars
  BY <1>1, <1>7 DEF Repair, vars
<1> QED
  BY <1>3, <1>4, <1>5, <1>6, <1>7 DEF Next

\* What is given, gathered, written, read back and shown by the writers and the spectator is
\* what it is taken for, and stays within the bounds of the buffer and of the text.
THEOREM JournalTypesCorrect == Spec => []TypeOK
<1>1. TypeOK /\ JournalInv /\ Follows /\ [Next]_vars => TypeOK'
  <2>1. TypeOK /\ JournalInv /\ Follows /\ [Next]_vars
        => FileTyped' /\ LivesTyped' /\ \A w \in Writers : HoldsTyped(w)'
    BY FileStaysTyped, LivesStayTyped, HoldingsStayTyped DEF JournalInv
  <2> QED
    BY <2>1, Zenon DEF TypeOK, FileTyped, LivesTyped, HoldsTyped
<1> QED
  BY <1>1, JournalTypedInitially, JournalInvariance, FollowsAlways, PTL DEF Spec

=============================================================================
