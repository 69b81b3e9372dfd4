--------------------------- MODULE SessionLineage ---------------------------
(***************************************************************************)
(* The session table of the host, which native compression, branching and  *)
(* delegation extend, and the proof that one session continues another     *)
(* (compression_continuation): the permission to act for a conversation    *)
(* under a session id it did not have before.  The host is the environment. *)
(***************************************************************************)
EXTENDS Naturals, FiniteSets

CONSTANTS
  MaxSessions,  \* rows of the table; ids are given out in order
  Lanes         \* session keys: the lanes a conversation is reached by

ASSUME SessionLineageAssumption == MaxSessions \in Nat /\ Lanes # {}

VARIABLES
  db,           \* the rows
  conversation, \* history: the first session of the conversation a row is of
  blurred       \* history: conversations that left the host's own rules

lineage == <<db, conversation, blurred>>

Sessions == 1..MaxSessions
Kinds    == {"branch", "delegate"}    \* boundary markers, in this order

\* "open" also when it ended, but not by compression.
Row == [parent : 0..MaxSessions, lane : Lanes, mark : [Kinds -> 0..MaxSessions],
        end : {"open", "compressing", "compression"}]

Known == DOMAIN db

LineageTypeOK ==
  /\ Known \subseteq Sessions
  /\ db \in [Known -> Row]
  /\ conversation \in [Known -> Sessions]
  /\ blurred \subseteq Sessions

NoMark == [k \in Kinds |-> 0]

Fresh == Cardinality(Known) + 1

-----------------------------------------------------------------------------
(* The proof, over one snapshot of the table.                               *)

Children(s) == {c \in Known : db[c].parent = s}

\* A child that starts a conversation of its own says so with its marker.
Starts(c, s) == \E k \in Kinds : db[c].mark[k] = s

\* Markers are compared one after the other: one that is not the parent's own
\* makes the table contradictory, unless a boundary was found before.
Contradicts(c, s) ==
  \/ db[c].mark["branch"] \notin {s, db[s].mark["branch"]}
  \/ db[c].mark["branch"] # s /\ db[c].mark["delegate"] \notin {s, db[s].mark["delegate"]}

Heirs(s) == {c \in Children(s) : ~ Starts(c, s)}

\* Mutant: a compression that is not finished counts.
SuccessorTooSoon(s) ==
  IF /\ db[s].end # "open"
     /\ \A c \in Children(s) : ~ Contradicts(c, s)
     /\ Cardinality(Heirs(s)) = 1
  THEN CHOOSE c \in Heirs(s) : TRUE
  ELSE 0

Successor(s) ==
  IF /\ db[s].end = "compression"
     /\ \A c \in Children(s) : ~ Contradicts(c, s)
     /\ Cardinality(Heirs(s)) = 1
  THEN CHOOSE c \in Heirs(s) : TRUE
  ELSE 0

\* The walk along unique successors; 0 once it leaves the table.
Walk(p) ==
  LET at[n \in 0..MaxSessions] ==
        IF n = 0 THEN p ELSE IF at[n - 1] = 0 THEN 0 ELSE Successor(at[n - 1])
  IN at

IsTip(s) == s # 0 /\ db[s].end = "open"

\* A lane may change under one ui session only.
Compatible(s, first, uiCorrelated) == uiCorrelated \/ db[s].lane = db[first].lane

\* compression_continuation: c is met on the way from p to an intact tip.
Continues(p, c, uiCorrelated) ==
  /\ p \in Known /\ c \in Known
  /\ LET at == Walk(p)
     IN \E n \in 0..MaxSessions :
          /\ IsTip(at[n])
          /\ \A k \in 0..n : Compatible(at[k], p, uiCorrelated)
          /\ \E k \in 0..n : at[k] = c

-----------------------------------------------------------------------------
(* The host.                                                                *)

\* A new row opens; its conversation is `of`, or its own.
Insert(table, row, of) ==
  /\ Fresh \in Sessions
  /\ db' = [s \in Known \cup {Fresh} |-> IF s = Fresh THEN row ELSE table[s]]
  /\ conversation' = [s \in Known \cup {Fresh} |-> IF s = Fresh THEN of ELSE conversation[s]]

Opened(parent, lane, mark) ==
  [parent |-> parent, lane |-> lane, mark |-> mark, end |-> "open"]

Marked(s, end) == [db EXCEPT ![s].end = end]

Begin(l) ==
  /\ Insert(db, Opened(0, l, NoMark), Fresh)
  /\ UNCHANGED blurred

\* Compression ends a session and continues in a child, which inherits the
\* boundary markers; the lane may rotate with it.
Compress(s, l) ==
  /\ s \in Known /\ db[s].end \in {"open", "compressing"}
  /\ Insert(Marked(s, "compression"), Opened(s, l, db[s].mark), conversation[s])
  /\ UNCHANGED blurred

\* ... and may be seen half done.
StartCompressing(s) ==
  /\ s \in Known /\ db[s].end = "open"
  /\ db' = Marked(s, "compressing")
  /\ UNCHANGED <<conversation, blurred>>

\* A branch or a delegation leaves a session as it is, and names it.
Depart(s, k) ==
  /\ s \in Known
  /\ Insert(db, Opened(s, db[s].lane, [db[s].mark EXCEPT ![k] = s]), Fresh)
  /\ UNCHANGED blurred

\* A child the host's rules do not account for: a second continuation, or one
\* whose markers are not its parent's.
Blur(s, mark) ==
  /\ s \in Known /\ db[s].end # "open"
  /\ Insert(db, Opened(s, db[s].lane, mark), Fresh)
  /\ blurred' = blurred \cup {conversation[s]}

LineageInit ==
  /\ db = <<>>
  /\ conversation = <<>>
  /\ blurred = {}

-----------------------------------------------------------------------------
(* What the proof is worth.                                                 *)

Follows(p, c) == conversation[p] = conversation[c] /\ p <= c

\* Nobody is let in by mistake: what is proven to continue a session is a later
\* session of the same conversation, never a branch, a delegate or the past.
ProvenIsTheConversation ==
  \A p, c \in Known : Continues(p, c, TRUE) => Follows(p, c)
=============================================================================
