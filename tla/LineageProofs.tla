---------------------------- MODULE LineageProofs ----------------------------
(***************************************************************************)
(* What the walk of compression_continuation proves, for a table of any      *)
(* size.  It is a recursive function: what it computes is shown by induction *)
(* over its steps, stated for sets of numbers.                              *)
(***************************************************************************)
EXTENDS SessionLineage, FiniteSetTheorems, TLAPS

-----------------------------------------------------------------------------
(* Induction over the natural numbers                                       *)

\* The initial segments up to the members of a set are ordered by inclusion, and
\* the least of them belongs to the least member.
LEMMA LeastMember ==
  ASSUME NEW T, T \subseteq Nat, T # {}
  PROVE  \E x \in T : \A y \in T : x <= y
<1> DEFINE Upto(n) == 0..n
           I == {Upto(n) : n \in T}
<1>1. I \subseteq FiniteSubsetsOf(Nat)
  <2>1. \A n \in T : IsFiniteSet(0..n)
    BY FS_Interval
  <2> QED
    BY <2>1 DEF FiniteSubsetsOf
<1>2. PICK m \in I : \A k \in I : <<k, m>> \notin StrictSubsetOrdering(Nat)
  <2>1. IsWellFoundedOn(StrictSubsetOrdering(Nat), FiniteSubsetsOf(Nat))
    BY FS_StrictSubsetOrderingWellFounded
  <2>2. I # {}
    OBVIOUS
  <2> HIDE DEF I
  <2> QED
    BY WFMin, <1>1, <2>1, <2>2, Zenon
<1>3. PICK x \in T : m = Upto(x)
  OBVIOUS
<1>4. ASSUME NEW y \in T, y < x PROVE FALSE
  <2>1. <<Upto(y), Upto(x)>> \in StrictSubsetOrdering(Nat)
    <3>1. Upto(y) \subseteq Upto(x) /\ x \in Upto(x) /\ x \notin Upto(y)
      BY <1>4
    <3>2. Upto(y) \in SUBSET Nat /\ Upto(x) \in SUBSET Nat
      OBVIOUS
    <3> HIDE DEF Upto
    <3> QED
      BY <3>1, <3>2 DEF StrictSubsetOrdering
  <2> QED
    BY <1>2, <1>3, <2>1
<1> QED
  BY <1>3, <1>4

LEMMA Induction ==
  ASSUME NEW T, 0 \in T, \A n \in Nat : n \in T => n + 1 \in T
  PROVE  Nat \subseteq T
<1> SUFFICES ASSUME Nat \ T # {} PROVE FALSE
  OBVIOUS
<1>1. PICK x \in Nat \ T : \A y \in Nat \ T : x <= y
  BY LeastMember
<1>2. x # 0 /\ x - 1 \in Nat /\ x - 1 \in T
  BY <1>1
<1> QED
  BY <1>1, <1>2

-----------------------------------------------------------------------------
(* The walk                                                                 *)

Onward(s) == IF s = 0 THEN 0 ELSE Successor(s)

\* The walk starts at p and goes from each session to its successor.
LEMMA WalkSteps ==
  ASSUME NEW p
  PROVE  /\ Walk(p)[0] = p
         /\ \A n \in 0..MaxSessions : n + 1 \in 0..MaxSessions => Walk(p)[n + 1] = Onward(Walk(p)[n])
<1> USE SessionLineageAssumption
<1> DEFINE T == {m \in Nat : \E f : f = [n \in 0..m |-> IF n = 0 THEN p ELSE Onward(f[n - 1])]}
<1>1. 0 \in T
  <2> DEFINE f == [n \in 0..0 |-> p]
  <2>1. f = [n \in 0..0 |-> IF n = 0 THEN p ELSE Onward(f[n - 1])]
    OBVIOUS
  <2> QED
    BY <2>1
<1>2. ASSUME NEW m \in Nat, m \in T PROVE m + 1 \in T
  <2>1. PICK f : f = [n \in 0..m |-> IF n = 0 THEN p ELSE Onward(f[n - 1])]
    BY <1>2
  <2> DEFINE g == [n \in 0..(m + 1) |-> IF n = m + 1 THEN Onward(f[m]) ELSE f[n]]
  <2>2. g = [n \in 0..(m + 1) |-> IF n = 0 THEN p ELSE Onward(g[n - 1])]
    BY <2>1
  <2> HIDE DEF g
  <2>3. \E h : h = [n \in 0..(m + 1) |-> IF n = 0 THEN p ELSE Onward(h[n - 1])]
    BY <2>2
  <2> QED
    BY <2>3
<1>3. MaxSessions \in T
  BY <1>1, <1>2, Induction
<1>4. PICK f : f = [n \in 0..MaxSessions |-> IF n = 0 THEN p ELSE Onward(f[n - 1])]
  BY <1>3
<1>5. Walk(p) = [n \in 0..MaxSessions |-> IF n = 0 THEN p ELSE Onward(Walk(p)[n - 1])]
  BY <1>4 DEF Walk, Onward
<1>6. Walk(p)[0] = p
  BY <1>5
<1>7. ASSUME NEW n \in 0..MaxSessions, n + 1 \in 0..MaxSessions
      PROVE  Walk(p)[n + 1] = Onward(Walk(p)[n])
  BY <1>5, <1>7
<1> QED
  BY <1>6, <1>7
-----------------------------------------------------------------------------
(* The table                                                                *)

\* Ids are given out in order, and a row refers to earlier ones only.
InOrder ==
  /\ \E n \in 0..MaxSessions : Known = 1..n
  /\ \A s \in Known : db[s].parent < s /\ \A k \in Kinds : db[s].mark[k] < s

\* The child that a compression continued in stays among the heirs for good.
HeirOf(c, s) ==
  db[c].parent = s /\ s < c /\ conversation[c] = conversation[s] /\ db[c].mark = db[s].mark

HasHeir == \A s \in Known : db[s].end = "compression" => \E c \in Known : HeirOf(c, s)

LineageInv == LineageTypeOK /\ InOrder /\ HasHeir

\* What the host does to its table, and what it may be found to have done.
HostStep ==
  \/ \E l \in Lanes : Begin(l)
  \/ \E s \in Sessions, l \in Lanes : Compress(s, l)
  \/ \E s \in Sessions : StartCompressing(s)
  \/ \E s \in Sessions, k \in Kinds : Depart(s, k)
  \/ \E s \in Known : Blur(s, db[s].mark)

LEMMA FreshIsNext ==
  ASSUME NEW n \in Nat, Known = 1..n
  PROVE  Fresh = n + 1
<1>1. 1 \in Int /\ n \in Int
  OBVIOUS
<1>2. Cardinality(1..n) = IF 1 > n THEN 0 ELSE n - 1 + 1
  BY <1>1, FS_Interval
<1> QED
  BY <1>2 DEF Fresh

\* A new row is added behind the others.
LEMMA Inserted ==
  ASSUME LineageInv, NEW table, DOMAIN table = Known, NEW row, NEW of, Insert(table, row, of)
  PROVE  /\ Fresh \in Sessions /\ Fresh \notin Known /\ \A s \in Known : s < Fresh
         /\ \E n \in 0..MaxSessions : Known' = 1..n
         /\ Known' = Known \cup {Fresh}
         /\ \A s \in Known : db'[s] = table[s] /\ conversation'[s] = conversation[s]
         /\ db'[Fresh] = row /\ conversation'[Fresh] = of
         /\ db' \in [Known' -> {table[s] : s \in Known} \cup {row}]
         /\ conversation' \in [Known' -> {conversation[s] : s \in Known} \cup {of}]
<1> USE SessionLineageAssumption
<1>1. PICK n \in 0..MaxSessions : Known = 1..n
  BY DEF LineageInv, InOrder
<1>2. Fresh = n + 1 /\ Fresh \in Sessions
  BY <1>1, FreshIsNext DEF Insert
<1>3. /\ db' = [x \in Known \cup {Fresh} |-> IF x = Fresh THEN row ELSE table[x]]
      /\ conversation' = [x \in Known \cup {Fresh} |-> IF x = Fresh THEN of ELSE conversation[x]]
  BY DEF Insert
<1>4. Known' = Known \cup {Fresh}
  BY <1>3 DEF Known
<1>5. Fresh \notin Known /\ \A s \in Known : s < Fresh
  BY <1>1, <1>2
<1>6. \E m \in 0..MaxSessions : Known' = 1..m
  <2>1. n + 1 \in 0..MaxSessions
    BY <1>2 DEF Sessions
  <2>2. Known' = 1..(n + 1)
    BY <1>1, <1>2, <1>4
  <2> QED
    BY <2>1, <2>2
<1> QED
  BY <1>2, <1>3, <1>4, <1>5, <1>6

\* It keeps the table in order if it refers to earlier rows, and if every session
\* that ends by compression with it continues in it.
LEMMA RowKeepsOrder ==
  ASSUME LineageInv, NEW table \in [Known -> Row], NEW row \in Row, NEW of \in Sessions,
         Insert(table, row, of), blurred' \subseteq Sessions,
         \A s \in Known : table[s].parent = db[s].parent /\ table[s].mark = db[s].mark,
         row.end = "open", row.parent < Fresh, \A k \in Kinds : row.mark[k] < Fresh,
         \A s \in Known :
           table[s].end = "compression" =>
             \/ db[s].end = "compression"
             \/ row.parent = s /\ row.mark = db[s].mark /\ of = conversation[s]
  PROVE  LineageInv'
<1>1. /\ Fresh \in Sessions /\ Fresh \notin Known /\ \A s \in Known : s < Fresh
      /\ \E n \in 0..MaxSessions : Known' = 1..n
      /\ Known' = Known \cup {Fresh}
      /\ \A s \in Known : db'[s] = table[s] /\ conversation'[s] = conversation[s]
      /\ db'[Fresh] = row /\ conversation'[Fresh] = of
      /\ db' \in [Known' -> {table[s] : s \in Known} \cup {row}]
      /\ conversation' \in [Known' -> {conversation[s] : s \in Known} \cup {of}]
  BY Inserted
<1>2. PICK new : new = Fresh
  OBVIOUS
<1>3. LineageTypeOK'
  <2>1. Known' \subseteq Sessions
    BY <1>1 DEF LineageInv, LineageTypeOK
  <2>2. db' \in [Known' -> Row]
    BY <1>1
  <2>3. conversation' \in [Known' -> Sessions]
    BY <1>1 DEF LineageInv, LineageTypeOK
  <2> QED
    BY <2>1, <2>2, <2>3 DEF LineageTypeOK
<1>4. InOrder'
  <2>1. ASSUME NEW s \in Known' PROVE db'[s].parent < s /\ \A k \in Kinds : db'[s].mark[k] < s
    <3>1. CASE s \in Known
      BY <1>1, <3>1 DEF LineageInv, InOrder
    <3>2. CASE s = Fresh
      BY <1>1, <3>2
    <3> QED
      BY <1>1, <3>1, <3>2
  <2> QED
    BY <1>1, <2>1 DEF InOrder
<1>5. HasHeir'
  <2>1. ASSUME NEW s \in Known', db'[s].end = "compression" PROVE \E c \in Known' : HeirOf(c, s)'
    <3>1. CASE s \in Known /\ db[s].end = "compression"
      <4>1. PICK c \in Known : HeirOf(c, s)
        BY <3>1 DEF LineageInv, HasHeir
      <4>2. HeirOf(c, s)'
        BY <1>1, <3>1, <4>1 DEF HeirOf
      <4> QED
        BY <1>1, <4>2
    <3>2. CASE s \in Known /\ db[s].end # "compression"
      <4>1. row.parent = s /\ row.mark = db[s].mark /\ of = conversation[s]
        BY <1>1, <2>1, <3>2
      <4>2. new \in Known' /\ HeirOf(new, s)'
        BY <1>1, <1>2, <3>2, <4>1 DEF HeirOf
      <4> QED
        BY <4>2
    <3>3. CASE s = Fresh
      BY <1>1, <2>1, <3>3
    <3> QED
      BY <1>1, <3>1, <3>2, <3>3
  <2> QED
    BY <2>1 DEF HasHeir
<1> QED
  BY <1>3, <1>4, <1>5 DEF LineageInv

LEMMA TableInitially == LineageInit => LineageInv
<1> SUFFICES ASSUME LineageInit PROVE LineageInv
  OBVIOUS
<1>1. Known = {} /\ Known = 1..0 /\ 0 \in 0..MaxSessions
  BY SessionLineageAssumption DEF LineageInit, Known
<1>2. db \in [Known -> Row] /\ conversation \in [Known -> Sessions]
  BY <1>1 DEF LineageInit
<1>3. LineageTypeOK
  BY <1>1, <1>2 DEF LineageInit, LineageTypeOK
<1> QED
  BY <1>1, <1>3 DEF LineageInv, InOrder, HasHeir

\* The host keeps its table in order, whatever it is found to have done.
LEMMA HostKeeps == LineageInv /\ (HostStep \/ UNCHANGED lineage) => LineageInv'
<1> SUFFICES ASSUME LineageInv, HostStep \/ UNCHANGED lineage PROVE LineageInv'
  OBVIOUS
<1> USE SessionLineageAssumption
<1>0. /\ db \in [Known -> Row] /\ Known \subseteq Sessions
      /\ conversation \in [Known -> Sessions] /\ blurred \subseteq Sessions
  BY DEF LineageInv, LineageTypeOK
<1>1. \A s \in Known : db[s].parent < s /\ \A k \in Kinds : db[s].mark[k] < s
  BY DEF LineageInv, InOrder
<1>2. ASSUME NEW table, DOMAIN table = Known, NEW row, NEW of, Insert(table, row, of)
      PROVE  Fresh \in Sessions /\ \A s \in Known : s < Fresh
  BY <1>2, Inserted
<1>3. ASSUME NEW l \in Lanes, NEW n \in 0..MaxSessions, NEW mark \in [Kinds -> 0..MaxSessions]
      PROVE  /\ Opened(n, l, mark) \in Row
             /\ Opened(n, l, mark).end = "open" /\ Opened(n, l, mark).parent = n
             /\ Opened(n, l, mark).mark = mark
  BY DEF Opened, Row
<1>4. ASSUME NEW l \in Lanes, Begin(l) PROVE LineageInv'
  <2>1. NoMark \in [Kinds -> 0..MaxSessions]
    BY DEF NoMark
  <2>2. Insert(db, Opened(0, l, NoMark), Fresh) /\ blurred' = blurred
    BY <1>4 DEF Begin
  <2>3. Fresh \in Sessions
    BY <1>0, <1>2, <2>2
  <2>4. 0 < Fresh /\ \A k \in Kinds : NoMark[k] < Fresh
    BY <2>3 DEF NoMark, Sessions
  <2> QED
    BY <1>0, <1>3, <2>1, <2>2, <2>3, <2>4, RowKeepsOrder
<1>5. ASSUME NEW s \in Sessions, NEW l \in Lanes, Compress(s, l) PROVE LineageInv'
  <2> DEFINE table == Marked(s, "compression")
             row == Opened(s, l, db[s].mark)
  <2>1. s \in Known /\ Insert(table, row, conversation[s]) /\ blurred' = blurred
    BY <1>5 DEF Compress
  <2>2. table \in [Known -> Row]
    BY <1>0, <2>1 DEF Marked, Row
  <2>3. \A r \in Known : /\ table[r].parent = db[r].parent /\ table[r].mark = db[r].mark
                         /\ r # s => table[r] = db[r]
    BY <1>0, <2>1 DEF Marked, Row
  <2>4. db[s].mark \in [Kinds -> 0..MaxSessions] /\ s \in 0..MaxSessions
    BY <1>0, <2>1 DEF Row, Sessions
  <2>5. row \in Row /\ row.end = "open" /\ row.parent = s /\ row.mark = db[s].mark
    BY <1>3, <2>4
  <2>6. Fresh \in Sessions /\ s < Fresh
    BY <1>2, <2>1, <2>2
  <2>7. \A k \in Kinds : row.mark[k] < Fresh
    BY <1>0, <1>1, <2>1, <2>4, <2>5, <2>6 DEF Sessions
  <2>8. conversation[s] \in Sessions
    BY <1>0, <2>1
  <2> HIDE DEF table, row
  <2>9. \A r \in Known :
          table[r].end = "compression" =>
            \/ db[r].end = "compression"
            \/ row.parent = r /\ row.mark = db[r].mark /\ conversation[s] = conversation[r]
    BY <2>3, <2>5
  <2>10. blurred' \subseteq Sessions /\ row.parent < Fresh
    BY <1>0, <2>1, <2>5, <2>6
  <2> QED
    BY <2>1, <2>2, <2>3, <2>5, <2>7, <2>8, <2>9, <2>10, RowKeepsOrder
<1>6. ASSUME NEW s \in Sessions, StartCompressing(s) PROVE LineageInv'
  <2>1. s \in Known /\ db[s].end = "open" /\ db' = [db EXCEPT ![s].end = "compressing"]
        /\ conversation' = conversation /\ blurred' = blurred
    BY <1>6 DEF StartCompressing, Marked
  <2>2. Known' = Known
    BY <1>0, <2>1 DEF Known
  <2>3. \A r \in Known : /\ db'[r].parent = db[r].parent /\ db'[r].mark = db[r].mark
                         /\ db'[r].end = "compression" => db[r].end = "compression"
    BY <1>0, <2>1 DEF Row
  <2>4. LineageTypeOK'
    BY <1>0, <2>1, <2>2 DEF LineageTypeOK, Row
  <2>5. InOrder'
    BY <2>2, <2>3 DEF LineageInv, InOrder
  <2>6. HasHeir'
    BY <2>1, <2>2, <2>3 DEF LineageInv, HasHeir, HeirOf
  <2> QED
    BY <2>4, <2>5, <2>6 DEF LineageInv
<1>7. ASSUME NEW s \in Sessions, NEW mark \in [Kinds -> 0..MaxSessions], s \in Known,
             \A k \in Kinds : mark[k] <= s,
             Insert(db, Opened(s, db[s].lane, mark), Fresh), blurred' \subseteq Sessions
      PROVE  LineageInv'
  <2>1. db[s].lane \in Lanes /\ s \in 0..MaxSessions
    BY <1>0, <1>7 DEF Row, Sessions
  <2>2. Fresh \in Sessions /\ s < Fresh
    BY <1>0, <1>2, <1>7
  <2>3. \A k \in Kinds : mark[k] < Fresh
    BY <1>7, <2>2 DEF Sessions
  <2> DEFINE row == Opened(s, db[s].lane, mark)
  <2>4. row \in Row /\ row.end = "open" /\ row.parent = s /\ row.mark = mark
    BY <1>3, <2>1
  <2>5. Insert(db, row, Fresh)
    BY <1>7
  <2> HIDE DEF row
  <2> QED
    BY <1>0, <1>7, <2>2, <2>3, <2>4, <2>5, RowKeepsOrder
<1>8. ASSUME NEW s \in Sessions, NEW k \in Kinds, Depart(s, k) PROVE LineageInv'
  <2> DEFINE mark == [db[s].mark EXCEPT ![k] = s]
  <2>1. s \in Known /\ Insert(db, Opened(s, db[s].lane, mark), Fresh) /\ blurred' = blurred
    BY <1>8 DEF Depart
  <2>2. db[s].mark \in [Kinds -> 0..MaxSessions] /\ s \in 0..MaxSessions
    BY <1>0, <2>1 DEF Row, Sessions
  <2>3. mark \in [Kinds -> 0..MaxSessions] /\ \A i \in Kinds : mark[i] <= s
    BY <1>1, <2>1, <2>2
  <2> QED
    BY <1>0, <1>7, <2>1, <2>3
<1>9. ASSUME NEW s \in Known, Blur(s, db[s].mark) PROVE LineageInv'
  <2>1. /\ Insert(db, Opened(s, db[s].lane, db[s].mark), Fresh)
        /\ blurred' = blurred \cup {conversation[s]}
    BY <1>9 DEF Blur
  <2>2. db[s].mark \in [Kinds -> 0..MaxSessions] /\ conversation[s] \in Sessions /\ s \in Sessions
    BY <1>0 DEF Row
  <2>3. \A k \in Kinds : db[s].mark[k] <= s
    BY <1>1, <2>2 DEF Sessions
  <2> QED
    BY <1>0, <1>7, <2>1, <2>2, <2>3
<1>10. CASE UNCHANGED lineage
  BY <1>10 DEF lineage, LineageInv, LineageTypeOK, InOrder, HasHeir, HeirOf, Known
<1> QED
  BY <1>4, <1>5, <1>6, <1>8, <1>9, <1>10 DEF HostStep

-----------------------------------------------------------------------------
(* What the proof is worth                                                  *)

\* Ids are numbers, and to follow is an order.
LEMMA KnownAreNumbers ==
  ASSUME LineageInv
  PROVE  \A s \in Known : s \in Nat /\ s # 0
  BY SessionLineageAssumption DEF LineageInv, LineageTypeOK, Sessions

LEMMA FollowsSelf ==
  ASSUME LineageInv, NEW s \in Known
  PROVE  Follows(s, s)
  BY KnownAreNumbers DEF Follows

LEMMA FollowsTransitive ==
  ASSUME LineageInv, NEW s \in Known, NEW c \in Known, NEW e \in Known, Follows(s, c), Follows(c, e)
  PROVE  Follows(s, e)
  BY KnownAreNumbers DEF Follows

\* A unique heir is the child that the compression continued in: that one never
\* starts a conversation of its own, so a second heir would make two.
LEMMA SuccessorFollows ==
  ASSUME LineageInv, NEW s \in Known, Successor(s) # 0
  PROVE  Successor(s) \in Known /\ Follows(s, Successor(s))
<1>1. /\ db[s].end = "compression" /\ Cardinality(Heirs(s)) = 1
      /\ Successor(s) = CHOOSE c \in Heirs(s) : TRUE
  BY DEF Successor
<1>2. PICK c \in Known : HeirOf(c, s)
  BY <1>1 DEF LineageInv, HasHeir
<1>3. c \in Heirs(s)
  <2>1. \A k \in Kinds : db[c].mark[k] < s
    BY <1>2 DEF LineageInv, InOrder, HeirOf
  <2>2. ~ Starts(c, s)
    BY <2>1, KnownAreNumbers DEF Starts
  <2> QED
    BY <1>2, <2>2 DEF Heirs, Children, HeirOf
<1>4. IsFiniteSet(Heirs(s))
  <2>1. PICK n \in 0..MaxSessions : Known = 1..n
    BY DEF LineageInv, InOrder
  <2>2. IsFiniteSet(1..n)
    BY FS_Interval
  <2>3. Heirs(s) \subseteq 1..n
    BY <2>1 DEF Heirs, Children
  <2> QED
    BY <2>2, <2>3, FS_Subset
<1>5. PICK x : Heirs(s) = {x}
  BY <1>1, <1>4, FS_Singleton
<1>6. Successor(s) = c
  BY <1>1, <1>3, <1>5
<1> QED
  BY <1>2, <1>6 DEF HeirOf, Follows, LineageInv, LineageTypeOK, Sessions

\* So the walk from p stays in the conversation of p, and never goes back.
LEMMA WalkFollows ==
  ASSUME LineageInv, NEW p \in Known
  PROVE  \A n \in 0..MaxSessions :
           Walk(p)[n] = 0 \/ (Walk(p)[n] \in Known /\ Follows(p, Walk(p)[n]))
<1> DEFINE On(x) == x = 0 \/ (x \in Known /\ Follows(p, x))
           T == {n \in Nat : n \in 0..MaxSessions => On(Walk(p)[n])}
<1> USE SessionLineageAssumption
<1>1. 0 \in T
  <2>1. Walk(p)[0] = p
    BY WalkSteps
  <2>2. On(p)
    BY FollowsSelf
  <2> QED
    BY <2>1, <2>2
<1>2. ASSUME NEW n \in Nat, n \in T PROVE n + 1 \in T
  <2> SUFFICES ASSUME n + 1 \in 0..MaxSessions PROVE On(Walk(p)[n + 1])
    OBVIOUS
  <2>1. n \in 0..MaxSessions /\ Walk(p)[n + 1] = Onward(Walk(p)[n])
    BY WalkSteps
  <2>2. PICK x : x = Walk(p)[n]
    OBVIOUS
  <2>3. On(x)
    BY <1>2, <2>1, <2>2
  <2>4. CASE x = 0 \/ Successor(x) = 0
    BY <2>1, <2>2, <2>4 DEF Onward
  <2>5. CASE x # 0 /\ Successor(x) # 0
    <3>1. x \in Known /\ Follows(p, x)
      BY <2>3, <2>5
    <3>2. Successor(x) \in Known /\ Follows(x, Successor(x))
      BY <2>5, <3>1, SuccessorFollows
    <3>3. Walk(p)[n + 1] = Successor(x)
      BY <2>1, <2>2, <2>5 DEF Onward
    <3>4. Follows(p, Successor(x))
      BY <3>1, <3>2, FollowsTransitive
    <3> QED
      BY <3>2, <3>3, <3>4
  <2> QED
    BY <2>4, <2>5
<1>3. Nat \subseteq T
  <2> HIDE DEF T
  <2> QED
    BY <1>1, <1>2, Induction
<1> QED
  BY <1>3

\* Whatever may be asked of the lanes, what is proven follows.
LEMMA ContinuesFollows ==
  ASSUME LineageInv, NEW p, NEW c, NEW correlated \in BOOLEAN, Continues(p, c, correlated)
  PROVE  p \in Known /\ c \in Known /\ Follows(p, c)
<1>1. p \in Known /\ c \in Known
  BY DEF Continues
<1>2. PICK k \in 0..MaxSessions : Walk(p)[k] = c
  <2>1. PICK n \in 0..MaxSessions : \E k \in 0..n : Walk(p)[k] = c
    BY DEF Continues
  <2> QED
    BY <2>1, SessionLineageAssumption
<1>3. c # 0
  BY <1>1, KnownAreNumbers
<1> QED
  BY <1>1, <1>2, <1>3, WalkFollows

\* compression_continuation lets nobody in by mistake, in a table that the host kept.
LEMMA ProvenFollows == LineageInv => ProvenIsTheConversation
  BY ContinuesFollows DEF ProvenIsTheConversation

-----------------------------------------------------------------------------
(* The host over time                                                       *)

\* What is known of a session stays so.
LEMMA TableGrows ==
  ASSUME LineageInv, HostStep \/ UNCHANGED lineage
  PROVE  Known \subseteq Known' /\ \A s \in Known : conversation'[s] = conversation[s]
<1>0. db \in [Known -> Row]
  BY DEF LineageInv, LineageTypeOK
<1>1. ASSUME NEW table, DOMAIN table = Known, NEW row, NEW of, Insert(table, row, of)
      PROVE  Known \subseteq Known' /\ \A s \in Known : conversation'[s] = conversation[s]
  BY <1>1, Inserted
<1>2. CASE \E l \in Lanes : Begin(l)
  BY <1>0, <1>1, <1>2 DEF Begin
<1>3. ASSUME NEW s \in Sessions, NEW l \in Lanes, Compress(s, l)
      PROVE  Known \subseteq Known' /\ \A r \in Known : conversation'[r] = conversation[r]
  <2>1. DOMAIN Marked(s, "compression") = Known
    BY <1>0 DEF Marked
  <2> QED
    BY <1>1, <1>3, <2>1 DEF Compress
<1>4. CASE \E s \in Sessions : StartCompressing(s)
  BY <1>0, <1>4 DEF StartCompressing, Marked, Known
<1>5. CASE \E s \in Sessions, k \in Kinds : Depart(s, k)
  BY <1>0, <1>1, <1>5 DEF Depart
<1>6. CASE \E s \in Known : Blur(s, db[s].mark)
  BY <1>0, <1>1, <1>6 DEF Blur
<1>7. CASE UNCHANGED lineage
  BY <1>7 DEF lineage, Known
<1> QED
  BY <1>2, <1>3, <1>4, <1>5, <1>6, <1>7 DEF HostStep

-----------------------------------------------------------------------------
(* Nobody is turned away: the sessions of a conversation are one chain, as   *)
(* long as the table has only what the host's own rules account for.        *)

\* A session that was not compressed is the newest of its conversation, and whoever
\* came from it left; one that was continues in its heir, and in nothing between.
Sound(s) ==
  /\ \A c \in Children(s) : ~ Contradicts(c, s)
  /\ db[s].end # "compression" =>
       /\ \A c \in Children(s) : Starts(c, s)
       /\ \A e \in Known : conversation[e] = conversation[s] => e <= s
  /\ db[s].end = "compression" =>
       \E h \in Known :
         /\ HeirOf(h, s)
         /\ \A c \in Children(s) \ {h} : Starts(c, s)
         /\ \A e \in Known : conversation[e] = conversation[s] /\ s < e => h <= e

Chained ==
  \A s \in Known : /\ conversation[s] <= s
                   /\ conversation[s] \notin blurred => Sound(s)

\* A new row is no concern of a session that it does not come from, and that has no
\* new session in its conversation unless it was compressed.
LEMMA StaysSound ==
  ASSUME LineageInv, NEW table \in [Known -> Row], NEW row, NEW of, Insert(table, row, of),
         \A r \in Known : table[r].parent = db[r].parent /\ table[r].mark = db[r].mark,
         NEW s \in Known, Sound(s), table[s].end = "compression" <=> db[s].end = "compression",
         row.parent = s =>
           /\ \E k \in Kinds : row.mark[k] = s
           /\ \/ row.mark["branch"] = s
              \/ /\ row.mark["branch"] = db[s].mark["branch"]
                 /\ row.mark["delegate"] \in {s, db[s].mark["delegate"]},
         of = conversation[s] => db[s].end = "compression"
  PROVE  Sound(s)'
<1>1. /\ Fresh \in Sessions /\ Fresh \notin Known /\ \A r \in Known : r < Fresh
      /\ Known' = Known \cup {Fresh}
      /\ \A r \in Known : db'[r] = table[r] /\ conversation'[r] = conversation[r]
      /\ db'[Fresh] = row /\ conversation'[Fresh] = of
  BY Inserted
<1>2. PICK new : new = Fresh
  OBVIOUS
<1>3. \A c \in Known' : c \in Children(s)' <=> c \in Children(s) \/ (c = new /\ row.parent = s)
  BY <1>1, <1>2 DEF Children
<1>4. \A c \in Known : Starts(c, s)' <=> Starts(c, s)
  BY <1>1 DEF Starts
<1>5. row.parent = s => Starts(new, s)' /\ ~ Contradicts(new, s)'
  BY <1>1, <1>2 DEF Starts, Contradicts
<1>6. \A c \in Known : Contradicts(c, s)' <=> Contradicts(c, s)
  BY <1>1 DEF Contradicts
<1>7. db'[s].end = "compression" <=> db[s].end = "compression"
  BY <1>1
<1>8. \A c \in Children(s)' : ~ Contradicts(c, s)'
  BY <1>3, <1>5, <1>6 DEF Sound, Children
<1>9. ASSUME db[s].end # "compression"
      PROVE  /\ \A c \in Children(s)' : Starts(c, s)'
             /\ \A e \in Known' : conversation'[e] = conversation'[s] => e <= s
  BY <1>1, <1>3, <1>4, <1>5, <1>9 DEF Sound, Children
<1>10. ASSUME db[s].end = "compression"
       PROVE  \E h \in Known' :
                /\ HeirOf(h, s)'
                /\ \A c \in Children(s)' \ {h} : Starts(c, s)'
                /\ \A e \in Known' : conversation'[e] = conversation'[s] /\ s < e => h <= e
  <2>1. PICK h \in Known : /\ HeirOf(h, s)
                           /\ \A c \in Children(s) \ {h} : Starts(c, s)
                           /\ \A e \in Known : conversation[e] = conversation[s] /\ s < e => h <= e
    BY <1>10 DEF Sound
  <2>2. HeirOf(h, s)'
    BY <1>1, <2>1 DEF HeirOf
  <2>3. \A c \in Children(s)' \ {h} : Starts(c, s)'
    BY <1>3, <1>4, <1>5, <2>1 DEF Children
  <2>4. h <= Fresh
    BY <1>1, KnownAreNumbers DEF Sessions
  <2>5. \A e \in Known' : conversation'[e] = conversation'[s] /\ s < e => h <= e
    BY <1>1, <2>1, <2>4
  <2> QED
    BY <1>1, <2>2, <2>3, <2>5
<1> QED
  BY <1>7, <1>8, <1>9, <1>10 DEF Sound

\* A new row is the newest of its conversation, and nothing came from it yet.
LEMMA NewIsSound ==
  ASSUME LineageInv, NEW table \in [Known -> Row], NEW row, NEW of, Insert(table, row, of),
         \A r \in Known : table[r].parent = db[r].parent,
         row.end = "open", row.parent < Fresh
  PROVE  \A s \in Known' : s = Fresh => Sound(s)'
<1>1. /\ Fresh \in Sessions /\ Fresh \notin Known /\ \A r \in Known : r < Fresh
      /\ Known' = Known \cup {Fresh}
      /\ \A r \in Known : db'[r] = table[r] /\ conversation'[r] = conversation[r]
      /\ db'[Fresh] = row /\ conversation'[Fresh] = of
  BY Inserted
<1>2. TAKE s \in Known'
<1>3. HAVE s = Fresh
<1>4. Children(s)' = {}
  <2>1. \A c \in Known : db[c].parent < c
    BY DEF LineageInv, InOrder
  <2>2. ASSUME NEW c \in Known PROVE db'[c].parent # s
    <3>1. db'[c].parent = db[c].parent /\ db[c].parent < c /\ c < s
      BY <1>1, <1>3, <2>1
    <3>2. db[c].parent \in 0..MaxSessions /\ c \in Nat /\ s \in Nat
      BY <1>1, <1>3, KnownAreNumbers DEF Sessions, LineageInv, LineageTypeOK, Row
    <3> QED
      BY <3>1, <3>2, SessionLineageAssumption
  <2>3. db'[s].parent # s
    BY <1>1, <1>3, SessionLineageAssumption DEF Sessions
  <2> QED
    BY <1>1, <1>3, <2>2, <2>3 DEF Children
<1>5. \A e \in Known' : e <= s
  BY <1>1, <1>3, KnownAreNumbers DEF Sessions
<1>6. db'[s].end # "compression"
  BY <1>1, <1>3
<1> QED
  BY <1>4, <1>5, <1>6 DEF Sound

LEMMA ChainInitially == LineageInit => Chained
  BY DEF LineageInit, Chained, Known

\* A row that opens a conversation, with or without a parent that it leaves.
LEMMA DepartureKeepsChain ==
  ASSUME LineageInv, Chained, NEW row, Insert(db, row, Fresh), blurred \subseteq blurred',
         row.end = "open", row.parent < Fresh,
         \A s \in Known :
           row.parent = s /\ conversation[s] \notin blurred' =>
             /\ \E k \in Kinds : row.mark[k] = s
             /\ \/ row.mark["branch"] = s
                \/ /\ row.mark["branch"] = db[s].mark["branch"]
                   /\ row.mark["delegate"] \in {s, db[s].mark["delegate"]}
  PROVE  Chained'
<1>0. db \in [Known -> Row]
  BY DEF LineageInv, LineageTypeOK
<1>1. /\ Fresh \in Sessions /\ Fresh \notin Known /\ \A s \in Known : s < Fresh
      /\ Known' = Known \cup {Fresh}
      /\ \A s \in Known : conversation'[s] = conversation[s]
      /\ conversation'[Fresh] = Fresh
  BY <1>0, Inserted
<1>2. \A s \in Known : conversation[s] # Fresh
  <2>1. \A s \in Known : conversation[s] <= s /\ conversation[s] \in Sessions
    BY DEF Chained, LineageInv, LineageTypeOK
  <2> QED
    BY <1>1, <2>1, KnownAreNumbers, SessionLineageAssumption DEF Sessions
<1>3. ASSUME NEW s \in Known, conversation[s] \notin blurred' PROVE Sound(s)'
  <2>1. Sound(s)
    BY <1>3 DEF Chained
  <2> QED
    BY <1>0, <1>2, <1>3, <2>1, StaysSound
<1>4. \A s \in Known' : s = Fresh => Sound(s)'
  BY <1>0, NewIsSound
<1>5. ASSUME NEW s \in Known' PROVE conversation'[s] <= s /\ (conversation'[s] \notin blurred' => Sound(s)')
  <2>1. CASE s \in Known
    BY <1>1, <1>3, <2>1 DEF Chained
  <2>2. CASE s = Fresh
    BY <1>1, <1>4, <2>2, SessionLineageAssumption DEF Sessions
  <2> QED
    BY <1>1, <2>1, <2>2
<1> QED
  BY <1>5 DEF Chained

\* Compression goes on with the newest session of the conversation.
LEMMA CompressionKeepsChain ==
  ASSUME LineageInv, Chained, NEW s \in Known, NEW l \in Lanes, Compress(s, l)
  PROVE  Chained'
<1> USE SessionLineageAssumption
<1> DEFINE table == Marked(s, "compression")
           row == Opened(s, l, db[s].mark)
<1>0. db \in [Known -> Row] /\ Insert(table, row, conversation[s]) /\ blurred' = blurred
      /\ db[s].end # "compression"
  BY DEF LineageInv, LineageTypeOK, Compress
<1>1. table \in [Known -> Row] /\ DOMAIN table = Known
  BY <1>0 DEF Marked, Row
<1>2. /\ \A r \in Known : table[r].parent = db[r].parent /\ table[r].mark = db[r].mark
      /\ \A r \in Known : r # s => table[r] = db[r]
      /\ table[s].end = "compression"
  BY <1>0 DEF Marked, Row
<1>3. row.end = "open" /\ row.parent = s /\ row.mark = db[s].mark
  BY DEF Opened
<1>4. /\ Fresh \in Sessions /\ Fresh \notin Known /\ \A r \in Known : r < Fresh
      /\ Known' = Known \cup {Fresh}
      /\ \A r \in Known : db'[r] = table[r] /\ conversation'[r] = conversation[r]
      /\ db'[Fresh] = row /\ conversation'[Fresh] = conversation[s]
  BY <1>0, <1>1, Inserted
<1>5. PICK new : new = Fresh
  OBVIOUS
<1> HIDE DEF table, row
<1>6. ASSUME conversation[s] \notin blurred PROVE Sound(s)'
  <2>1. Sound(s)
    BY <1>6 DEF Chained
  <2>2. HeirOf(new, s)'
    BY <1>2, <1>3, <1>4, <1>5 DEF HeirOf
  <2>3. \A c \in Children(s)' : c = new \/ c \in Children(s)
    BY <1>2, <1>4, <1>5 DEF Children
  <2>4. \A c \in Children(s) : Starts(c, s)' /\ ~ Contradicts(c, s)'
    BY <1>0, <1>2, <1>4, <2>1 DEF Sound, Starts, Contradicts, Children
  <2>5. ~ Contradicts(new, s)'
    BY <1>2, <1>3, <1>4, <1>5 DEF Contradicts
  <2>6. \A e \in Known' : conversation'[e] = conversation'[s] /\ s < e => new <= e
    BY <1>0, <1>4, <1>5, <2>1, KnownAreNumbers DEF Sound, Sessions
  <2>7. new \in Known' /\ db'[s].end = "compression"
    BY <1>2, <1>4, <1>5
  <2> QED
    BY <2>2, <2>3, <2>4, <2>5, <2>6, <2>7 DEF Sound
<1>7. ASSUME NEW r \in Known, r # s, conversation[r] \notin blurred PROVE Sound(r)'
  <2>1. Sound(r)
    BY <1>7 DEF Chained
  <2>2. conversation[s] = conversation[r] => db[r].end = "compression"
    <3> SUFFICES ASSUME conversation[s] = conversation[r], db[r].end # "compression" PROVE FALSE
      OBVIOUS
    <3>1. Sound(s)
      BY <1>7 DEF Chained
    <3>2. r <= s /\ s <= r
      BY <1>0, <2>1, <3>1 DEF Sound
    <3> QED
      BY <1>7, <3>2, KnownAreNumbers
  <2> QED
    BY <1>0, <1>1, <1>2, <1>3, <1>7, <2>1, <2>2, StaysSound
<1>8. \A r \in Known' : r = Fresh => Sound(r)'
  BY <1>0, <1>1, <1>2, <1>3, <1>4, NewIsSound
<1>9. ASSUME NEW r \in Known' PROVE conversation'[r] <= r /\ (conversation'[r] \notin blurred' => Sound(r)')
  <2>1. conversation[s] <= s /\ s < Fresh /\ conversation[s] \in Sessions
    BY <1>4 DEF Chained, LineageInv, LineageTypeOK
  <2>2. conversation[s] <= Fresh
    BY <1>4, <2>1, KnownAreNumbers DEF Sessions
  <2>3. CASE r \in Known
    BY <1>0, <1>4, <1>6, <1>7, <2>3 DEF Chained
  <2>4. CASE r = Fresh
    BY <1>4, <1>8, <2>2, <2>4
  <2> QED
    BY <1>4, <2>3, <2>4
<1> QED
  BY <1>9 DEF Chained

\* The host keeps a conversation in one chain until its table is blurred.
LEMMA HostKeepsChain == LineageInv /\ Chained /\ (HostStep \/ UNCHANGED lineage) => Chained'
<1> SUFFICES ASSUME LineageInv, Chained, HostStep \/ UNCHANGED lineage PROVE Chained'
  OBVIOUS
<1> USE SessionLineageAssumption
<1>0. db \in [Known -> Row] /\ Known \subseteq Sessions
  BY DEF LineageInv, LineageTypeOK
<1>1. ASSUME NEW row, Insert(db, row, Fresh)
      PROVE  Fresh \in Sessions /\ \A s \in Known : s < Fresh
  BY <1>0, <1>1, Inserted
<1>2. ASSUME NEW l \in Lanes, Begin(l) PROVE Chained'
  <2> DEFINE row == Opened(0, l, NoMark)
  <2>1. Insert(db, row, Fresh) /\ blurred' = blurred /\ row.end = "open" /\ row.parent = 0
    BY <1>2 DEF Begin, Opened
  <2> HIDE DEF row
  <2>2. row.parent < Fresh
    BY <1>1, <2>1 DEF Sessions
  <2>3. \A s \in Known : row.parent # s
    BY <2>1, KnownAreNumbers
  <2> QED
    BY <2>1, <2>2, <2>3, DepartureKeepsChain
<1>3. ASSUME NEW s \in Sessions, NEW l \in Lanes, Compress(s, l) PROVE Chained'
  BY <1>3, CompressionKeepsChain DEF Compress
<1>4. ASSUME NEW s \in Sessions, StartCompressing(s) PROVE Chained'
  <2>1. /\ s \in Known /\ db[s].end = "open" /\ db' = [db EXCEPT ![s].end = "compressing"]
        /\ conversation' = conversation /\ blurred' = blurred
    BY <1>4 DEF StartCompressing, Marked
  <2>2. Known' = Known
    BY <1>0, <2>1 DEF Known
  <2>3. \A r \in Known : /\ db'[r].parent = db[r].parent /\ db'[r].mark = db[r].mark
                         /\ db'[r].end = "compression" <=> db[r].end = "compression"
    BY <1>0, <2>1 DEF Row
  <2>4. \A r \in Known : Children(r)' = Children(r)
    BY <2>2, <2>3 DEF Children
  <2>5. \A r, c \in Known : /\ Starts(c, r)' <=> Starts(c, r)
                            /\ Contradicts(c, r)' <=> Contradicts(c, r)
                            /\ HeirOf(c, r)' <=> HeirOf(c, r)
    BY <2>1, <2>3 DEF Starts, Contradicts, HeirOf
  <2>6. \A r \in Known : Sound(r) => Sound(r)'
    BY <2>1, <2>2, <2>3, <2>4, <2>5 DEF Sound, Children
  <2> QED
    BY <2>1, <2>2, <2>6 DEF Chained
<1>5. ASSUME NEW s \in Sessions, NEW k \in Kinds, Depart(s, k) PROVE Chained'
  <2> DEFINE mark == [db[s].mark EXCEPT ![k] = s]
             row == Opened(s, db[s].lane, mark)
  <2>1. s \in Known /\ Insert(db, row, Fresh) /\ blurred' = blurred
        /\ row.end = "open" /\ row.parent = s /\ row.mark = mark
    BY <1>5 DEF Depart, Opened
  <2>2. db[s].mark \in [Kinds -> 0..MaxSessions]
    BY <1>0, <2>1 DEF Row
  <2>3. mark[k] = s /\ \A i \in Kinds \ {k} : mark[i] = db[s].mark[i]
    BY <2>2
  <2> HIDE DEF mark, row
  <2>4. row.parent < Fresh
    BY <1>1, <2>1
  <2>5. /\ \E i \in Kinds : mark[i] = s
        /\ \/ mark["branch"] = s
           \/ /\ mark["branch"] = db[s].mark["branch"]
              /\ mark["delegate"] \in {s, db[s].mark["delegate"]}
    BY <2>3 DEF Kinds
  <2> QED
    BY <2>1, <2>4, <2>5, DepartureKeepsChain
<1>6. ASSUME NEW s \in Known, Blur(s, db[s].mark) PROVE Chained'
  <2> DEFINE row == Opened(s, db[s].lane, db[s].mark)
  <2>1. Insert(db, row, Fresh) /\ blurred' = blurred \cup {conversation[s]}
        /\ row.end = "open" /\ row.parent = s
    BY <1>6 DEF Blur, Opened
  <2> HIDE DEF row
  <2>2. row.parent < Fresh
    BY <1>1, <2>1
  <2> QED
    BY <2>1, <2>2, DepartureKeepsChain
<1>7. CASE UNCHANGED lineage
  <2>1. db' = db /\ conversation' = conversation /\ blurred' = blurred /\ Known' = Known
    BY <1>7 DEF lineage, Known
  <2>2. \A r : Children(r)' = Children(r)
    BY <2>1 DEF Children
  <2>3. \A r, c : /\ Starts(c, r)' <=> Starts(c, r)
                  /\ Contradicts(c, r)' <=> Contradicts(c, r)
                  /\ HeirOf(c, r)' <=> HeirOf(c, r)
    BY <2>1 DEF Starts, Contradicts, HeirOf
  <2>4. \A r \in Known : Sound(r) => Sound(r)'
    BY <2>1, <2>2, <2>3 DEF Sound
  <2> QED
    BY <2>1, <2>4 DEF Chained
<1> QED
  BY <1>2, <1>3, <1>4, <1>5, <1>6, <1>7 DEF HostStep

\* A walk has a last session: the one that Effective takes, and the only possible tip.
LEMMA WalkEnds ==
  ASSUME LineageInv, NEW p \in Known
  PROVE  \E n \in 0..MaxSessions :
           Walk(p)[n] # 0 /\ \A m \in 0..MaxSessions : Walk(p)[m] # 0 => m <= n
<1> USE SessionLineageAssumption
<1> DEFINE T == {MaxSessions - n : n \in {m \in 0..MaxSessions : Walk(p)[m] # 0}}
<1>1. MaxSessions \in T
  <2>1. Walk(p)[0] = p /\ p # 0
    BY WalkSteps, KnownAreNumbers
  <2> QED
    BY <2>1
<1>2. PICK x \in T : \A y \in T : x <= y
  <2>1. T \subseteq Nat
    OBVIOUS
  <2> HIDE DEF T
  <2> QED
    BY <1>1, <2>1, LeastMember
<1>3. PICK n \in 0..MaxSessions : x = MaxSessions - n /\ Walk(p)[n] # 0
  BY <1>2
<1>4. \A m \in 0..MaxSessions : Walk(p)[m] # 0 => m <= n
  BY <1>2, <1>3
<1> QED
  BY <1>3, <1>4

\* In a chain the heir of a compressed session is its successor.
LEMMA SuccessorIsHeir ==
  ASSUME LineageInv, NEW s \in Known, Sound(s), db[s].end = "compression"
  PROVE  /\ Successor(s) \in Known /\ s < Successor(s)
         /\ conversation[Successor(s)] = conversation[s]
         /\ \A e \in Known : conversation[e] = conversation[s] /\ s < e => Successor(s) <= e
<1>1. PICK h \in Known : /\ HeirOf(h, s)
                         /\ \A c \in Children(s) \ {h} : Starts(c, s)
                         /\ \A e \in Known : conversation[e] = conversation[s] /\ s < e => h <= e
  BY DEF Sound
<1>2. ~ Starts(h, s)
  <2>1. \A k \in Kinds : db[h].mark[k] < s
    BY <1>1 DEF LineageInv, InOrder, HeirOf
  <2> QED
    BY <2>1, KnownAreNumbers DEF Starts
<1>3. Heirs(s) = {h}
  BY <1>1, <1>2 DEF Heirs, Children, HeirOf
<1>4. Cardinality(Heirs(s)) = 1
  BY <1>3, FS_Singleton
<1>5. Successor(s) = h
  BY <1>3, <1>4 DEF Successor, Sound
<1> QED
  BY <1>1, <1>5 DEF HeirOf

\* As long as it goes on, the walk from p passes every session of the conversation.
Passes(p, n) ==
  Walk(p)[n] # 0 =>
    /\ \A k \in 0..n : Walk(p)[k] \in Known /\ conversation[Walk(p)[k]] = conversation[p]
    /\ n < Walk(p)[n]
    /\ \A c \in Known : conversation[c] = conversation[p] /\ p <= c /\ c <= Walk(p)[n] =>
         \E k \in 0..n : Walk(p)[k] = c

LEMMA WalkPasses ==
  ASSUME LineageInv, Chained, NEW p \in Known, conversation[p] \notin blurred
  PROVE  \A n \in 0..MaxSessions : Passes(p, n)
<1> USE SessionLineageAssumption
<1> DEFINE T == {n \in Nat : n \in 0..MaxSessions => Passes(p, n)}
<1>0. Walk(p)[0] = p /\ p # 0 /\ p \in Nat
  BY WalkSteps, KnownAreNumbers
<1>1. 0 \in T
  <2>1. \A c \in Known : p <= c /\ c <= p => c = p
    BY KnownAreNumbers
  <2>2. Passes(p, 0)
    BY <1>0, <2>1 DEF Passes
  <2> QED
    BY <2>2
<1>2. ASSUME NEW n \in Nat, n \in T PROVE n + 1 \in T
  <2> SUFFICES ASSUME n + 1 \in 0..MaxSessions, Walk(p)[n + 1] # 0 PROVE Passes(p, n + 1)
    BY DEF Passes
  <2>1. n \in 0..MaxSessions /\ Walk(p)[n + 1] = Onward(Walk(p)[n])
    BY WalkSteps
  <2>2. PICK x : x = Walk(p)[n]
    OBVIOUS
  <2>3. x # 0 /\ Walk(p)[n + 1] = Successor(x) /\ Successor(x) # 0
    BY <2>1, <2>2 DEF Onward
  <2>4. /\ \A k \in 0..n : Walk(p)[k] \in Known /\ conversation[Walk(p)[k]] = conversation[p]
        /\ n < x
        /\ \A c \in Known : conversation[c] = conversation[p] /\ p <= c /\ c <= x =>
             \E k \in 0..n : Walk(p)[k] = c
    BY <1>2, <2>1, <2>2, <2>3 DEF Passes
  <2>5. x \in Known /\ conversation[x] = conversation[p]
    BY <2>2, <2>4
  <2>6. Sound(x) /\ db[x].end = "compression"
    BY <2>3, <2>5 DEF Chained, Successor
  <2>7. PICK h : h = Successor(x)
    OBVIOUS
  <2>8. /\ h \in Known /\ x < h /\ conversation[h] = conversation[x]
        /\ \A e \in Known : conversation[e] = conversation[x] /\ x < e => h <= e
    BY <2>5, <2>6, <2>7, SuccessorIsHeir
  <2>9. Walk(p)[n + 1] = h
    BY <2>3, <2>7
  <2>10. \A k \in 0..(n + 1) : Walk(p)[k] \in Known /\ conversation[Walk(p)[k]] = conversation[p]
    BY <2>4, <2>5, <2>8, <2>9
  <2>11. n + 1 < h
    BY <2>4, <2>5, <2>8, KnownAreNumbers
  <2>12. ASSUME NEW c \in Known, conversation[c] = conversation[p], p <= c, c <= h
         PROVE  \E k \in 0..(n + 1) : Walk(p)[k] = c
    <3>1. CASE c <= x
      BY <2>4, <2>12, <3>1
    <3>2. CASE ~ c <= x
      <4>1. x < c /\ h <= c /\ c \in Nat /\ h \in Nat
        BY <2>5, <2>8, <2>12, <3>2, KnownAreNumbers
      <4>2. c = h
        BY <2>12, <4>1
      <4> QED
        BY <2>9, <4>2
    <3> QED
      BY <3>1, <3>2
  <2> QED
    BY <2>9, <2>10, <2>11, <2>12 DEF Passes
<1>3. Nat \subseteq T
  <2> HIDE DEF T
  <2> QED
    BY <1>1, <1>2, Induction
<1> QED
  BY <1>3

\* compression_continuation turns no later session of the conversation away, if its
\* lanes agree and no compression is half done.
LEMMA FollowersContinue ==
  ASSUME LineageInv, Chained, NEW p \in Known, NEW s \in Known, Follows(p, s),
         conversation[p] \notin blurred, NEW correlated \in BOOLEAN,
         \A k \in Known : conversation[k] = conversation[p] =>
           db[k].end # "compressing" /\ (correlated \/ db[k].lane = db[p].lane)
  PROVE  Continues(p, s, correlated)
<1> USE SessionLineageAssumption
<1>1. PICK n \in 0..MaxSessions :
        Walk(p)[n] # 0 /\ \A m \in 0..MaxSessions : Walk(p)[m] # 0 => m <= n
  BY WalkEnds
<1>2. PICK x : x = Walk(p)[n]
  OBVIOUS
<1>3. /\ \A k \in 0..n : Walk(p)[k] \in Known /\ conversation[Walk(p)[k]] = conversation[p]
      /\ n < x
      /\ \A c \in Known : conversation[c] = conversation[p] /\ p <= c /\ c <= x =>
           \E k \in 0..n : Walk(p)[k] = c
  BY <1>1, <1>2, WalkPasses DEF Passes
<1>4. x \in Known /\ conversation[x] = conversation[p] /\ Sound(x)
  BY <1>2, <1>3 DEF Chained
<1>5. db[x].end # "compression"
  <2> SUFFICES ASSUME db[x].end = "compression" PROVE FALSE
    OBVIOUS
  <2>1. Successor(x) \in Known
    BY <1>4, SuccessorIsHeir
  <2>2. n + 1 \in 0..MaxSessions
    BY <1>3, <1>4 DEF LineageInv, LineageTypeOK, Sessions
  <2>3. Walk(p)[n + 1] = Successor(x)
    BY <1>2, <1>4, <2>2, WalkSteps, KnownAreNumbers DEF Onward
  <2>4. n + 1 <= n
    BY <1>1, <2>1, <2>2, <2>3, KnownAreNumbers
  <2> QED
    BY <2>4
<1>6. IsTip(x)
  <2>1. db[x].end \in {"open", "compressing", "compression"}
    BY <1>4 DEF LineageInv, LineageTypeOK, Row
  <2> QED
    BY <1>4, <1>5, <2>1, KnownAreNumbers DEF IsTip
<1>7. s <= x
  BY <1>4, <1>5 DEF Sound, Follows
<1>8. \E k \in 0..n : Walk(p)[k] = s
  BY <1>3, <1>7 DEF Follows
<1>9. \A k \in 0..n : Compatible(Walk(p)[k], p, correlated)
  BY <1>3 DEF Compatible
<1> QED
  BY <1>2, <1>6, <1>8, <1>9 DEF Continues
=============================================================================
