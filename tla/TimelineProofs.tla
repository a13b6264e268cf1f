---------------------------- MODULE TimelineProofs ----------------------------
(***************************************************************************)
(* Proofs about Timeline, for any messages, devices and page sizes: pages  *)
(* neither repeat nor skip, the cursor only advances, and it never hides   *)
(* what lies after everything the member was shown or has sent.            *)
(***************************************************************************)
EXTENDS TimelineProperties, TLAPS, FiniteSetTheorems

\* What the cursor may point at.
Seen == shown \cup (stored \cap Own)

\* The rows have their timestamps, and only what was shown is marked.
RowsInv ==
    /\ clock \in Nat \ {0}
    /\ at \in [Messages -> Nat]
    /\ stored \in SUBSET Messages
    /\ \A m \in stored : at[m] # 0
    /\ shown \in SUBSET stored
    /\ asked \in [Devices -> shown \cup {0}]

\* The cursor is at the position of something seen.
CursorInv == cursor = NeverRead \/ \E m \in Seen : cursor = Pos(m)

Inv == RowsInv /\ CursorInv

-----------------------------------------------------------------------------
(***************************************************************************)
(* The order of a finite set of rows: each has a rank of its own, which is *)
(* the number of newer ones, and every number below their number is a rank.*)
(***************************************************************************)
Dated(S) == S \in SUBSET Messages /\ IsFiniteSet(S) /\ \A m \in S : at[m] \in Nat

LEMMA MessagesAreNumbers == Messages \subseteq Nat
  BY TimelineAssumption

LEMMA BeforeIsStrict ==
    ASSUME NEW S, Dated(S)
    PROVE  /\ \A m, n \in S : m # n => Before(Pos(m), Pos(n)) \/ Before(Pos(n), Pos(m))
           /\ \A m, n \in S : ~(Before(Pos(m), Pos(n)) /\ Before(Pos(n), Pos(m)))
           /\ \A m, n, o \in S :
                 Before(Pos(m), Pos(n)) /\ Before(Pos(n), Pos(o)) => Before(Pos(m), Pos(o))
           /\ \A m \in S : ~Before(Pos(m), Pos(m))
  BY MessagesAreNumbers DEF Dated, Before, Pos

LEMMA NewerFinite ==
    ASSUME NEW S, Dated(S), NEW m \in S
    PROVE  /\ Newer(S, m) \in SUBSET (S \ {m})
           /\ IsFiniteSet(Newer(S, m))
           /\ Cardinality(Newer(S, m)) \in 0..(Cardinality(S) - 1)
  <1>1. Newer(S, m) \in SUBSET (S \ {m})
    BY BeforeIsStrict DEF Newer
  <1>2. IsFiniteSet(S \ {m}) /\ Cardinality(S \ {m}) = Cardinality(S) - 1
    BY FS_RemoveElement DEF Dated
  <1>3. IsFiniteSet(Newer(S, m)) /\ Cardinality(Newer(S, m)) <= Cardinality(S \ {m})
    BY <1>1, <1>2, FS_Subset
  <1>4. Cardinality(Newer(S, m)) \in Nat /\ Cardinality(S) \in Nat
    BY <1>3, FS_CardinalityType DEF Dated
  <1> QED BY <1>1, <1>2, <1>3, <1>4

LEMMA RanksDescend ==
    ASSUME NEW S, Dated(S), NEW m \in S, NEW n \in S, Before(Pos(m), Pos(n))
    PROVE  Cardinality(Newer(S, n)) < Cardinality(Newer(S, m))
  <1>1. Newer(S, n) \in SUBSET Newer(S, m)
    BY BeforeIsStrict DEF Newer
  <1>2. n \in Newer(S, m) /\ n \notin Newer(S, n)
    BY NewerFinite DEF Newer
  <1>3. IsFiniteSet(Newer(S, m)) /\ IsFiniteSet(Newer(S, n))
    BY NewerFinite
  <1>4. /\ Cardinality(Newer(S, n)) <= Cardinality(Newer(S, m))
        /\ Cardinality(Newer(S, n)) # Cardinality(Newer(S, m))
    BY <1>1, <1>2, <1>3, FS_Subset
  <1>5. Cardinality(Newer(S, m)) \in Nat /\ Cardinality(Newer(S, n)) \in Nat
    BY <1>3, FS_CardinalityType
  <1> QED BY <1>4, <1>5

LEMMA EveryRankIsHeld ==
    ASSUME NEW S, Dated(S), NEW k \in 0..(Cardinality(S) - 1)
    PROVE  \E m \in S : Cardinality(Newer(S, m)) = k
  <1> DEFINE c == Cardinality(S)
             rank == [m \in S |-> Cardinality(Newer(S, m))]
  <1>1. c \in Nat
    BY FS_CardinalityType DEF Dated
  <1>2. IsFiniteSet(0..(c - 1)) /\ Cardinality(0..(c - 1)) = c
    BY <1>1, FS_Interval
  <1>3. rank \in [S -> 0..(c - 1)]
    BY NewerFinite
  <1>4. \A m, n \in S : m # n => rank[m] # rank[n]
    <2> SUFFICES ASSUME NEW m \in S, NEW n \in S, Before(Pos(m), Pos(n))
                 PROVE  rank[m] # rank[n]
      BY BeforeIsStrict
    <2> QED BY RanksDescend, NewerFinite
  <1>5. rank \in Injection(S, 0..(c - 1))
    BY <1>3, <1>4 DEF Injection, IsInjective
  <1>6. rank \in Surjection(S, 0..(c - 1))
    BY <1>2, <1>5, FS_Injection
  <1>7. \A i \in 0..(c - 1) : \E m \in S : rank[m] = i
    BY <1>6 DEF Surjection
  <1> QED BY <1>7

-----------------------------------------------------------------------------
(***************************************************************************)
(* A page: rows of the set it is taken from, in order, and no row that is  *)
(* left out lies behind one that is on it.                                 *)
(***************************************************************************)
LEMMA LimitedSubset ==
    ASSUME NEW S
    PROVE  Limited(S) \subseteq S
  BY DEF Limited

LEMMA PageIsLimited ==
    ASSUME NEW S, Dated(S)
    PROVE  /\ Page(S) \in Seq(Limited(S))
           /\ Len(Page(S)) = Cardinality(Limited(S)) /\ Cardinality(Limited(S)) \in Nat
           /\ \A i \in 1..Len(Page(S)) : Page(S)[i] \in Limited(S)
           /\ \A m \in Limited(S) : \E i \in 1..Len(Page(S)) : Page(S)[i] = m
           /\ \A i, j \in 1..Len(Page(S)) : i < j => Before(Pos(Page(S)[i]), Pos(Page(S)[j]))
  <1> DEFINE L == Limited(S)
             c == Cardinality(L)
  <1>1. Dated(L)
    BY LimitedSubset, FS_Subset DEF Dated
  <1>2. c \in Nat
    BY <1>1, FS_CardinalityType DEF Dated
  <1>3. Page(S) = [i \in 1..c |-> CHOOSE m \in L : Cardinality(Newer(L, m)) = c - i]
    BY DEF Page
  <1> HIDE DEF L, c
  <1>4. ASSUME NEW i \in 1..c
        PROVE  Page(S)[i] \in L /\ Cardinality(Newer(L, Page(S)[i])) = c - i
    <2>1. c - i \in 0..(c - 1)
      BY <1>2
    <2>2. \E m \in L : Cardinality(Newer(L, m)) = c - i
      BY <1>1, <2>1, EveryRankIsHeld DEF c
    <2> QED BY <1>3, <2>2
  <1>5. Page(S) \in [1..c -> L]
    BY <1>3, <1>4
  <1>6. Page(S) \in Seq(L) /\ Len(Page(S)) = c
    BY <1>2, <1>5
  <1>7. ASSUME NEW m \in L
        PROVE  \E i \in 1..c : Page(S)[i] = m
    <2>1. Cardinality(Newer(L, m)) \in 0..(c - 1)
      BY <1>1, NewerFinite DEF c
    <2>2. PICK i \in 1..c : Cardinality(Newer(L, m)) = c - i
      <3>1. c - Cardinality(Newer(L, m)) \in 1..c
        BY <1>2, <2>1
      <3>2. Cardinality(Newer(L, m)) = c - (c - Cardinality(Newer(L, m)))
        BY <1>2, <2>1
      <3> QED BY <3>1, <3>2
    <2>3. Page(S)[i] \in L /\ Cardinality(Newer(L, Page(S)[i])) = Cardinality(Newer(L, m))
      BY <1>4, <2>2
    <2>4. Page(S)[i] = m
      <3> SUFFICES ASSUME Page(S)[i] # m PROVE FALSE
        OBVIOUS
      <3>1. Before(Pos(m), Pos(Page(S)[i])) \/ Before(Pos(Page(S)[i]), Pos(m))
        BY <1>1, <2>3, BeforeIsStrict
      <3>2. Cardinality(Newer(L, m)) \in Nat
        BY <2>1
      <3> QED BY <1>1, <2>3, <3>1, <3>2, RanksDescend
    <2> QED BY <2>4
  <1>8. ASSUME NEW i \in 1..c, NEW j \in 1..c, i < j
        PROVE  Before(Pos(Page(S)[i]), Pos(Page(S)[j]))
    <2>1. /\ Page(S)[i] \in L /\ Cardinality(Newer(L, Page(S)[i])) = c - i
          /\ Page(S)[j] \in L /\ Cardinality(Newer(L, Page(S)[j])) = c - j
      BY <1>4
    <2>2. c - j < c - i
      BY <1>2, <1>8
    <2>3. ~Before(Pos(Page(S)[j]), Pos(Page(S)[i])) /\ Page(S)[i] # Page(S)[j]
      BY <1>1, <1>2, <2>1, <2>2, RanksDescend
    <2> QED BY <1>1, <2>1, <2>3, BeforeIsStrict
  <1> QED BY <1>2, <1>4, <1>6, <1>7, <1>8 DEF L, c

\* What a full page leaves out lies before all of it, and there is more.
LEMMA LeftOut ==
    ASSUME NEW S, Dated(S), NEW m \in S \ Limited(S)
    PROVE  /\ Cardinality(S) > PageSize
           /\ \A n \in Limited(S) : Before(Pos(m), Pos(n))
           /\ Limited(S) # {}
  <1>1. /\ Cardinality(Newer(S, m)) \in 0..(Cardinality(S) - 1)
        /\ ~(Cardinality(Newer(S, m)) < PageSize)
        /\ Cardinality(S) \in Nat
    BY NewerFinite, FS_CardinalityType DEF Limited, Dated
  <1>2. Cardinality(S) > PageSize
    BY <1>1, TimelineAssumption
  <1>3. ASSUME NEW n \in Limited(S)
        PROVE  Before(Pos(m), Pos(n))
    <2>1. n \in S /\ Cardinality(Newer(S, n)) < PageSize /\ n # m
      BY DEF Limited
    <2>2. ASSUME Before(Pos(n), Pos(m)) PROVE FALSE
      <3>1. Cardinality(Newer(S, m)) < Cardinality(Newer(S, n))
        BY <2>1, <2>2, RanksDescend
      <3>2. Cardinality(Newer(S, n)) \in 0..(Cardinality(S) - 1)
        BY <2>1, NewerFinite
      <3> QED BY <1>1, <2>1, <3>1, <3>2, TimelineAssumption
    <2> QED BY <2>1, <2>2, BeforeIsStrict
  <1>4. PICK n \in S : Cardinality(Newer(S, n)) = 0
    <2>1. 0 \in 0..(Cardinality(S) - 1)
      BY <1>1
    <2> QED BY <2>1, EveryRankIsHeld
  <1>5. n \in Limited(S)
    BY <1>4, TimelineAssumption DEF Limited
  <1> QED BY <1>2, <1>3, <1>5

(***************************************************************************)
(* A step keeps the positions of the rows that are stored, and stores and  *)
(* shows more.                                                             *)
(***************************************************************************)
Grows ==
    /\ stored \subseteq stored' /\ shown \subseteq shown'
    /\ \A m \in stored : at'[m] = at[m]

LEMMA StepGrows ==
    ASSUME RowsInv, [Next]_vars
    PROVE  Grows
  <1> USE DEF RowsInv, Grows
  <1>1. CASE Tick BY <1>1 DEF Tick, loaded
  <1>2. CASE FirstPage BY <1>2 DEF FirstPage, rows
  <1>3. CASE OlderPage BY <1>3 DEF OlderPage, rows
  <1>4. ASSUME NEW m \in Messages, Insert(m) PROVE Grows
    BY <1>4 DEF Insert, loaded
  <1>5. ASSUME NEW m \in Messages, Commit(m) PROVE Grows
    BY <1>5 DEF Commit, loaded
  <1>6. ASSUME NEW m \in Messages, Hear(m) PROVE Grows
    BY <1>6 DEF Hear, rows, loaded
  <1>7. ASSUME NEW m \in Messages, AdvanceOwn(m) PROVE Grows
    BY <1>7 DEF AdvanceOwn, rows, loaded
  <1>8. ASSUME NEW d \in Devices, MarkRead(d) PROVE Grows
    BY <1>8 DEF MarkRead, rows, loaded
  <1>9. ASSUME NEW d \in Devices, Advance(d) PROVE Grows
    BY <1>9 DEF Advance, rows, loaded
  <1>10. CASE UNCHANGED vars BY <1>10 DEF vars
  <1> QED
    BY <1>1, <1>2, <1>3, <1>4, <1>5, <1>6, <1>7, <1>8, <1>9, <1>10 DEF Next

LEMMA RowsInvInit == Init => RowsInv
  BY TimelineAssumption DEF Init, RowsInv

LEMMA RowsInvStep == RowsInv /\ [Next]_vars => RowsInv'
  <1> SUFFICES ASSUME RowsInv, [Next]_vars PROVE RowsInv'
    OBVIOUS
  <1> USE DEF RowsInv
  <1>1. CASE Tick BY <1>1, TimelineAssumption DEF Tick, loaded
  <1>2. CASE FirstPage BY <1>2, LimitedSubset DEF FirstPage, rows
  <1>3. CASE OlderPage
    <2>1. Limited(Older) \subseteq stored BY LimitedSubset DEF Older
    <2> QED BY <1>3, <2>1 DEF OlderPage, rows
  <1>4. ASSUME NEW m \in Messages, Insert(m) PROVE RowsInv'
    BY <1>4 DEF Insert, loaded
  <1>5. ASSUME NEW m \in Messages, Commit(m) PROVE RowsInv'
    BY <1>5 DEF Commit, loaded
  <1>6. ASSUME NEW m \in Messages, Hear(m) PROVE RowsInv'
    BY <1>6 DEF Hear, rows, loaded
  <1>7. ASSUME NEW m \in Messages, AdvanceOwn(m) PROVE RowsInv'
    BY <1>7 DEF AdvanceOwn, rows, loaded
  <1>8. ASSUME NEW d \in Devices, MarkRead(d) PROVE RowsInv'
    BY <1>8 DEF MarkRead, rows, loaded
  <1>9. ASSUME NEW d \in Devices, Advance(d) PROVE RowsInv'
    BY <1>9 DEF Advance, rows, loaded
  <1>10. CASE UNCHANGED vars BY <1>10 DEF vars
  <1> QED
    BY <1>1, <1>2, <1>3, <1>4, <1>5, <1>6, <1>7, <1>8, <1>9, <1>10 DEF Next

-----------------------------------------------------------------------------
(* The cursor. *)

\* What a step does to the cursor: nothing, or it advances to something seen.
Moves ==
    \/ cursor' = cursor
    \/ \E m \in Seen : cursor' = Advanced(m)

LEMMA StepMoves ==
    ASSUME Inv, [Next]_vars
    PROVE  Moves
  <1> USE DEF Moves
  <1>1. CASE Tick BY <1>1 DEF Tick
  <1>2. CASE FirstPage BY <1>2 DEF FirstPage
  <1>3. CASE OlderPage BY <1>3 DEF OlderPage
  <1>4. ASSUME NEW m \in Messages, Insert(m) PROVE Moves
    BY <1>4 DEF Insert
  <1>5. ASSUME NEW m \in Messages, Commit(m) PROVE Moves
    BY <1>5 DEF Commit
  <1>6. ASSUME NEW m \in Messages, Hear(m) PROVE Moves
    BY <1>6 DEF Hear
  <1>7. ASSUME NEW m \in Messages, AdvanceOwn(m) PROVE Moves
    BY <1>7 DEF AdvanceOwn, Seen
  <1>8. ASSUME NEW d \in Devices, MarkRead(d) PROVE Moves
    BY <1>8 DEF MarkRead
  <1>9. ASSUME NEW d \in Devices, Advance(d) PROVE Moves
    <2>1. asked[d] \in shown BY <1>9 DEF Advance, Inv, RowsInv
    <2> QED BY <1>9, <2>1 DEF Advance, Seen
  <1>10. CASE UNCHANGED vars BY <1>10 DEF vars
  <1> QED
    BY <1>1, <1>2, <1>3, <1>4, <1>5, <1>6, <1>7, <1>8, <1>9, <1>10 DEF Next

LEMMA CursorInvStep == Inv /\ [Next]_vars => CursorInv'
  <1> SUFFICES ASSUME Inv, [Next]_vars PROVE CursorInv'
    OBVIOUS
  <1>1. Grows BY StepGrows DEF Inv
  <1>2. Seen \subseteq Seen' /\ Seen \subseteq stored
    BY <1>1 DEF Grows, Seen, Inv, RowsInv
  <1>3. \A m \in Seen : m \in Seen' /\ Pos(m)' = Pos(m)
    BY <1>1, <1>2 DEF Grows, Pos
  <1>4. cursor' = cursor \/ \E m \in Seen : cursor' = Pos(m)
    BY StepMoves DEF Moves, Advanced
  <1>5. cursor' = NeverRead \/ \E m \in Seen : cursor' = Pos(m)
    BY <1>4 DEF Inv, CursorInv
  <1> QED BY <1>3, <1>5 DEF CursorInv, NeverRead

LEMMA Invariance == Spec => []Inv
  <1>1. Init => Inv
    BY RowsInvInit DEF Inv, Init, CursorInv
  <1>2. Inv /\ [Next]_vars => Inv'
    BY RowsInvStep, CursorInvStep DEF Inv
  <1> QED BY <1>1, <1>2, PTL DEF Spec

-----------------------------------------------------------------------------
\* No step moves the cursor back: not a device that marks an older message
\* after another marked a newer one, nor a send whose cursor update is late.
THEOREM CursorNeverBack == Spec => CursorOnlyAdvances
  <1>1. ASSUME Inv, [Next]_vars, cursor' # cursor
        PROVE  Before(cursor, cursor')
    <2>1. PICK m \in Seen : cursor' = Advanced(m)
      BY <1>1, StepMoves DEF Moves
    <2>2. CASE cursor = NeverRead
      <3>1. m \in stored BY <1>1 DEF Inv, RowsInv, Seen
      <3>2. at[m] \in Nat /\ at[m] # 0 BY <1>1, <3>1 DEF Inv, RowsInv
      <3> QED BY <2>1, <2>2, <3>2 DEF Advanced, NeverRead, Before, Pos
    <2>3. CASE cursor # NeverRead
      BY <1>1, <2>1, <2>3 DEF Advanced
    <2> QED BY <2>2, <2>3
  <1>2. Inv /\ [Next]_vars => [Before(cursor, cursor')]_cursor
    BY <1>1
  <1> QED BY <1>2, Invariance, PTL DEF Spec, CursorOnlyAdvances

\* What lies after everything the member was shown or has sent is counted as
\* unread.
THEOREM NewsCounts == Spec => []NewsIsUnread
  <1>1. ASSUME Inv PROVE NewsIsUnread
    <2> DEFINE Later == {m \in stored : Before(cursor, Pos(m))}
    <2>1. IsFiniteSet(stored)
      BY <1>1, TimelineAssumption, FS_Subset DEF Inv, RowsInv
    <2>2. CASE cursor = NeverRead
      <3>1. News \in SUBSET stored BY DEF News
      <3> QED BY <2>1, <2>2, <3>1, FS_Subset DEF NewsIsUnread, Unread
    <2>3. CASE cursor # NeverRead
      <3>1. PICK n \in Seen : cursor = Pos(n)
        BY <1>1, <2>3 DEF Inv, CursorInv
      <3>2. News \in SUBSET Later
        BY <3>1 DEF News, Seen
      <3>3. IsFiniteSet(Later) BY <2>1, FS_Subset
      <3>4. Cardinality(News) <= Cardinality(Later)
        BY <3>2, <3>3, FS_Subset
      <3> QED BY <2>3, <3>4 DEF NewsIsUnread, Unread
    <2> QED BY <2>2, <2>3
  <1> QED BY <1>1, Invariance, PTL

-----------------------------------------------------------------------------
(***************************************************************************)
(* The history that is loaded.                                             *)
(***************************************************************************)
Walked(m) == \E i \in 1..Len(walk) : walk[i] = m

InOrder == \A i, j \in 1..Len(walk) : i < j => Before(Pos(walk[i]), Pos(walk[j]))

WalkInv ==
    /\ walk \in Seq(stored)
    /\ more \in BOOLEAN
    /\ more => walk # <<>>
    /\ first \in SUBSET stored
    /\ InOrder
    /\ \A m \in first : Walked(m) \/ (more /\ Before(Pos(m), Pos(walk[1])))

LEMMA StoredIsDated ==
    ASSUME RowsInv, NEW S \in SUBSET stored
    PROVE  Dated(S)
  <1>1. S \in SUBSET Messages /\ \A m \in S : at[m] \in Nat
    BY DEF RowsInv
  <1>2. IsFiniteSet(S)
    BY <1>1, TimelineAssumption, FS_Subset
  <1> QED BY <1>1, <1>2 DEF Dated

\* A step that loads nothing keeps the order of what is loaded.
LEMMA WalkKept ==
    ASSUME RowsInv, WalkInv, Grows, UNCHANGED loaded
    PROVE  WalkInv'
  <1>1. walk' = walk /\ more' = more /\ first' = first
    BY DEF loaded
  <1>2. stored \subseteq stored' /\ \A m \in stored : Pos(m)' = Pos(m)
    BY DEF Grows, Pos
  <1>3. \A i \in 1..Len(walk) : walk[i] \in stored
    BY DEF WalkInv
  <1>4. InOrder'
    <2> SUFFICES ASSUME NEW i \in 1..Len(walk), NEW j \in 1..Len(walk), i < j
                 PROVE  Before(Pos(walk[i]), Pos(walk[j]))'
      BY <1>1 DEF InOrder
    <2>1. Before(Pos(walk[i]), Pos(walk[j]))
      BY DEF WalkInv, InOrder
    <2>2. Pos(walk[i])' = Pos(walk[i]) /\ Pos(walk[j])' = Pos(walk[j])
      BY <1>1, <1>2, <1>3 DEF Pos
    <2> QED BY <2>1, <2>2 DEF Before
  <1>5. ASSUME NEW m \in first
        PROVE  (Walked(m) \/ (more /\ Before(Pos(m), Pos(walk[1]))))'
    <2>1. CASE Walked(m)
      BY <1>1, <2>1 DEF Walked
    <2>2. CASE more /\ Before(Pos(m), Pos(walk[1]))
      <3>1. walk # <<>> /\ walk \in Seq(stored) /\ m \in stored
        BY <2>2 DEF WalkInv
      <3>2. walk[1] \in stored
        BY <3>1
      <3>3. Pos(m)' = Pos(m) /\ Pos(walk[1])' = Pos(walk[1])
        BY <1>1, <1>2, <3>1, <3>2 DEF Pos
      <3> QED BY <1>1, <2>2, <3>3 DEF Before
    <2> QED BY <2>1, <2>2 DEF WalkInv
  <1>6. walk' \in Seq(stored')
    BY <1>1, <1>2 DEF WalkInv
  <1> QED BY <1>1, <1>2, <1>4, <1>5, <1>6 DEF WalkInv

LEMMA FirstPageWalks ==
    ASSUME RowsInv, FirstPage
    PROVE  WalkInv'
  <1> DEFINE P == Page(stored)
  <1>1. /\ walk' = P /\ more' = (Cardinality(stored) > PageSize) /\ first' = stored
        /\ stored' = stored /\ at' = at
    BY DEF FirstPage, rows
  <1>2. Dated(stored)
    BY StoredIsDated
  <1>3. /\ P \in Seq(Limited(stored)) /\ Limited(stored) \subseteq stored
        /\ Len(P) = Cardinality(Limited(stored)) /\ Cardinality(Limited(stored)) \in Nat
        /\ \A i \in 1..Len(P) : P[i] \in Limited(stored)
        /\ \A m \in Limited(stored) : \E i \in 1..Len(P) : P[i] = m
        /\ \A i, j \in 1..Len(P) : i < j => Before(Pos(P[i]), Pos(P[j]))
    BY <1>2, PageIsLimited, LimitedSubset
  <1> HIDE DEF P
  <1>4. \A m : Pos(m)' = Pos(m)
    BY <1>1 DEF Pos
  <1>5. InOrder'
    BY <1>1, <1>3 DEF InOrder, Before, Pos
  <1>6. ASSUME NEW m \in stored \ Limited(stored)
        PROVE  Cardinality(stored) > PageSize /\ P # <<>> /\ Before(Pos(m), Pos(P[1]))
    <2>1. /\ Cardinality(stored) > PageSize /\ Limited(stored) # {}
          /\ \A n \in Limited(stored) : Before(Pos(m), Pos(n))
      BY <1>2, LeftOut
    <2>2. 1 \in 1..Len(P)
      BY <1>3, <2>1
    <2> QED BY <1>3, <2>1, <2>2
  <1>7. more' => walk' # <<>>
    <2> SUFFICES ASSUME Cardinality(stored) > PageSize PROVE P # <<>>
      BY <1>1
    <2>1. Cardinality(stored) \in Nat /\ 0 \in 0..(Cardinality(stored) - 1)
      BY <1>2, FS_CardinalityType, TimelineAssumption DEF Dated
    <2>2. PICK m \in stored : Cardinality(Newer(stored, m)) = 0
      BY <1>2, <2>1, EveryRankIsHeld
    <2>3. m \in Limited(stored)
      BY <2>2, TimelineAssumption DEF Limited
    <2> QED BY <1>3, <2>3
  <1>8. ASSUME NEW m \in stored
        PROVE  (Walked(m) \/ (more /\ Before(Pos(m), Pos(walk[1]))))'
    <2>1. CASE m \in Limited(stored)
      BY <1>1, <1>3, <2>1 DEF Walked
    <2>2. CASE m \notin Limited(stored)
      BY <1>1, <1>6, <2>2 DEF Before, Pos
    <2> QED BY <2>1, <2>2
  <1>9. walk' \in Seq(stored') /\ more' \in BOOLEAN /\ first' \in SUBSET stored'
    BY <1>1, <1>3
  <1> QED BY <1>1, <1>5, <1>7, <1>8, <1>9 DEF WalkInv

LEMMA OlderPageWalks ==
    ASSUME RowsInv, WalkInv, OlderPage
    PROVE  WalkInv'
  <1> DEFINE P == Page(Older)
  <1>1. /\ walk' = P \o walk /\ more' = (Cardinality(Older) > PageSize)
        /\ first' = first /\ stored' = stored /\ at' = at /\ more
    BY DEF OlderPage, rows
  <1>2. Dated(Older) /\ Older \in SUBSET stored
    BY StoredIsDated DEF Older
  <1>3. /\ P \in Seq(Limited(Older)) /\ Limited(Older) \subseteq Older
        /\ Len(P) = Cardinality(Limited(Older)) /\ Cardinality(Limited(Older)) \in Nat
        /\ \A i \in 1..Len(P) : P[i] \in Limited(Older)
        /\ \A m \in Limited(Older) : \E i \in 1..Len(P) : P[i] = m
        /\ \A i, j \in 1..Len(P) : i < j => Before(Pos(P[i]), Pos(P[j]))
    BY <1>2, PageIsLimited, LimitedSubset
  <1> HIDE DEF P
  <1>4. /\ walk \in Seq(stored) /\ walk # <<>> /\ Len(walk) \in Nat /\ 1 \in 1..Len(walk)
        /\ \A i \in 1..Len(walk) : walk[i] \in stored
    BY <1>1 DEF WalkInv
  <1>5. P \in Seq(stored)
    BY <1>2, <1>3
  <1>6. /\ walk' \in Seq(stored) /\ Len(walk') = Len(P) + Len(walk) /\ Len(P) \in Nat
        /\ \A i \in 1..Len(P) : walk'[i] = P[i]
        /\ \A i \in 1..Len(walk) : walk'[Len(P) + i] = walk[i]
    BY <1>1, <1>4, <1>5
  <1>7. ASSUME NEW m \in Older, NEW i \in 1..Len(walk)
        PROVE  Before(Pos(m), Pos(walk[i]))
    <2>1. Before(Pos(m), Pos(walk[1])) /\ m \in stored /\ walk[1] \in stored
      BY <1>4 DEF Older
    <2>2. i = 1 \/ Before(Pos(walk[1]), Pos(walk[i]))
      BY <1>4 DEF WalkInv, InOrder
    <2>3. Dated(stored)
      BY StoredIsDated
    <2> QED BY <1>4, <2>1, <2>2, <2>3, BeforeIsStrict
  <1>8. InOrder'
    <2> SUFFICES ASSUME NEW i \in 1..Len(walk'), NEW j \in 1..Len(walk'), i < j
                 PROVE  Before(Pos(walk'[i]), Pos(walk'[j]))
      <3>1. InOrder' <=> \A i, j \in 1..Len(walk') :
                            i < j => Before(<<at'[walk'[i]], walk'[i]>>, <<at'[walk'[j]], walk'[j]>>)
        BY DEF InOrder, Pos, Before
      <3>2. \A m : Pos(m) = <<at'[m], m>>
        BY <1>1 DEF Pos
      <3>3. \A i, j \in 1..Len(walk') :
               i < j => Before(<<at'[walk'[i]], walk'[i]>>, <<at'[walk'[j]], walk'[j]>>)
        BY <3>2
      <3> QED BY <3>1, <3>3
    <2>1. CASE j <= Len(P)
      BY <1>3, <1>6, <2>1
    <2>2. CASE i <= Len(P) /\ j > Len(P)
      <3>1. walk'[i] \in Older
        BY <1>3, <1>6, <2>2
      <3>2. PICK l \in 1..Len(walk) : j = Len(P) + l
        <4>1. j - Len(P) \in 1..Len(walk) /\ j = Len(P) + (j - Len(P))
          BY <1>4, <1>6, <2>2
        <4> QED BY <4>1
      <3> QED BY <1>6, <1>7, <3>1, <3>2
    <2>3. CASE i > Len(P)
      <3>1. /\ i - Len(P) \in 1..Len(walk) /\ i = Len(P) + (i - Len(P))
            /\ j - Len(P) \in 1..Len(walk) /\ j = Len(P) + (j - Len(P))
            /\ i - Len(P) < j - Len(P)
        BY <1>4, <1>6, <2>3
      <3>2. Before(Pos(walk[i - Len(P)]), Pos(walk[j - Len(P)]))
        BY <3>1 DEF WalkInv, InOrder
      <3> QED BY <1>6, <3>1, <3>2
    <2> QED BY <1>6, <2>1, <2>2, <2>3
  <1>9. ASSUME NEW m \in first
        PROVE  (Walked(m) \/ (more /\ Before(Pos(m), Pos(walk[1]))))'
    <2>1. CASE Walked(m)
      <3>1. PICK i \in 1..Len(walk) : walk[i] = m
        BY <2>1 DEF Walked
      <3>2. Len(P) + i \in 1..Len(walk') /\ walk'[Len(P) + i] = m
        BY <1>4, <1>6, <3>1
      <3> QED BY <3>2 DEF Walked
    <2>2. CASE ~Walked(m)
      <3>1. m \in Older
        BY <2>2 DEF WalkInv, Older
      <3>2. CASE m \in Limited(Older)
        <4>1. PICK i \in 1..Len(P) : P[i] = m
          BY <1>3, <3>2
        <4>2. i \in 1..Len(walk') /\ walk'[i] = m
          BY <1>4, <1>6, <4>1
        <4> QED BY <4>2 DEF Walked
      <3>3. CASE m \notin Limited(Older)
        <4>1. /\ Cardinality(Older) > PageSize /\ Limited(Older) # {}
              /\ \A n \in Limited(Older) : Before(Pos(m), Pos(n))
          BY <1>2, <3>1, <3>3, LeftOut
        <4>2. 1 \in 1..Len(P) /\ walk'[1] \in Limited(Older)
          BY <1>3, <1>6, <4>1
        <4>3. Before(Pos(m), Pos(walk'[1]))
          BY <4>1, <4>2
        <4> QED BY <1>1, <4>1, <4>3 DEF Before, Pos
      <3> QED BY <3>2, <3>3
    <2> QED BY <2>1, <2>2
  <1>10. walk' \in Seq(stored') /\ more' \in BOOLEAN /\ first' \in SUBSET stored' /\ walk' # <<>>
    BY <1>1, <1>4, <1>6 DEF WalkInv
  <1> QED BY <1>1, <1>8, <1>9, <1>10 DEF WalkInv

LEMMA WalkInvStep == RowsInv /\ WalkInv /\ [Next]_vars => WalkInv'
  <1> SUFFICES ASSUME RowsInv, WalkInv, [Next]_vars PROVE WalkInv'
    OBVIOUS
  <1>1. FirstPage \/ OlderPage \/ UNCHANGED loaded
    BY DEF Next, vars, Tick, Insert, Commit, Hear, MarkRead, Advance, AdvanceOwn, loaded
  <1> QED BY <1>1, StepGrows, FirstPageWalks, OlderPageWalks, WalkKept

LEMMA WalkInvInit == Init => WalkInv
  <1> SUFFICES ASSUME Init PROVE WalkInv
    OBVIOUS
  <1>1. walk = <<>> /\ more = FALSE /\ first = {} /\ stored = {}
    BY DEF Init
  <1>2. InOrder
    BY <1>1 DEF InOrder
  <1>3. walk \in Seq(stored)
    BY <1>1
  <1> QED BY <1>1, <1>2, <1>3 DEF WalkInv

\* The clock stays in its bounds, and the timestamps with it.
ClockInv == clock \in 1..MaxClock /\ at \in [Messages -> 0..MaxClock]

LEMMA ClockInvStep == ClockInv /\ [Next]_vars => ClockInv'
  <1> SUFFICES ASSUME ClockInv, [Next]_vars PROVE ClockInv'
    OBVIOUS
  <1>1. CASE Tick
    BY <1>1, TimelineAssumption DEF Tick, ClockInv
  <1>2. ASSUME NEW m \in Messages, Insert(m) PROVE ClockInv'
    BY <1>2, TimelineAssumption DEF Insert, ClockInv
  <1>3. CASE UNCHANGED <<clock, at>>
    BY <1>3 DEF ClockInv
  <1>4. Tick \/ (\E m \in Messages : Insert(m)) \/ UNCHANGED <<clock, at>>
    BY DEF Next, vars, FirstPage, OlderPage, Commit, Hear, MarkRead, Advance, AdvanceOwn, rows
  <1> QED BY <1>1, <1>2, <1>3, <1>4

LEMMA TimelineInvariance == Spec => [](Inv /\ WalkInv /\ ClockInv)
  <1>1. Init => Inv /\ WalkInv /\ ClockInv
    <2>1. Init => Inv
      BY RowsInvInit DEF Inv, Init, CursorInv
    <2>2. Init => ClockInv
      BY TimelineAssumption DEF Init, ClockInv
    <2> QED BY <2>1, <2>2, WalkInvInit
  <1>2. Inv /\ WalkInv /\ ClockInv /\ [Next]_vars => (Inv /\ WalkInv /\ ClockInv)'
    BY RowsInvStep, CursorInvStep, WalkInvStep, ClockInvStep DEF Inv
  <1> QED BY <1>1, <1>2, PTL DEF Spec

\* Pages neither repeat a message nor skip one that was there when the first was
\* read, for any page size, although messages whose timestamps are older or equal
\* are committed between two pages.
THEOREM NothingSkipped == Spec => []WalkIsWhole
  <1>1. ASSUME WalkInv PROVE WalkIsWhole
    <2>1. \A m : Walked(m) => m \in Range(walk)
      BY <1>1 DEF Walked, Range, WalkInv
    <2> QED BY <1>1, <2>1 DEF WalkIsWhole, WalkInv, InOrder
  <1> QED BY <1>1, TimelineInvariance, PTL

\* Only rows that are committed are loaded, shown, marked or pointed at.
THEOREM TimelineTyped == Spec => []TypeOK
  <1>1. ASSUME Inv, WalkInv, ClockInv PROVE TypeOK
    <2>1. Range(walk) \in SUBSET stored
      BY <1>1 DEF Range, WalkInv
    <2>2. cursor \in Position
      <3>1. \A m \in stored : m \in Messages /\ at[m] \in Nat
        BY <1>1 DEF Inv, RowsInv
      <3>2. Seen \subseteq stored
        BY <1>1 DEF Seen, Inv, RowsInv
      <3> QED BY <1>1, <3>1, <3>2 DEF Position, Inv, CursorInv, NeverRead, Pos
    <2>3. asked \in [Devices -> stored \cup {0}]
      BY <1>1 DEF Inv, RowsInv
    <2> QED BY <1>1, <2>1, <2>2, <2>3 DEF TypeOK, Inv, RowsInv, WalkInv, ClockInv
  <1> QED BY <1>1, TimelineInvariance, PTL
=============================================================================
