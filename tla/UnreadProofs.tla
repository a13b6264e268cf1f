----------------------------- MODULE UnreadProofs -----------------------------
(***************************************************************************)
(* Proofs about Unread for any number of groups, messages, fetches,        *)
(* mark-read requests and changes: no badge shows less than what the tab   *)
(* has counted and nobody has read.                                        *)
(***************************************************************************)
EXTENDS UnreadProperties, FiniteSetTheorems, WellFoundedInduction, TLAPS

(***************************************************************************)
(* The inductive invariant.  What it says of the tab is said of a state s  *)
(* and a history c, for the loop over the queued events goes through many  *)
(* of them in one step.                                                    *)
(***************************************************************************)
UnreadState ==
    [loaded : BOOLEAN, groups : SUBSET Groups, count : [Groups -> Nat],
     revision : Nat, groupRevision : [Groups -> Nat],
     overrides : [Groups -> [revision : Nat, count : Nat]], pending : [Groups -> Nat]]

\* The messages of g counted and not read.
Due(g, c) == {m \in c[g] : m > cursor[g]}
Size(g, c) == Cardinality(Due(g, c))

Fetches ==
    [at : {"asked", "served", "done"}, revision : Nat, listed : SUBSET ours,
     blind : BOOLEAN, count : [Groups -> Nat]]
Requests ==
    [at : {"asked", "served", "done"}, group : Groups, message : Nat, count : Nat,
     blind : BOOLEAN, revision : Nat]

\* The server, what was heard of it and what is asked of it.
Outside ==
    /\ total \in [Groups -> Nat] /\ cursor \in [Groups -> Nat]
    /\ \A g \in Groups : cursor[g] <= total[g]
    /\ ours \in SUBSET Groups /\ \A g \in Groups \ ours : total[g] = 0
    /\ events \in [Groups -> Nat]
    /\ queue \in Seq(Groups \X Nat)
    /\ \A i \in 1..Len(queue) : queue[i][2] \in 1..total[queue[i][1]]
    /\ refresh \in Seq(Fetches) /\ read \in Seq(Requests)
    /\ \A i \in 1..Len(read) : read[i].message \in 1..total[read[i].group]

\* The state and the history; a tab without groups knows what was overridden.
Shape(s, c) ==
    /\ s \in UnreadState
    /\ c \in [Groups -> SUBSET Nat] /\ \A g \in Groups : c[g] \subseteq 1..total[g]
    /\ ~s.loaded => s.groups = {}

\* Nothing is pending for a group that is known; one that is not holds all it has
\* counted as pending.
Covers(s, c, g) ==
    /\ Known(s, g) => g \in ours /\ s.pending[g] = 0 /\ s.count[g] >= Size(g, c)
    /\ ~Known(s, g) => s.pending[g] >= Size(g, c)
    /\ s.pending[g] > 0 => g \in ours
    /\ s.overrides[g].revision <= s.revision
    /\ Overridden(s, g) => s.overrides[g].count = s.count[g]

\* Of a group that has not changed since the newest fetch started, the answer
\* lists it if it is known, and counts, with what is pending, all that is counted.
FetchFits(s, c, g) ==
    \A i \in 1..Len(refresh) :
       Newest(i) /\ refresh[i].at = "served" /\ s.overrides[g].revision <= refresh[i].revision =>
          /\ Known(s, g) => g \in refresh[i].listed
          /\ refresh[i].blind => refresh[i].count[g] = 0
          /\ ~refresh[i].blind => refresh[i].count[g] + s.pending[g] >= Size(g, c)

\* The same of the answers to mark-read requests.
ReadFits(s, c, g) ==
    \A i \in 1..Len(read) : read[i].group = g =>
       /\ read[i].revision <= s.groupRevision[g]
       /\ read[i].at = "served" /\ read[i].revision = s.groupRevision[g] =>
             \/ read[i].blind
             \/ read[i].count >= Size(g, c)

GroupFits(s, c, g) == Covers(s, c, g) /\ FetchFits(s, c, g) /\ ReadFits(s, c, g)

Started(s) == \A i \in 1..Len(refresh) : refresh[i].revision <= s.revision

Inside(s, c) == Shape(s, c) /\ Started(s) /\ \A g \in Groups : GroupFits(s, c, g)

UnreadInv == Outside /\ Inside(state, counted)

-----------------------------------------------------------------------------
(***************************************************************************)
(* Sizes.                                                                  *)
(***************************************************************************)
LEMMA SizeBound ==
    ASSUME NEW t \in Nat, NEW k \in Nat, k <= t, NEW D \in SUBSET (1..t)
    PROVE  /\ IsFiniteSet({m \in D : m > k}) /\ Cardinality({m \in D : m > k}) \in Nat
           /\ Cardinality({m \in D : m > k}) <= t - k
  <1> DEFINE a == k + 1
             E == {m \in D : m > k}
  <1>1. E \subseteq a..t
    <2>1. ASSUME NEW m \in D, m > k PROVE m \in a..t
      <3>1. m \in Nat /\ m <= t
        OBVIOUS
      <3> QED BY <2>1, <3>1
    <2> QED BY <2>1
  <1>2. a \in Int /\ t \in Int
    OBVIOUS
  <1>3. (IF a > t THEN 0 ELSE t - a + 1) = t - k
    OBVIOUS
  <1> HIDE DEF a, E
  <1>4. IsFiniteSet(a..t) /\ Cardinality(a..t) = t - k
    BY <1>2, <1>3, FS_Interval
  <1>5. IsFiniteSet(E) /\ Cardinality(E) \in Nat /\ Cardinality(E) <= t - k
    BY <1>1, <1>4, FS_Subset, FS_CardinalityType
  <1> QED BY <1>5 DEF E

LEMMA SizeIsNat ==
    ASSUME Outside, NEW g \in Groups, NEW c, c[g] \subseteq 1..total[g]
    PROVE  Size(g, c) \in Nat /\ IsFiniteSet(Due(g, c)) /\ Size(g, c) <= total[g] - cursor[g]
  <1>1. total[g] \in Nat /\ cursor[g] \in Nat /\ cursor[g] <= total[g]
    BY DEF Outside
  <1> QED BY <1>1, SizeBound DEF Size, Due

LEMMA SizeOfNone ==
    ASSUME NEW g \in Groups, NEW c, c[g] = {}
    PROVE  Size(g, c) = 0
  <1>1. Due(g, c) = {}
    BY DEF Due
  <1> QED BY <1>1, FS_EmptySet DEF Size

LEMMA SizeOfSame ==
    ASSUME NEW g \in Groups, NEW c, NEW d, c[g] = d[g]
    PROVE  Size(g, c) = Size(g, d)
  BY DEF Size, Due

\* One more message.
LEMMA SizeOfMore ==
    ASSUME Outside, NEW g \in Groups, NEW c, NEW d, NEW m,
           c[g] \subseteq 1..total[g], d[g] = c[g] \cup {m}
    PROVE  Size(g, d) <= Size(g, c) + 1
  <1>1. Size(g, c) \in Nat /\ IsFiniteSet(Due(g, c))
    BY SizeIsNat
  <1>2. CASE m > cursor[g] /\ m \notin c[g]
    <2>1. Due(g, d) = Due(g, c) \cup {m} /\ m \notin Due(g, c)
      BY <1>2, Zenon DEF Due
    <2>2. Cardinality(Due(g, c) \cup {m}) = Cardinality(Due(g, c)) + 1
      BY <1>1, <2>1, FS_AddElement
    <2> QED BY <1>1, <2>1, <2>2 DEF Size
  <1>3. CASE ~(m > cursor[g] /\ m \notin c[g])
    <2>1. Due(g, d) = Due(g, c)
      BY <1>3 DEF Due
    <2> QED BY <1>1, <2>1 DEF Size
  <1> QED BY <1>2, <1>3

\* Fewer messages, or a cursor further on.
LEMMA SizeOfLess ==
    ASSUME Outside, NEW g \in Groups, NEW c, NEW d,
           c[g] \subseteq 1..total[g], d \subseteq Due(g, c)
    PROVE  Cardinality(d) \in Nat /\ Cardinality(d) <= Size(g, c)
  BY SizeIsNat, FS_Subset, FS_CardinalityType DEF Size

-----------------------------------------------------------------------------
(***************************************************************************)
(* Changes of the tab's state.                                             *)
(***************************************************************************)
\* What a group has of the state.
Same(s, t, g) ==
    /\ Known(t, g) = Known(s, g)
    /\ t.count[g] = s.count[g] /\ t.pending[g] = s.pending[g]
    /\ t.overrides[g] = s.overrides[g] /\ t.groupRevision[g] = s.groupRevision[g]

LEMMA GroupFrame ==
    ASSUME Outside, NEW s, NEW t, NEW c, NEW d, Shape(s, c), NEW g \in Groups,
           GroupFits(s, c, g), Same(s, t, g), d[g] = c[g],
           t.revision \in Nat, s.revision <= t.revision
    PROVE  GroupFits(t, d, g)
  <1>1. Size(g, d) = Size(g, c)
    BY SizeOfSame
  <1>2. s.overrides[g].revision \in Nat /\ s.revision \in Nat
    BY DEF Shape, UnreadState
  <1>3. Covers(t, d, g)
    BY <1>1, <1>2 DEF GroupFits, Covers, Same, Overridden
  <1>4. FetchFits(t, d, g)
    BY <1>1 DEF GroupFits, FetchFits, Same
  <1>5. ReadFits(t, d, g)
    BY <1>1 DEF GroupFits, ReadFits, Same
  <1> QED BY <1>3, <1>4, <1>5 DEF GroupFits

LEMMA FetchTypes ==
    ASSUME Outside, NEW i \in 1..Len(refresh)
    PROVE  /\ refresh[i].at \in {"asked", "served", "done"} /\ refresh[i].revision \in Nat
           /\ refresh[i].listed \in SUBSET ours /\ refresh[i].blind \in BOOLEAN
           /\ refresh[i].count \in [Groups -> Nat]
  <1>1. refresh[i] \in Fetches
    BY DEF Outside
  <1> QED BY <1>1 DEF Fetches

LEMMA RequestTypes ==
    ASSUME Outside, NEW i \in 1..Len(read)
    PROVE  /\ read[i].at \in {"asked", "served", "done"} /\ read[i].group \in Groups
           /\ read[i].message \in 1..total[read[i].group] /\ read[i].count \in Nat
           /\ read[i].blind \in BOOLEAN /\ read[i].revision \in Nat
  <1>1. read[i] \in Requests
    BY DEF Outside
  <1>2. read[i].message \in 1..total[read[i].group]
    BY DEF Outside
  <1> QED BY <1>1, <1>2 DEF Requests

LEMMA StateFields ==
    ASSUME NEW s \in UnreadState
    PROVE  /\ s.loaded \in BOOLEAN /\ s.groups \in SUBSET Groups
           /\ s.count \in [Groups -> Nat] /\ s.revision \in Nat
           /\ s.groupRevision \in [Groups -> Nat]
           /\ s.overrides \in [Groups -> [revision : Nat, count : Nat]]
           /\ s.pending \in [Groups -> Nat]
  BY DEF UnreadState

\* t is s with a new count, revision and override of g.
Rewrites(s, t, g, n, p) ==
    /\ t \in UnreadState /\ t.loaded = s.loaded /\ t.groups = s.groups
    /\ t.revision = s.revision + 1
    /\ t.groupRevision = [s.groupRevision EXCEPT ![g] = @ + 1]
    /\ t.count = [s.count EXCEPT ![g] = n]
    /\ t.overrides = [s.overrides EXCEPT ![g] = [revision |-> s.revision + 1, count |-> n]]
    /\ t.pending = [s.pending EXCEPT ![g] = p]

\* t is s with a message of g to be added to its count.
Defers(s, t, g) ==
    /\ t \in UnreadState /\ t.loaded = s.loaded /\ t.groups = s.groups
    /\ t.revision = s.revision + 1
    /\ t.groupRevision = [s.groupRevision EXCEPT ![g] = @ + 1]
    /\ t.pending = [s.pending EXCEPT ![g] = @ + 1]
    /\ t.overrides = s.overrides /\ t.count = s.count

LEMMA MutateRewrites ==
    ASSUME NEW s \in UnreadState, NEW g \in Groups, NEW n \in Nat
    PROVE  Rewrites(s, Mutate(s, g, n), g, n, s.pending[g])
  <1> DEFINE o == [revision |-> s.revision + 1, count |-> n]
             a == [s EXCEPT !.revision = @ + 1]
             b == [a EXCEPT !.groupRevision[g] = @ + 1]
             d == [b EXCEPT !.count[g] = n]
             e == [d EXCEPT !.overrides[g] = o]
  <1>1. /\ s.revision + 1 \in Nat /\ s.groupRevision[g] + 1 \in Nat
        /\ o \in [revision : Nat, count : Nat]
        /\ s.pending = [s.pending EXCEPT ![g] = s.pending[g]]
    BY StateFields
  <1>2. /\ a \in UnreadState /\ a.loaded = s.loaded /\ a.groups = s.groups
        /\ a.revision = s.revision + 1 /\ a.groupRevision = s.groupRevision
        /\ a.count = s.count /\ a.overrides = s.overrides /\ a.pending = s.pending
    BY <1>1 DEF UnreadState
  <1>3. Mutate(s, g, n) = e
    BY DEF Mutate
  <1> HIDE DEF o, a
  <1>4. a.groupRevision[g] + 1 \in Nat
    BY <1>1, <1>2
  <1>5. /\ b \in UnreadState /\ b.loaded = a.loaded /\ b.groups = a.groups
        /\ b.revision = a.revision /\ b.groupRevision = [a.groupRevision EXCEPT ![g] = @ + 1]
        /\ b.count = a.count /\ b.overrides = a.overrides /\ b.pending = a.pending
    BY <1>2, <1>4 DEF UnreadState
  <1> HIDE DEF b
  <1>6. /\ d \in UnreadState /\ d.loaded = b.loaded /\ d.groups = b.groups
        /\ d.revision = b.revision /\ d.groupRevision = b.groupRevision
        /\ d.count = [b.count EXCEPT ![g] = n] /\ d.overrides = b.overrides
        /\ d.pending = b.pending
    BY <1>5 DEF UnreadState
  <1> HIDE DEF d
  <1>7. /\ e \in UnreadState /\ e.loaded = d.loaded /\ e.groups = d.groups
        /\ e.revision = d.revision /\ e.groupRevision = d.groupRevision
        /\ e.count = d.count /\ e.overrides = [d.overrides EXCEPT ![g] = o]
        /\ e.pending = d.pending
    BY <1>1, <1>6 DEF UnreadState
  <1> HIDE DEF e
  <1> QED BY <1>1, <1>2, <1>3, <1>5, <1>6, <1>7 DEF Rewrites, o

LEMMA ApplyReadRewrites ==
    ASSUME NEW s \in UnreadState, NEW g \in Groups, NEW n \in Nat
    PROVE  Rewrites(s, ApplyRead(s, g, n), g, n, 0)
  <1> DEFINE u == Mutate(s, g, n)
             t == [u EXCEPT !.pending[g] = 0]
  <1>1. t = ApplyRead(s, g, n)
    BY DEF ApplyRead
  <1>2. Rewrites(s, u, g, n, s.pending[g])
    BY MutateRewrites
  <1> HIDE DEF u
  <1>3. u \in UnreadState
    BY <1>2 DEF Rewrites
  <1>4. /\ t \in UnreadState /\ t.loaded = u.loaded /\ t.groups = u.groups
        /\ t.revision = u.revision /\ t.groupRevision = u.groupRevision
        /\ t.count = u.count /\ t.overrides = u.overrides
        /\ t.pending = [u.pending EXCEPT ![g] = 0]
    BY <1>3 DEF UnreadState
  <1>5. [u.pending EXCEPT ![g] = 0] = [s.pending EXCEPT ![g] = 0]
    BY <1>2, StateFields DEF Rewrites
  <1> HIDE DEF t
  <1> QED BY <1>1, <1>2, <1>4, <1>5 DEF Rewrites

LEMMA RecordDefers ==
    ASSUME NEW s \in UnreadState, NEW g \in Groups, ~Known(s, g), ~s.loaded
    PROVE  Defers(s, Record(s, g), g)
  <1> DEFINE a == [s EXCEPT !.revision = @ + 1]
             b == [a EXCEPT !.groupRevision[g] = @ + 1]
             d == [b EXCEPT !.pending[g] = @ + 1]
  <1>1. Record(s, g) = d
    BY DEF Record
  <1>2. /\ a \in UnreadState /\ a.loaded = s.loaded /\ a.groups = s.groups
        /\ a.revision = s.revision + 1 /\ a.groupRevision = s.groupRevision
        /\ a.count = s.count /\ a.overrides = s.overrides /\ a.pending = s.pending
    BY DEF UnreadState
  <1> HIDE DEF a
  <1>3. a.groupRevision[g] + 1 \in Nat /\ a.pending[g] + 1 \in Nat
    BY <1>2, StateFields
  <1>4. /\ b \in UnreadState /\ b.loaded = a.loaded /\ b.groups = a.groups
        /\ b.revision = a.revision /\ b.groupRevision = [a.groupRevision EXCEPT ![g] = @ + 1]
        /\ b.count = a.count /\ b.overrides = a.overrides /\ b.pending = a.pending
    BY <1>2, <1>3 DEF UnreadState
  <1> HIDE DEF b
  <1>5. b.pending[g] + 1 \in Nat
    BY <1>3, <1>4
  <1>6. /\ d \in UnreadState /\ d.loaded = b.loaded /\ d.groups = b.groups
        /\ d.revision = b.revision /\ d.groupRevision = b.groupRevision
        /\ d.count = b.count /\ d.overrides = b.overrides
        /\ d.pending = [b.pending EXCEPT ![g] = @ + 1]
    BY <1>4, <1>5 DEF UnreadState
  <1> HIDE DEF d
  <1> QED BY <1>1, <1>2, <1>4, <1>6 DEF Defers

\* A group that is there gets a count that covers what is counted of it.
LEMMA RewriteInside ==
    ASSUME Outside, NEW s, NEW c, Inside(s, c), NEW g \in ours, NEW n \in Nat,
           NEW D \in SUBSET (1..total[g]), n >= Size(g, [c EXCEPT ![g] = D]),
           NEW t, Rewrites(s, t, g, n, 0)
    PROVE  Inside(t, [c EXCEPT ![g] = D])
  <1> DEFINE d == [c EXCEPT ![g] = D]
  <1>1. /\ s \in UnreadState /\ c \in [Groups -> SUBSET Nat] /\ g \in Groups
        /\ total[g] \in Nat
    BY DEF Inside, Shape, Outside
  <1>2. /\ t \in UnreadState /\ t.loaded = s.loaded /\ t.groups = s.groups
        /\ t.revision = s.revision + 1
        /\ t.groupRevision = [s.groupRevision EXCEPT ![g] = @ + 1]
        /\ t.count = [s.count EXCEPT ![g] = n]
        /\ t.overrides = [s.overrides EXCEPT ![g] = [revision |-> s.revision + 1, count |-> n]]
        /\ t.pending = [s.pending EXCEPT ![g] = 0]
    BY DEF Rewrites
  <1>3. d \in [Groups -> SUBSET Nat] /\ d[g] = D /\ \A h \in Groups \ {g} : d[h] = c[h]
    BY <1>1
  <1> HIDE DEF d
  <1>4. Shape(t, d)
    BY <1>1, <1>2, <1>3 DEF Inside, Shape
  <1>5. s.revision \in Nat /\ s.groupRevision[g] \in Nat /\ t.revision \in Nat
    BY <1>1, <1>2 DEF UnreadState
  <1>6. \A i \in 1..Len(refresh) : refresh[i].revision \in Nat /\ refresh[i].revision <= s.revision
    BY FetchTypes DEF Inside, Started
  <1>7. Started(t)
    BY <1>2, <1>5, <1>6 DEF Started
  <1>8. ASSUME NEW h \in Groups, h # g PROVE GroupFits(t, d, h)
    <2>1. Same(s, t, h)
      BY <1>1, <1>2, <1>8 DEF Same, Known, Overridden, UnreadState
    <2> QED BY <1>2, <1>3, <1>5, <1>8, <2>1, GroupFrame DEF Inside
  <1>9. GroupFits(t, d, g)
    <2>1. /\ t.overrides[g] = [revision |-> s.revision + 1, count |-> n]
          /\ t.count[g] = n /\ t.pending[g] = 0
          /\ t.groupRevision[g] = s.groupRevision[g] + 1
      BY <1>1, <1>2 DEF UnreadState
    <2>2. Overridden(t, g) /\ Known(t, g)
      BY <1>5, <2>1 DEF Overridden, Known
    <2>3. n >= Size(g, d)
      BY DEF d
    <2>4. Covers(t, d, g)
      BY <1>2, <1>5, <2>1, <2>2, <2>3 DEF Covers
    <2>5. FetchFits(t, d, g)
      BY <1>5, <1>6, <2>1 DEF FetchFits
    <2>6. ReadFits(t, d, g)
      <3>1. \A i \in 1..Len(read) : read[i].group = g =>
               read[i].revision \in Nat /\ read[i].revision <= s.groupRevision[g]
        BY <1>1, RequestTypes DEF Inside, GroupFits, ReadFits
      <3> QED BY <1>5, <2>1, <3>1 DEF ReadFits
    <2> QED BY <2>4, <2>5, <2>6 DEF GroupFits
  <1> QED BY <1>4, <1>7, <1>8, <1>9 DEF Inside, d

\* What a message changes in the history.
Told(s, c, g, m) ==
    IF Known(s, g) \/ ~s.loaded THEN [c EXCEPT ![g] = @ \cup {m}] ELSE c

\* A count that is known to the tab is what its state holds.
LEMMA KnownCount ==
    ASSUME NEW s, NEW c, Inside(s, c), NEW g \in Groups, Known(s, g)
    PROVE  /\ CountOf(s, g) = s.count[g] /\ s.count[g] \in Nat /\ g \in ours
           /\ s.pending[g] = 0 /\ s.count[g] >= Size(g, c)
           /\ \A n \in Nat : Rewrites(s, Mutate(s, g, n), g, n, 0)
  <1>1. /\ s \in UnreadState /\ s.pending[g] = 0
        /\ CountOf(s, g) = s.count[g] /\ s.count[g] \in Nat /\ g \in ours
        /\ s.count[g] >= Size(g, c)
    BY DEF Inside, Shape, GroupFits, Covers, CountOf, UnreadState
  <1>2. \A n \in Nat : Rewrites(s, Mutate(s, g, n), g, n, 0)
    BY <1>1, MutateRewrites
  <1> QED BY <1>1, <1>2

LEMMA RecordInside ==
    ASSUME Outside, NEW s, NEW c, Inside(s, c), NEW g \in Groups, NEW m \in 1..total[g]
    PROVE  /\ Inside(Record(s, g), Told(s, c, g, m))
           /\ Record(s, g).loaded = s.loaded
           /\ \A h \in Groups : Known(Record(s, g), h) = Known(s, h)
           /\ Record(s, g) = s <=> ~Known(s, g) /\ s.loaded
  <1>1. /\ s \in UnreadState /\ c \in [Groups -> SUBSET Nat] /\ c[g] \subseteq 1..total[g]
        /\ s.revision \in Nat /\ total[g] \in Nat /\ g \in ours
    BY DEF Inside, Shape, UnreadState, Outside
  <1> DEFINE D == c[g] \cup {m}
             d == [c EXCEPT ![g] = D]
  <1>2. D \in SUBSET (1..total[g]) /\ d[g] = D /\ d \in [Groups -> SUBSET Nat]
        /\ \A h \in Groups \ {g} : d[h] = c[h]
    BY <1>1
  <1>3. Size(g, d) <= Size(g, c) + 1 /\ Size(g, c) \in Nat /\ Size(g, d) \in Nat
    <2> HIDE DEF d
    <2> QED BY <1>1, <1>2, SizeOfMore, SizeIsNat
  <1>4. CASE Known(s, g)
    <2>1. Rewrites(s, Record(s, g), g, s.count[g] + 1, 0) /\ s.count[g] + 1 \in Nat
      BY <1>4, KnownCount DEF Record
    <2>2. Told(s, c, g, m) = d
      BY <1>4 DEF Told
    <2>3. s.count[g] + 1 >= Size(g, d)
      BY <1>3, <1>4, KnownCount
    <2>4. Inside(Record(s, g), d)
      <3> DEFINE n == s.count[g] + 1
      <3> HIDE DEF n, D
      <3>1. n \in Nat /\ n >= Size(g, [c EXCEPT ![g] = D]) /\ D \in SUBSET (1..total[g])
        BY <1>2, <2>1, <2>3 DEF n
      <3>2. Rewrites(s, Record(s, g), g, n, 0)
        BY <2>1 DEF n
      <3> QED BY <1>1, <3>1, <3>2, RewriteInside
    <2>5. /\ Record(s, g).loaded = s.loaded /\ Record(s, g).groups = s.groups
          /\ Record(s, g).revision = s.revision + 1
          /\ Record(s, g).overrides =
                [s.overrides EXCEPT ![g] = [revision |-> s.revision + 1, count |-> s.count[g] + 1]]
      BY <2>1 DEF Rewrites
    <2>6. \A h \in Groups : Known(Record(s, g), h) = Known(s, h)
      BY <1>1, <1>4, <2>5 DEF Known, Overridden, UnreadState
    <2> QED BY <1>1, <1>4, <2>2, <2>4, <2>5, <2>6
  <1>5. CASE ~Known(s, g) /\ s.loaded
    BY <1>5 DEF Record, Told
  <1>6. CASE ~Known(s, g) /\ ~s.loaded
    <2> DEFINE t == Record(s, g)
    <2>1. Told(s, c, g, m) = d
      BY <1>6 DEF Told
    <2>2. /\ t \in UnreadState /\ t.loaded = s.loaded /\ t.groups = s.groups
          /\ t.revision = s.revision + 1
          /\ t.groupRevision = [s.groupRevision EXCEPT ![g] = @ + 1]
          /\ t.pending = [s.pending EXCEPT ![g] = @ + 1]
          /\ t.overrides = s.overrides /\ t.count = s.count
      BY <1>1, <1>6, RecordDefers DEF Defers
    <2> HIDE DEF t, d, D
    <2>3. \A h \in Groups : Known(t, h) = Known(s, h)
      BY <2>2 DEF Known, Overridden
    <2>4. Shape(t, d)
      BY <1>1, <1>2, <2>2 DEF Inside, Shape
    <2>5. Started(t)
      BY <1>1, <2>2, FetchTypes DEF Inside, Started
    <2>6. ASSUME NEW h \in Groups, h # g PROVE GroupFits(t, d, h)
      <3>1. Same(s, t, h)
        BY <1>1, <2>2, <2>3, <2>6 DEF Same, UnreadState
      <3> QED BY <1>1, <1>2, <2>2, <2>6, <3>1, GroupFrame DEF Inside
    <2>7. GroupFits(t, d, g)
      <3>1. /\ t.pending[g] = s.pending[g] + 1 /\ s.pending[g] \in Nat
            /\ t.groupRevision[g] = s.groupRevision[g] + 1 /\ s.groupRevision[g] \in Nat
            /\ t.overrides[g] = s.overrides[g] /\ t.count[g] = s.count[g]
            /\ s.overrides[g].revision \in Nat
        BY <1>1, <2>2 DEF UnreadState
      <3>2. Covers(t, d, g)
        BY <1>1, <1>3, <1>6, <2>2, <2>3, <3>1 DEF Inside, GroupFits, Covers, Overridden
      <3>3. FetchFits(t, d, g)
        <4>1. \A i \in 1..Len(refresh) : refresh[i].count[g] \in Nat
          BY FetchTypes
        <4>2. ASSUME NEW i \in 1..Len(refresh), Newest(i), refresh[i].at = "served",
                     t.overrides[g].revision <= refresh[i].revision
              PROVE  /\ Known(t, g) => g \in refresh[i].listed
                     /\ refresh[i].blind => refresh[i].count[g] = 0
                     /\ ~refresh[i].blind => refresh[i].count[g] + t.pending[g] >= Size(g, d)
          <5>1. /\ refresh[i].blind => refresh[i].count[g] = 0
                /\ ~refresh[i].blind => refresh[i].count[g] + s.pending[g] >= Size(g, c)
            BY <3>1, <4>2 DEF Inside, GroupFits, FetchFits
          <5>2. ~Known(t, g)
            BY <1>6, <2>3
          <5>3. refresh[i].count[g] \in Nat
            BY <4>1
          <5> QED BY <1>3, <3>1, <5>1, <5>2, <5>3
        <4> QED BY <4>2 DEF FetchFits
      <3>4. ReadFits(t, d, g)
        <4>1. \A i \in 1..Len(read) : read[i].group = g =>
                 read[i].revision \in Nat /\ read[i].revision <= s.groupRevision[g]
          BY <1>1, RequestTypes DEF Inside, GroupFits, ReadFits
        <4> QED BY <3>1, <4>1 DEF ReadFits
      <3> QED BY <3>2, <3>3, <3>4 DEF GroupFits
    <2>8. t # s
      BY <1>1, <2>2
    <2> QED BY <1>6, <2>1, <2>2, <2>3, <2>4, <2>5, <2>6, <2>7, <2>8 DEF Inside, t
  <1> QED BY <1>4, <1>5, <1>6
-----------------------------------------------------------------------------
(***************************************************************************)
(* The queued events, by induction over their number.                      *)
(***************************************************************************)
LEMMA Induction ==
    ASSUME NEW T, 0 \in T, \A n \in Nat : n \in T => n + 1 \in T
    PROVE  Nat \subseteq T
  <1> DEFINE R == {x \in Nat \X Nat : x[1] < x[2]}
             U == Nat \ T
  <1>1. IsWellFoundedOn(R, Nat)
    BY NatLessThanWellFounded DEF OpToRel
  <1>2. SUFFICES ASSUME U # {} PROVE FALSE
    OBVIOUS
  <1>3. PICK x \in U : \A y \in U : ~(<<y, x>> \in R)
    <2> HIDE DEF R
    <2> QED BY <1>1, <1>2, WFMin
  <1>4. x \in Nat /\ x # 0 /\ x - 1 \in Nat /\ x = (x - 1) + 1
    BY <1>3
  <1>5. x - 1 \in U
    BY <1>3, <1>4
  <1>6. <<x - 1, x>> \in R
    BY <1>4
  <1> QED BY <1>3, <1>5, <1>6

LEMMA RecordAllSteps ==
    ASSUME NEW s, NEW q, Len(q) \in Nat
    PROVE  \E a : /\ a[0] = s /\ RecordAll(s, q) = a[Len(q)]
                  /\ \A n \in 1..Len(q) : a[n] = Record(a[n - 1], q[n][1])
  <1> DEFINE Def(f, k) == f = [n \in 0..k |-> IF n = 0 THEN s ELSE Record(f[n - 1], q[n][1])]
             T == {k \in Nat : \E f : Def(f, k)}
  <1>1. 0 \in T
    <2>1. Def([n \in 0..0 |-> s], 0)
      OBVIOUS
    <2> QED BY <2>1
  <1>2. ASSUME NEW k \in Nat, k \in T PROVE k + 1 \in T
    <2>1. PICK f : Def(f, k)
      BY <1>2
    <2> DEFINE h == [n \in 0..(k + 1) |-> IF n = k + 1 THEN Record(f[k], q[k + 1][1]) ELSE f[n]]
    <2>2. \A n \in 0..k : h[n] = f[n] /\ f[n] = (IF n = 0 THEN s ELSE Record(f[n - 1], q[n][1]))
      BY <2>1
    <2>3. \A n \in 0..(k + 1) : h[n] = (IF n = 0 THEN s ELSE Record(h[n - 1], q[n][1]))
      <3> SUFFICES ASSUME NEW n \in 0..(k + 1)
                   PROVE  h[n] = (IF n = 0 THEN s ELSE Record(h[n - 1], q[n][1]))
        OBVIOUS
      <3>1. CASE n = k + 1
        BY <2>2, <3>1
      <3>2. CASE n # k + 1
        <4>1. n \in 0..k /\ (n # 0 => n - 1 \in 0..k)
          BY <3>2
        <4>2. h[n] = f[n] /\ (n # 0 => h[n - 1] = f[n - 1])
          BY <2>2, <4>1
        <4> QED BY <2>2, <4>1, <4>2
      <3> QED BY <3>1, <3>2
    <2>4. h = [n \in 0..(k + 1) |-> h[n]]
      OBVIOUS
    <2> HIDE DEF h
    <2>5. Def(h, k + 1)
      BY <2>3, <2>4
    <2> QED BY <2>5
  <1>3. Len(q) \in T
    <2> HIDE DEF T
    <2> QED BY <1>1, <1>2, Induction
  <1> DEFINE a == CHOOSE f : Def(f, Len(q))
  <1>4. Def(a, Len(q))
    BY <1>3
  <1>5. RecordAll(s, q) = a[Len(q)]
    BY DEF RecordAll
  <1> HIDE DEF a
  <1>6. a[0] = s /\ \A n \in 1..Len(q) : a[n] = Record(a[n - 1], q[n][1])
    BY <1>4
  <1> QED BY <1>5, <1>6

\* The history after the first n events of q.
ToldUpTo(s, c, q, n) ==
    [g \in Groups |-> c[g] \cup
        {m \in 1..total[g] : (\E i \in 1..n : q[i] = <<g, m>>) /\ (~s.loaded \/ Known(s, g))}]

LEMMA RecordAllInside ==
    ASSUME Outside, NEW s, NEW c, Inside(s, c), NEW q \in Seq(Groups \X Nat),
           \A i \in 1..Len(q) : q[i][2] \in 1..total[q[i][1]]
    PROVE  Inside(RecordAll(s, q), ToldUpTo(s, c, q, Len(q)))
  <1>1. PICK a : /\ a[0] = s /\ RecordAll(s, q) = a[Len(q)]
                 /\ \A n \in 1..Len(q) : a[n] = Record(a[n - 1], q[n][1])
    BY RecordAllSteps
  <1> DEFINE P(n) == /\ Inside(a[n], ToldUpTo(s, c, q, n)) /\ a[n].loaded = s.loaded
                     /\ \A h \in Groups : Known(a[n], h) = Known(s, h)
             T == {n \in Nat : n <= Len(q) => P(n)}
  <1>2. 0 \in T
    <2>1. ToldUpTo(s, c, q, 0) = c
      BY DEF ToldUpTo, Inside, Shape
    <2> QED BY <1>1, <2>1
  <1>3. ASSUME NEW n \in Nat, n \in T PROVE n + 1 \in T
    <2>1. SUFFICES ASSUME n + 1 <= Len(q) PROVE P(n + 1)
      OBVIOUS
    <2>2. n + 1 \in 1..Len(q) /\ P(n) /\ a[n + 1] = Record(a[n], q[n + 1][1])
      BY <1>1, <1>3, <2>1
    <2>3. PICK g \in Groups, m \in Nat : q[n + 1] = <<g, m>> /\ m \in 1..total[g]
      <3>1. q[n + 1] \in Groups \X Nat /\ q[n + 1][2] \in 1..total[q[n + 1][1]]
        BY <2>2
      <3> QED BY <3>1
    <2> DEFINE b == a[n]
               d == ToldUpTo(s, c, q, n)
    <2>4. /\ Inside(a[n + 1], Told(b, d, g, m)) /\ a[n + 1].loaded = s.loaded
          /\ \A h \in Groups : Known(a[n + 1], h) = Known(s, h)
      <3> HIDE DEF d
      <3>1. Inside(b, d) /\ b.loaded = s.loaded /\ \A h \in Groups : Known(b, h) = Known(s, h)
        BY <2>2 DEF d
      <3>2. a[n + 1] = Record(b, g)
        BY <2>2, <2>3
      <3> HIDE DEF b
      <3>3. /\ Inside(Record(b, g), Told(b, d, g, m)) /\ Record(b, g).loaded = b.loaded
            /\ \A h \in Groups : Known(Record(b, g), h) = Known(b, h)
        BY <2>3, <3>1, RecordInside
      <3> QED BY <3>1, <3>2, <3>3
    <2>5. Told(b, d, g, m) = ToldUpTo(s, c, q, n + 1)
      <3>1. \A h \in Groups : \A l : (\E i \in 1..(n + 1) : q[i] = <<h, l>>) <=>
                                    (\E i \in 1..n : q[i] = <<h, l>>) \/ (h = g /\ l = m)
        <4> TAKE h \in Groups
        <4> TAKE l
        <4>1. ASSUME NEW i \in 1..(n + 1), q[i] = <<h, l>>
              PROVE  (\E k \in 1..n : q[k] = <<h, l>>) \/ (h = g /\ l = m)
          <5>1. i \in 1..n \/ i = n + 1
            OBVIOUS
          <5> QED BY <2>3, <4>1, <5>1
        <4>2. ASSUME NEW i \in 1..n, q[i] = <<h, l>>
              PROVE  \E k \in 1..(n + 1) : q[k] = <<h, l>>
          <5>1. i \in 1..(n + 1)
            OBVIOUS
          <5> QED BY <4>2, <5>1
        <4>3. n + 1 \in 1..(n + 1)
          OBVIOUS
        <4> QED BY <2>3, <4>1, <4>2, <4>3
      <3>2. Known(b, g) = Known(s, g) /\ b.loaded = s.loaded
        BY <2>2
      <3>3. CASE Known(s, g) \/ ~s.loaded
        <4>1. Told(b, d, g, m) = [d EXCEPT ![g] = @ \cup {m}]
          BY <3>2, <3>3 DEF Told
        <4>2. ASSUME NEW h \in Groups
              PROVE  [d EXCEPT ![g] = @ \cup {m}][h] = ToldUpTo(s, c, q, n + 1)[h]
          <5>1. ToldUpTo(s, c, q, n + 1)[h] = c[h] \cup
                   {l \in 1..total[h] : (\E i \in 1..(n + 1) : q[i] = <<h, l>>)
                                           /\ (~s.loaded \/ Known(s, h))}
            BY DEF ToldUpTo
          <5>2. d[h] = c[h] \cup
                   {l \in 1..total[h] : (\E i \in 1..n : q[i] = <<h, l>>)
                                           /\ (~s.loaded \/ Known(s, h))}
            BY DEF ToldUpTo
          <5>3. [d EXCEPT ![g] = @ \cup {m}][h] = IF h = g THEN d[h] \cup {m} ELSE d[h]
            BY DEF ToldUpTo
          <5> HIDE DEF d
          <5>4. CASE h = g
            <6> DEFINE A(k) == {l \in 1..total[g] : (\E i \in 1..k : q[i] = <<g, l>>)
                                                   /\ (~s.loaded \/ Known(s, g))}
            <6>1. \A l : l \in A(n + 1) <=> l \in A(n) \cup {m}
              BY <2>3, <3>1, <3>3
            <6>2. A(n + 1) = A(n) \cup {m}
              BY <6>1
            <6>3. /\ ToldUpTo(s, c, q, n + 1)[g] = c[g] \cup A(n + 1)
                  /\ d[g] = c[g] \cup A(n)
              BY <5>1, <5>2, <5>4
            <6> HIDE DEF A
            <6>4. [d EXCEPT ![g] = @ \cup {m}][g] = d[g] \cup {m}
              BY <5>3, <5>4
            <6>5. d[g] \cup {m} = ToldUpTo(s, c, q, n + 1)[g]
              BY <6>2, <6>3
            <6> QED BY <5>4, <6>4, <6>5
          <5>5. CASE h # g
            BY <3>1, <5>1, <5>2, <5>3, <5>5
          <5> QED BY <5>4, <5>5
        <4>3. [d EXCEPT ![g] = @ \cup {m}] =
                 [h \in Groups |-> [d EXCEPT ![g] = @ \cup {m}][h]]
          BY DEF ToldUpTo
        <4>4. ToldUpTo(s, c, q, n + 1) = [h \in Groups |-> ToldUpTo(s, c, q, n + 1)[h]]
          BY DEF ToldUpTo
        <4> QED BY <4>1, <4>2, <4>3, <4>4
      <3>4. CASE ~Known(s, g) /\ s.loaded
        <4>1. Told(b, d, g, m) = d
          BY <3>2, <3>4 DEF Told
        <4>2. ASSUME NEW h \in Groups PROVE d[h] = ToldUpTo(s, c, q, n + 1)[h]
          BY <3>1, <3>4 DEF ToldUpTo
        <4> QED BY <4>1, <4>2 DEF ToldUpTo
      <3> QED BY <3>3, <3>4
    <2> QED BY <2>4, <2>5
  <1>4. Len(q) \in T
    <2>1. Len(q) \in Nat
      OBVIOUS
    <2> HIDE DEF T
    <2> QED BY <1>2, <1>3, <2>1, Induction
  <1> QED BY <1>1, <1>4
-----------------------------------------------------------------------------
(***************************************************************************)
(* An answer to the newest fetch.                                          *)
(***************************************************************************)
\* t is s with the groups and counts of an answer.
Renews(s, t, G, x, o, p) ==
    /\ t \in UnreadState /\ t.loaded = TRUE /\ t.groups = G /\ t.count = x
    /\ t.revision = s.revision /\ t.groupRevision = s.groupRevision
    /\ t.overrides = o /\ t.pending = p

LEMMA RefreshFields ==
    ASSUME NEW s \in UnreadState, NEW G \in SUBSET Groups, NEW x \in [Groups -> Nat],
           NEW o \in [Groups -> [revision : Nat, count : Nat]], NEW p \in [Groups -> Nat],
           NEW t, t = [s EXCEPT !.loaded = TRUE, !.groups = G, !.count = x, !.overrides = o, !.pending = p]
    PROVE  Renews(s, t, G, x, o, p)
  <1> DEFINE a == [s EXCEPT !.loaded = TRUE]
             b == [a EXCEPT !.groups = G]
             d == [b EXCEPT !.count = x]
             e == [d EXCEPT !.overrides = o]
             f == [e EXCEPT !.pending = p]
  <1>1. t = f
    OBVIOUS
  <1>2. /\ a \in UnreadState
        /\ a.loaded = TRUE /\ a.groups = s.groups /\ a.count = s.count /\ a.revision = s.revision
        /\ a.groupRevision = s.groupRevision /\ a.overrides = s.overrides /\ a.pending = s.pending
    BY DEF UnreadState
  <1> HIDE DEF a
  <1>3. /\ b \in UnreadState
        /\ b.loaded = a.loaded /\ b.groups = G /\ b.count = a.count /\ b.revision = a.revision
        /\ b.groupRevision = a.groupRevision /\ b.overrides = a.overrides /\ b.pending = a.pending
    BY <1>2 DEF UnreadState
  <1> HIDE DEF b
  <1>4. /\ d \in UnreadState
        /\ d.loaded = b.loaded /\ d.groups = b.groups /\ d.count = x /\ d.revision = b.revision
        /\ d.groupRevision = b.groupRevision /\ d.overrides = b.overrides /\ d.pending = b.pending
    BY <1>3 DEF UnreadState
  <1> HIDE DEF d
  <1>5. /\ e \in UnreadState
        /\ e.loaded = d.loaded /\ e.groups = d.groups /\ e.count = d.count /\ e.revision = d.revision
        /\ e.groupRevision = d.groupRevision /\ e.overrides = o /\ e.pending = d.pending
    BY <1>4 DEF UnreadState
  <1> HIDE DEF e
  <1>6. /\ f \in UnreadState
        /\ f.loaded = e.loaded /\ f.groups = e.groups /\ f.count = e.count /\ f.revision = e.revision
        /\ f.groupRevision = e.groupRevision /\ f.overrides = e.overrides /\ f.pending = p
    BY <1>5 DEF UnreadState
  <1> HIDE DEF f
  <1> QED BY <1>1, <1>2, <1>3, <1>4, <1>5, <1>6 DEF Renews

LEMMA ApplyRefreshInside ==
    ASSUME Outside, NEW s, NEW c, Inside(s, c), NEW i \in 1..Len(refresh), Newest(i),
           refresh[i].at = "served", NEW d, NEW t, t = ApplyRefresh(s, refresh[i]),
           d = [g \in Groups |-> IF refresh[i].blind /\ t.count[g] = 0 THEN {} ELSE c[g]]
    PROVE  /\ Shape(t, d) /\ t.revision = s.revision
           /\ \A g \in Groups : Covers(t, d, g) /\ ReadFits(t, d, g)
  <1> DEFINE r == refresh[i]
             stale == s.revision # r.revision
             local == {g \in Groups : s.overrides[g].revision > r.revision}
             groups == r.listed \cup local
             due == {g \in groups : s.pending[g] > 0}
             count == [g \in Groups |->
                         (IF g \in local THEN s.overrides[g].count ELSE r.count[g]) +
                         (IF g \in due THEN s.pending[g] ELSE 0)]
             overrides == [g \in Groups |->
                  IF stale /\ g \in due THEN [revision |-> s.revision, count |-> count[g]]
                  ELSE IF g \in local THEN s.overrides[g] ELSE NoOverride]
             pending == [g \in Groups |-> IF g \in due THEN 0 ELSE s.pending[g]]
  <1>1. s \in UnreadState
    BY DEF Inside, Shape
  <1>2. /\ r.revision \in Nat /\ r.revision <= s.revision /\ r.listed \in SUBSET ours
        /\ ours \in SUBSET Groups /\ r.count \in [Groups -> Nat] /\ r.blind \in BOOLEAN
    BY FetchTypes DEF Inside, Started, Outside
  <1>3. \A g \in Groups : /\ s.overrides[g].revision \in Nat /\ s.overrides[g].count \in Nat
                          /\ s.pending[g] \in Nat /\ s.count[g] \in Nat
    BY <1>1 DEF UnreadState
  <1>5. /\ groups \in SUBSET Groups /\ local \in SUBSET Groups /\ due \in SUBSET groups
        /\ count \in [Groups -> Nat] /\ pending \in [Groups -> Nat]
    BY <1>2, <1>3
  <1>6. overrides \in [Groups -> [revision : Nat, count : Nat]]
    <2>1. \A g \in Groups : /\ [revision |-> s.revision, count |-> count[g]] \in [revision : Nat, count : Nat]
                            /\ s.overrides[g] \in [revision : Nat, count : Nat]
                            /\ NoOverride \in [revision : Nat, count : Nat]
      BY <1>1, <1>5 DEF UnreadState, NoOverride
    <2> HIDE DEF count, due, local
    <2> QED BY <2>1
  <1>7. \A g \in Groups :
           /\ count[g] = (IF g \in local THEN s.overrides[g].count ELSE r.count[g]) +
                         (IF g \in due THEN s.pending[g] ELSE 0)
           /\ overrides[g] = (IF stale /\ g \in due THEN [revision |-> s.revision, count |-> count[g]]
                              ELSE IF g \in local THEN s.overrides[g] ELSE NoOverride)
           /\ pending[g] = (IF g \in due THEN 0 ELSE s.pending[g])
    OBVIOUS
  <1>8. \A g \in Groups : /\ g \in local <=> s.overrides[g].revision > r.revision
                          /\ g \in groups <=> g \in r.listed \/ g \in local
                          /\ g \in due <=> g \in groups /\ s.pending[g] > 0
    OBVIOUS
  <1>4. t = [s EXCEPT !.loaded = TRUE, !.groups = groups, !.count = count,
                        !.overrides = overrides, !.pending = pending]
    BY DEF ApplyRefresh
  <1> HIDE DEF count, overrides, pending, local, groups, due
  <1>9. /\ t.loaded = TRUE /\ t.groups = groups /\ t.count = count /\ t.revision = s.revision
        /\ t.groupRevision = s.groupRevision /\ t.overrides = overrides /\ t.pending = pending
        /\ t \in UnreadState
    <2>1. Renews(s, t, groups, count, overrides, pending)
      BY <1>1, <1>4, <1>5, <1>6, RefreshFields
    <2> QED BY <2>1 DEF Renews
  <1>10. t \in UnreadState
    BY <1>9
  <1>11. \A g \in Groups : d[g] = {} \/ d[g] = c[g]
    OBVIOUS
  <1>12. Shape(t, d)
    BY <1>9, <1>10, <1>11 DEF Inside, Shape
  <1>13. ASSUME NEW g \in Groups PROVE Covers(t, d, g) /\ ReadFits(t, d, g)
    <2>1. /\ Size(g, d) \in Nat /\ Size(g, c) \in Nat /\ Size(g, d) <= Size(g, c)
          /\ r.blind /\ count[g] = 0 => Size(g, d) = 0
      <3>1. c[g] \subseteq 1..total[g] /\ d[g] \subseteq 1..total[g]
        BY <1>11 DEF Inside, Shape
      <3>2. CASE d[g] = {}
        BY <3>1, <3>2, SizeOfNone, SizeIsNat
      <3>3. CASE d[g] = c[g]
        <4>1. Size(g, d) = Size(g, c)
          BY <3>3, SizeOfSame
        <4>2. r.blind /\ count[g] = 0 => d[g] = {}
          BY <1>9
        <4> QED BY <3>1, <4>1, <4>2, SizeIsNat, SizeOfNone
      <3> QED BY <1>11, <3>2, <3>3
    <2>2. /\ Known(s, g) => g \in ours /\ s.pending[g] = 0 /\ s.count[g] >= Size(g, c)
          /\ ~Known(s, g) => s.pending[g] >= Size(g, c)
          /\ s.pending[g] > 0 => g \in ours
          /\ s.overrides[g].revision <= s.revision
          /\ Overridden(s, g) => s.overrides[g].count = s.count[g]
      BY DEF Inside, GroupFits, Covers
    <2>3. g \notin local =>
             /\ Known(s, g) => g \in r.listed
             /\ r.blind => r.count[g] = 0
             /\ ~r.blind => r.count[g] + s.pending[g] >= Size(g, c)
      <3>1. FetchFits(s, c, g)
        BY DEF Inside, GroupFits
      <3>2. g \notin local => s.overrides[g].revision <= refresh[i].revision
        BY <1>2, <1>3, <1>8
      <3> QED BY <3>1, <3>2 DEF FetchFits
    <2>4. g \in local => Overridden(s, g) /\ Known(s, g)
      BY <1>2, <1>3, <1>8 DEF Overridden, Known
    <2>5. /\ t.count[g] = count[g] /\ t.overrides[g] = overrides[g] /\ t.pending[g] = pending[g]
          /\ g \in t.groups <=> g \in groups
          /\ t.groupRevision[g] = s.groupRevision[g] /\ t.revision = s.revision
      BY <1>9
    <2> DEFINE kept == s.overrides[g]
    <2>6. /\ kept.revision \in Nat /\ kept.count \in Nat /\ s.pending[g] \in Nat
          /\ s.count[g] \in Nat /\ r.count[g] \in Nat /\ s.revision \in Nat
      BY <1>1, <1>2, <1>3 DEF UnreadState
    <2>7. /\ g \in due => g \in groups /\ s.pending[g] > 0 /\ pending[g] = 0 /\ ~Known(s, g) /\ g \notin local
          /\ g \notin due => pending[g] = s.pending[g] /\ (g \in groups => pending[g] = 0)
      <3>1. /\ g \in due <=> g \in groups /\ s.pending[g] > 0
            /\ pending[g] = (IF g \in due THEN 0 ELSE s.pending[g])
        BY <1>7, <1>8
      <3>2. s.pending[g] > 0 => ~Known(s, g) /\ g \notin local
        BY <2>2, <2>4, <2>6
      <3> QED BY <2>6, <3>1, <3>2
    <2>8. /\ g \in local => count[g] = kept.count /\ overrides[g] = kept
          /\ g \in due => count[g] = r.count[g] + s.pending[g]
          /\ g \notin local /\ g \notin due => count[g] = r.count[g] /\ overrides[g] = NoOverride
          /\ g \in due /\ stale => overrides[g] = [revision |-> s.revision, count |-> count[g]]
          /\ g \in due /\ ~stale => overrides[g] = NoOverride
      BY <1>7, <2>6, <2>7
    <2>9. overrides[g].revision # 0 => g \in groups
      BY <1>8, <2>7, <2>8 DEF NoOverride
    <2>10. Known(t, g) <=> g \in groups
      BY <2>5, <2>9 DEF Known, Overridden
    <2>11. g \in groups => g \in ours /\ pending[g] = 0 /\ count[g] >= Size(g, d)
      <3>1. CASE g \in local
        BY <2>1, <2>2, <2>4, <2>6, <2>7, <2>8, <3>1
      <3>2. CASE g \in due
        BY <1>2, <1>8, <2>1, <2>2, <2>3, <2>6, <2>7, <2>8, <3>2
      <3>3. CASE g \in groups /\ g \notin local /\ g \notin due
        BY <1>2, <1>8, <2>1, <2>3, <2>6, <2>7, <2>8, <3>3
      <3> QED BY <3>1, <3>2, <3>3
    <2>14. g \notin groups => pending[g] >= Size(g, d)
      BY <1>8, <2>1, <2>2, <2>3, <2>6, <2>7
    <2>15. overrides[g].revision <= s.revision
      BY <2>2, <2>6, <2>7, <2>8 DEF NoOverride
    <2>16. overrides[g].revision # 0 => overrides[g].count = count[g]
      BY <2>2, <2>4, <2>6, <2>7, <2>8 DEF NoOverride
    <2>12. Covers(t, d, g)
      <3>1. pending[g] > 0 => g \in ours
        BY <2>2, <2>6, <2>7
      <3> QED BY <2>5, <2>10, <2>11, <2>14, <2>15, <2>16, <3>1 DEF Covers, Overridden
    <2>13. ReadFits(t, d, g)
      <3>1. \A j \in 1..Len(read) : read[j].count \in Nat
        BY RequestTypes
      <3> QED BY <2>1, <2>5, <3>1 DEF Inside, GroupFits, ReadFits
    <2> QED BY <2>12, <2>13
  <1> QED BY <1>9, <1>12, <1>13
-----------------------------------------------------------------------------
(***************************************************************************)
(* Every step keeps the invariant.                                         *)
(***************************************************************************)
LEMMA CountedInBounds ==
    ASSUME Inside(state, counted), NEW g \in Groups
    PROVE  counted[g] \subseteq 1..total[g]
  BY DEF Inside, Shape

\* Messages are said and read, which asks less of the counts.
Ages ==
    /\ UNCHANGED <<ours, state, counted>>
    /\ total' \in [Groups -> Nat] /\ cursor' \in [Groups -> Nat]
    /\ \A g \in Groups : total[g] <= total'[g] /\ cursor[g] <= cursor'[g]

LEMMA AgesShrinks ==
    ASSUME Outside, Inside(state, counted), Ages, NEW g \in Groups
    PROVE  Size(g, counted)' <= Size(g, counted) /\ Size(g, counted)' \in Nat
  <1>1. counted[g] \subseteq 1..total[g] /\ counted' = counted
    BY CountedInBounds DEF Ages
  <1>2. cursor' \in [Groups -> Nat] /\ cursor[g] <= cursor'[g]
    BY DEF Ages
  <1>3. Size(g, counted)' = Cardinality({m \in counted[g] : m > cursor'[g]})
    BY <1>1 DEF Size, Due
  <1>4. {m \in counted[g] : m > cursor'[g]} \subseteq Due(g, counted)
    <2>1. counted[g] \subseteq Nat /\ cursor[g] \in Nat /\ cursor'[g] \in Nat
      BY <1>1, <1>2 DEF Outside
    <2> QED BY <1>2, <2>1 DEF Due
  <1> QED BY <1>1, <1>3, <1>4, SizeOfLess

LEMMA AgesShape ==
    ASSUME Outside, Inside(state, counted), Ages
    PROVE  Shape(state, counted)'
  <1>1. \A g \in Groups : counted'[g] \subseteq 1..total'[g]
    <2> SUFFICES ASSUME NEW g \in Groups PROVE counted[g] \subseteq 1..total'[g]
      BY DEF Ages
    <2>1. counted[g] \subseteq 1..total[g] /\ total[g] \in Nat /\ total'[g] \in Nat /\ total[g] <= total'[g]
      BY CountedInBounds DEF Ages, Outside
    <2> QED BY <2>1
  <1> QED BY <1>1 DEF Ages, Inside, Shape, UnreadState

LEMMA AgesCovers ==
    ASSUME Outside, Inside(state, counted), Ages, NEW g \in Groups
    PROVE  Covers(state, counted, g)'
  <1>1. Covers(state, counted, g) /\ state' = state /\ ours' = ours
    BY DEF Inside, GroupFits, Ages
  <1>2. Size(g, counted)' <= Size(g, counted) /\ Size(g, counted)' \in Nat /\ Size(g, counted) \in Nat
    BY AgesShrinks, CountedInBounds, SizeIsNat
  <1>3. state.pending[g] \in Nat /\ state.count[g] \in Nat
    BY DEF Inside, Shape, UnreadState
  <1> DEFINE z == Size(g, counted)'
  <1> HIDE DEF z
  <1>4. Covers(state, counted, g)' <=>
           /\ Known(state, g) => g \in ours /\ state.pending[g] = 0 /\ state.count[g] >= z
           /\ ~Known(state, g) => state.pending[g] >= z
           /\ state.pending[g] > 0 => g \in ours
           /\ state.overrides[g].revision <= state.revision
           /\ Overridden(state, g) => state.overrides[g].count = state.count[g]
    BY <1>1 DEF Covers, Known, Overridden, z
  <1>5. z <= Size(g, counted) /\ z \in Nat
    BY <1>2 DEF z
  <1> QED BY <1>1, <1>2, <1>3, <1>4, <1>5 DEF Covers
\* What becomes of the fetches and of the mark-read requests: each stays as it is,
\* or is given an answer that counts all there is.
FetchesAge ==
    \A i \in 1..Len(refresh') :
       \/ /\ i \in 1..Len(refresh) /\ refresh'[i] = refresh[i]
          /\ Len(refresh') = Len(refresh) \/ i # Len(refresh')
       \/ /\ refresh'[i].revision <= state.revision
          /\ refresh'[i].at = "served" =>
                /\ refresh'[i].listed = ours
                /\ \A g \in Groups : IF refresh'[i].blind THEN refresh'[i].count[g] = 0
                                     ELSE refresh'[i].count[g] >= Size(g, counted)'

RequestsAge ==
    \A i \in 1..Len(read') :
       \/ i \in 1..Len(read) /\ read'[i] = read[i]
       \/ /\ read'[i].revision <= state.groupRevision[read'[i].group]
          /\ read'[i].at = "served" =>
                read'[i].blind \/ read'[i].count >= Size(read[i].group, counted)'

LEMMA AgesFetchFits ==
    ASSUME Outside, Outside', Inside(state, counted), Ages, FetchesAge, NEW g \in Groups
    PROVE  FetchFits(state, counted, g)'
  <1> DEFINE z == Size(g, counted)'
  <1>1. state' = state /\ z <= Size(g, counted) /\ z \in Nat /\ Size(g, counted) \in Nat
    BY AgesShrinks, CountedInBounds, SizeIsNat DEF Ages
  <1>2. \A i \in 1..Len(refresh') :
           refresh'[i].count[g] \in Nat /\ refresh'[i].blind \in BOOLEAN
    <2> TAKE i \in 1..Len(refresh')
    <2>1. refresh'[i] \in Fetches'
      BY DEF Outside
    <2> QED BY <2>1 DEF Fetches
  <1>3. state.pending[g] \in Nat /\ FetchFits(state, counted, g)
        /\ (Known(state, g) => g \in ours)
    BY DEF Inside, Shape, UnreadState, GroupFits, Covers
  <1> HIDE DEF z
  <1>4. ASSUME NEW i \in 1..Len(refresh'), i = Len(refresh'), refresh'[i].at = "served",
               state.overrides[g].revision <= refresh'[i].revision
        PROVE  /\ Known(state, g) => g \in refresh'[i].listed
               /\ refresh'[i].blind => refresh'[i].count[g] = 0
               /\ ~refresh'[i].blind => refresh'[i].count[g] + state.pending[g] >= z
    <2>1. CASE /\ i \in 1..Len(refresh) /\ refresh'[i] = refresh[i]
               /\ Len(refresh') = Len(refresh)
      BY <1>1, <1>2, <1>3, <1>4, <2>1 DEF FetchFits, Newest
    <2>2. CASE /\ refresh'[i].listed = ours
               /\ IF refresh'[i].blind THEN refresh'[i].count[g] = 0
                  ELSE refresh'[i].count[g] >= z
      BY <1>1, <1>2, <1>3, <2>2
    <2> QED BY <1>4, <2>1, <2>2 DEF FetchesAge, z
  <1>5. FetchFits(state, counted, g)' <=>
          \A i \in 1..Len(refresh') :
             i = Len(refresh') /\ refresh'[i].at = "served"
             /\ state.overrides[g].revision <= refresh'[i].revision =>
                /\ Known(state, g) => g \in refresh'[i].listed
                /\ refresh'[i].blind => refresh'[i].count[g] = 0
                /\ ~refresh'[i].blind => refresh'[i].count[g] + state.pending[g] >= z
    BY <1>1 DEF FetchFits, Newest, Known, Overridden, z
  <1> QED BY <1>4, <1>5

LEMMA AgesReadFits ==
    ASSUME Outside, Outside', Inside(state, counted), Ages, RequestsAge, NEW g \in Groups
    PROVE  ReadFits(state, counted, g)'
  <1> DEFINE z == Size(g, counted)'
  <1>1. state' = state /\ z <= Size(g, counted) /\ z \in Nat /\ Size(g, counted) \in Nat
    BY AgesShrinks, CountedInBounds, SizeIsNat DEF Ages
  <1>2. \A i \in 1..Len(read') : read'[i].count \in Nat
    <2> TAKE i \in 1..Len(read')
    <2>1. read'[i] \in Requests'
      BY DEF Outside
    <2> QED BY <2>1 DEF Requests
  <1>3. ReadFits(state, counted, g)
    BY DEF Inside, GroupFits
  <1>4. ASSUME NEW i \in 1..Len(read'), read'[i].group = g
        PROVE  /\ read'[i].revision <= state.groupRevision[g]
               /\ read'[i].at = "served" /\ read'[i].revision = state.groupRevision[g] =>
                     read'[i].blind \/ read'[i].count >= z
    <2>1. CASE i \in 1..Len(read) /\ read'[i] = read[i]
      <3> HIDE DEF z
      <3> QED BY <1>1, <1>2, <1>3, <1>4, <2>1 DEF ReadFits
    <2>2. CASE /\ read'[i].revision <= state.groupRevision[read'[i].group]
               /\ read'[i].at = "served" =>
                     read'[i].blind \/ read'[i].count >= Size(read[i].group, counted)'
      <3>1. Size(read[i].group, counted)' = z
        BY <1>4 DEF Size, Due
      <3> QED BY <1>4, <2>2, <3>1
    <2> QED BY <2>1, <2>2 DEF RequestsAge
  <1> HIDE DEF z
  <1>5. ReadFits(state, counted, g)' <=>
          \A i \in 1..Len(read') : read'[i].group = g =>
             /\ read'[i].revision <= state.groupRevision[g]
             /\ read'[i].at = "served" /\ read'[i].revision = state.groupRevision[g] =>
                   read'[i].blind \/ read'[i].count >= z
    BY <1>1 DEF ReadFits, z
  <1> QED BY <1>4, <1>5

LEMMA AgesInside ==
    ASSUME Outside, Outside', Inside(state, counted), Ages, FetchesAge, RequestsAge
    PROVE  Inside(state, counted)'
  <1>1. Started(state)'
    BY DEF Inside, Started, Ages, FetchesAge
  <1>2. \A g \in Groups : GroupFits(state, counted, g)'
    BY AgesCovers, AgesFetchFits, AgesReadFits DEF GroupFits
  <1> QED BY <1>1, <1>2, AgesShape DEF Inside
\* The tab is told something, and what it was told of answers no more.
AnswersEnd ==
    /\ UNCHANGED <<total, cursor>> /\ ours \subseteq ours'
    /\ Len(refresh') = Len(refresh) /\ Len(read') = Len(read)
    /\ \A i \in 1..Len(refresh) :
          refresh'[i] = refresh[i] \/ refresh'[i] = [refresh[i] EXCEPT !.at = "done"]
    /\ \A i \in 1..Len(read) :
          read'[i] = read[i] \/ read'[i] = [read[i] EXCEPT !.at = "done"]

LEMMA AnswersEndFields ==
    ASSUME Outside, AnswersEnd
    PROVE  /\ \A i \in 1..Len(refresh) :
                 /\ refresh'[i] = refresh[i] \/ refresh'[i].at = "done"
                 /\ refresh'[i].revision = refresh[i].revision
           /\ \A i \in 1..Len(read) :
                 /\ read'[i] = read[i] \/ read'[i].at = "done"
                 /\ read'[i].revision = read[i].revision /\ read'[i].group = read[i].group
  <1>1. ASSUME NEW i \in 1..Len(refresh)
        PROVE  /\ refresh'[i] = refresh[i] \/ refresh'[i].at = "done"
               /\ refresh'[i].revision = refresh[i].revision
    <2>1. refresh[i] \in Fetches
      BY DEF Outside
    <2> QED BY <2>1 DEF AnswersEnd, Fetches
  <1>2. ASSUME NEW i \in 1..Len(read)
        PROVE  /\ read'[i] = read[i] \/ read'[i].at = "done"
               /\ read'[i].revision = read[i].revision /\ read'[i].group = read[i].group
    <2>1. read[i] \in Requests
      BY DEF Outside
    <2> QED BY <2>1 DEF AnswersEnd, Requests
  <1> QED BY <1>1, <1>2

LEMMA SizeOfNext ==
    ASSUME UNCHANGED cursor, NEW g \in Groups
    PROVE  Size(g, counted)' = Size(g, counted')
  BY DEF Size, Due

LEMMA EndsShape ==
    ASSUME UNCHANGED total, Shape(state', counted')
    PROVE  Shape(state, counted)'
  BY DEF Shape, UnreadState

LEMMA EndsCovers ==
    ASSUME UNCHANGED cursor, ours \subseteq ours', NEW g \in Groups, Covers(state', counted', g)
    PROVE  Covers(state, counted, g)'
  <1> DEFINE z == Size(g, counted')
  <1>1. Size(g, counted)' = z
    BY SizeOfNext
  <1> HIDE DEF z
  <1>2. Covers(state, counted, g)' <=>
           /\ Known(state', g) => g \in ours' /\ state'.pending[g] = 0 /\ state'.count[g] >= z
           /\ ~Known(state', g) => state'.pending[g] >= z
           /\ state'.pending[g] > 0 => g \in ours'
           /\ state'.overrides[g].revision <= state'.revision
           /\ Overridden(state', g) => state'.overrides[g].count = state'.count[g]
    BY <1>1 DEF Covers, Known, Overridden
  <1> QED BY <1>2 DEF Covers, z

LEMMA EndsReadFits ==
    ASSUME Outside, AnswersEnd, NEW g \in Groups, ReadFits(state', counted', g)
    PROVE  ReadFits(state, counted, g)'
  <1> DEFINE z == Size(g, counted')
  <1>1. Size(g, counted)' = z
    BY SizeOfNext DEF AnswersEnd
  <1> HIDE DEF z
  <1>2. \A i \in 1..Len(read) : read[i].group = g =>
             /\ read[i].revision <= state'.groupRevision[g]
             /\ read[i].at = "served" /\ read[i].revision = state'.groupRevision[g] =>
                   read[i].blind \/ read[i].count >= z
    BY DEF ReadFits, z
  <1>3. ReadFits(state, counted, g)' <=>
          \A i \in 1..Len(read') : read'[i].group = g =>
             /\ read'[i].revision <= state'.groupRevision[g]
             /\ read'[i].at = "served" /\ read'[i].revision = state'.groupRevision[g] =>
                   read'[i].blind \/ read'[i].count >= z
    BY <1>1 DEF ReadFits
  <1>4. 1..Len(read') = 1..Len(read)
    BY DEF AnswersEnd
  <1> QED BY <1>2, <1>3, <1>4, AnswersEndFields

LEMMA EndsFetchFits ==
    ASSUME Outside, AnswersEnd, NEW g \in Groups, FetchFits(state', counted', g)
    PROVE  FetchFits(state, counted, g)'
  <1> DEFINE z == Size(g, counted')
  <1>1. Size(g, counted)' = z
    BY SizeOfNext DEF AnswersEnd
  <1> HIDE DEF z
  <1>2. \A i \in 1..Len(refresh) :
             i = Len(refresh) /\ refresh[i].at = "served"
             /\ state'.overrides[g].revision <= refresh[i].revision =>
                /\ Known(state', g) => g \in refresh[i].listed
                /\ refresh[i].blind => refresh[i].count[g] = 0
                /\ ~refresh[i].blind => refresh[i].count[g] + state'.pending[g] >= z
    BY DEF FetchFits, Newest, z
  <1>3. FetchFits(state, counted, g)' <=>
          \A i \in 1..Len(refresh') :
             i = Len(refresh') /\ refresh'[i].at = "served"
             /\ state'.overrides[g].revision <= refresh'[i].revision =>
                /\ Known(state', g) => g \in refresh'[i].listed
                /\ refresh'[i].blind => refresh'[i].count[g] = 0
                /\ ~refresh'[i].blind => refresh'[i].count[g] + state'.pending[g] >= z
    BY <1>1 DEF FetchFits, Newest, Known, Overridden
  <1>4. 1..Len(refresh') = 1..Len(refresh) /\ Len(refresh') = Len(refresh)
    BY DEF AnswersEnd
  <1> QED BY <1>2, <1>3, <1>4, AnswersEndFields

LEMMA EndsInside ==
    ASSUME Outside, AnswersEnd, Inside(state', counted')
    PROVE  Inside(state, counted)'
  <1>1. /\ Shape(state', counted') /\ Started(state')
        /\ \A g \in Groups : /\ Covers(state', counted', g) /\ FetchFits(state', counted', g)
                             /\ ReadFits(state', counted', g)
    BY DEF Inside, GroupFits
  <1>2. Started(state)'
    BY <1>1, AnswersEndFields DEF Started, AnswersEnd
  <1>3. Shape(state, counted)'
    BY <1>1, EndsShape DEF AnswersEnd
  <1>4. \A g \in Groups : GroupFits(state, counted, g)'
    BY <1>1, EndsCovers, EndsFetchFits, EndsReadFits DEF GroupFits, AnswersEnd
  <1> QED BY <1>2, <1>3, <1>4 DEF Inside
-----------------------------------------------------------------------------
(***************************************************************************)
(* What is outside.                                                        *)
(***************************************************************************)
ServerOK ==
    /\ total \in [Groups -> Nat] /\ cursor \in [Groups -> Nat]
    /\ \A g \in Groups : cursor[g] <= total[g]
    /\ ours \in SUBSET Groups /\ \A g \in Groups \ ours : total[g] = 0
    /\ events \in [Groups -> Nat]
QueueOK ==
    /\ queue \in Seq(Groups \X Nat)
    /\ \A i \in 1..Len(queue) : queue[i][2] \in 1..total[queue[i][1]]
RefreshOK == refresh \in Seq(Fetches)
ReadOK ==
    /\ read \in Seq(Requests)
    /\ \A i \in 1..Len(read) : read[i].message \in 1..total[read[i].group]

LEMMA OutsideNext ==
    ASSUME ServerOK', QueueOK', RefreshOK', ReadOK'
    PROVE  Outside'
  BY DEF Outside, ServerOK, QueueOK, RefreshOK, ReadOK

\* Messages are only ever added.
LEMMA MoreMessages ==
    ASSUME Outside, ours \subseteq ours', total' \in [Groups -> Nat],
           \A g \in Groups : total[g] <= total'[g]
    PROVE  /\ UNCHANGED queue => QueueOK'
           /\ UNCHANGED refresh => RefreshOK'
           /\ UNCHANGED read => ReadOK'
  <1>1. \A g \in Groups : \A m \in 1..total[g] : m \in 1..total'[g]
    <2> TAKE g \in Groups
    <2> TAKE m \in 1..total[g]
    <2>1. total[g] \in Nat /\ total'[g] \in Nat /\ total[g] <= total'[g]
      BY DEF Outside
    <2> QED BY <2>1
  <1>2. UNCHANGED queue => QueueOK'
    <2>1. \A i \in 1..Len(queue) : queue[i][1] \in Groups
      <3> TAKE i \in 1..Len(queue)
      <3>1. queue[i] \in Groups \X Nat
        BY DEF Outside
      <3> QED BY <3>1
    <2>2. \A i \in 1..Len(queue) : queue[i][2] \in 1..total[queue[i][1]]
      BY DEF Outside
    <2>3. \A i \in 1..Len(queue) : queue[i][2] \in 1..total'[queue[i][1]]
      BY <1>1, <2>1, <2>2
    <2> QED BY <2>3 DEF QueueOK, Outside
  <1>3. UNCHANGED refresh => RefreshOK'
    <2>1. Fetches \subseteq Fetches'
      BY DEF Fetches
    <2> QED BY <2>1 DEF RefreshOK, Outside
  <1>4. UNCHANGED read => ReadOK'
    <2>1. \A i \in 1..Len(read) : read[i].message \in 1..total'[read[i].group]
      BY <1>1, RequestTypes
    <2> QED BY <2>1 DEF ReadOK, Outside, Requests
  <1> QED BY <1>2, <1>3, <1>4

LEMMA NoMoreMessages ==
    ASSUME Outside, UNCHANGED <<total, ours>>
    PROVE  /\ UNCHANGED queue => QueueOK'
           /\ UNCHANGED refresh => RefreshOK'
           /\ UNCHANGED read => ReadOK'
           /\ UNCHANGED <<cursor, events>> => ServerOK'
  BY MoreMessages DEF Outside, ServerOK

LEMMA AnsweredFetch ==
    ASSUME Outside, UNCHANGED ours, NEW i \in 1..Len(refresh), NEW r,
           refresh' = [refresh EXCEPT ![i] = r], r \in Fetches
    PROVE  RefreshOK' /\ Len(refresh') = Len(refresh) /\ refresh'[i] = r
           /\ \A j \in 1..Len(refresh) : j # i => refresh'[j] = refresh[j]
  BY DEF Outside, RefreshOK, Fetches

LEMMA AnsweredRead ==
    ASSUME Outside, UNCHANGED total, NEW i \in 1..Len(read), NEW r,
           read' = [read EXCEPT ![i] = r], r \in Requests,
           r.group = read[i].group, r.message = read[i].message
    PROVE  ReadOK' /\ Len(read') = Len(read) /\ read'[i] = r
           /\ \A j \in 1..Len(read) : j # i => read'[j] = read[j]
  <1>1. read \in Seq(Requests) /\ Requests' = Requests
    BY DEF Outside, Requests
  <1>2. /\ read' \in Seq(Requests) /\ Len(read') = Len(read) /\ read'[i] = r
        /\ \A j \in 1..Len(read) : j # i => read'[j] = read[j]
    BY <1>1
  <1>3. ASSUME NEW j \in 1..Len(read) PROVE read'[j].message \in 1..total[read'[j].group]
    <2>1. read[j].message \in 1..total[read[j].group]
      BY DEF Outside
    <2>2. read'[j].group = read[j].group /\ read'[j].message = read[j].message
      BY <1>2
    <2> QED BY <2>1, <2>2
  <1> QED BY <1>1, <1>2, <1>3 DEF ReadOK

LEMMA EndedFetch ==
    ASSUME Outside, UNCHANGED ours, NEW i \in 1..Len(refresh),
           refresh' = [refresh EXCEPT ![i].at = "done"]
    PROVE  /\ RefreshOK' /\ Len(refresh') = Len(refresh)
           /\ refresh'[i] = [refresh[i] EXCEPT !.at = "done"]
           /\ \A j \in 1..Len(refresh) : j # i => refresh'[j] = refresh[j]
  <1> DEFINE r == [refresh[i] EXCEPT !.at = "done"]
  <1>1. refresh[i] \in Fetches
    BY DEF Outside
  <1>2. r \in Fetches
    BY <1>1 DEF Fetches
  <1>3. refresh' = [refresh EXCEPT ![i] = r]
    OBVIOUS
  <1> HIDE DEF r
  <1> QED BY <1>2, <1>3, AnsweredFetch DEF r

LEMMA EndedRead ==
    ASSUME Outside, UNCHANGED total, NEW i \in 1..Len(read),
           read' = [read EXCEPT ![i].at = "done"]
    PROVE  /\ ReadOK' /\ Len(read') = Len(read)
           /\ read'[i] = [read[i] EXCEPT !.at = "done"]
           /\ \A j \in 1..Len(read) : j # i => read'[j] = read[j]
  <1> DEFINE r == [read[i] EXCEPT !.at = "done"]
  <1>1. read[i] \in Requests
    BY DEF Outside
  <1>2. r \in Requests /\ r.group = read[i].group /\ r.message = read[i].message
    BY <1>1 DEF Requests
  <1>3. read' = [read EXCEPT ![i] = r]
    OBVIOUS
  <1> HIDE DEF r
  <1> QED BY <1>2, <1>3, AnsweredRead DEF r
-----------------------------------------------------------------------------
(***************************************************************************)
(* The steps of the server, and those by which something is asked.         *)
(***************************************************************************)
LEMMA Unmoved ==
    ASSUME Outside, UNCHANGED <<total, cursor, ours, state, counted>>
    PROVE  Ages
  BY DEF Outside, Ages

LEMMA SayInv ==
    ASSUME UnreadInv, NEW g \in Groups, Say(g)
    PROVE  UnreadInv'
  <1>1. Outside /\ Inside(state, counted)
    BY DEF UnreadInv
  <1>2. /\ total' = [total EXCEPT ![g] = @ + 1] /\ g \in ours
        /\ UNCHANGED <<cursor, ours, events, queue, state, refresh, read, counted>>
    BY DEF Say, socket
  <1>3. \A h \in Groups : /\ total[h] \in Nat /\ cursor[h] \in Nat /\ cursor[h] <= total[h]
                          /\ total'[h] = IF h = g THEN total[h] + 1 ELSE total[h]
    BY <1>1, <1>2 DEF Outside
  <1>4. total' \in [Groups -> Nat] /\ \A h \in Groups : total[h] <= total'[h] /\ cursor[h] <= total'[h]
    BY <1>1, <1>2, <1>3 DEF Outside
  <1>5. ServerOK'
    BY <1>1, <1>2, <1>3, <1>4 DEF ServerOK, Outside
  <1>6. Outside'
    BY <1>1, <1>2, <1>4, <1>5, MoreMessages, OutsideNext
  <1>7. Ages
    BY <1>1, <1>2, <1>3, <1>4 DEF Ages, Outside
  <1>8. FetchesAge /\ RequestsAge
    BY <1>2 DEF FetchesAge, RequestsAge
  <1> QED BY <1>1, <1>6, <1>7, <1>8, AgesInside DEF UnreadInv

LEMMA ReadElsewhereInv ==
    ASSUME UnreadInv, NEW g \in Groups, ReadElsewhere(g)
    PROVE  UnreadInv'
  <1>1. Outside /\ Inside(state, counted)
    BY DEF UnreadInv
  <1>2. /\ cursor' = [cursor EXCEPT ![g] = total[g]]
        /\ UNCHANGED <<total, ours, events, queue, state, refresh, read, counted>>
    BY DEF ReadElsewhere, socket
  <1>3. \A h \in Groups : /\ total[h] \in Nat /\ cursor[h] \in Nat /\ cursor[h] <= total[h]
                          /\ cursor'[h] = IF h = g THEN total[h] ELSE cursor[h]
    BY <1>1, <1>2 DEF Outside
  <1>4. /\ cursor' \in [Groups -> Nat]
        /\ \A h \in Groups : cursor[h] <= cursor'[h] /\ cursor'[h] <= total[h]
    BY <1>1, <1>2, <1>3 DEF Outside
  <1>5. ServerOK'
    BY <1>1, <1>2, <1>4 DEF ServerOK, Outside
  <1>6. Outside'
    BY <1>1, <1>2, <1>5, NoMoreMessages, OutsideNext
  <1>7. Ages
    BY <1>1, <1>2, <1>3, <1>4 DEF Ages, Outside
  <1>8. FetchesAge /\ RequestsAge
    BY <1>2 DEF FetchesAge, RequestsAge
  <1> QED BY <1>1, <1>6, <1>7, <1>8, AgesInside DEF UnreadInv

LEMMA RefreshInv ==
    ASSUME UnreadInv, Refresh
    PROVE  UnreadInv'
  <1> DEFINE r == [at |-> "asked", revision |-> state.revision, listed |-> {},
                   blind |-> FALSE, count |-> [g \in Groups |-> 0]]
  <1>1. Outside /\ Inside(state, counted)
    BY DEF UnreadInv
  <1>2. /\ refresh' = Append(refresh, r)
        /\ UNCHANGED <<total, cursor, ours, events, queue, state, read, counted>>
    BY DEF Refresh, server, socket
  <1>3. r \in Fetches /\ r.revision = state.revision /\ r.at = "asked" /\ state.revision \in Nat
    BY <1>1 DEF Fetches, Inside, Shape, UnreadState
  <1> HIDE DEF r
  <1>4. /\ refresh' \in Seq(Fetches) /\ Len(refresh') = Len(refresh) + 1 /\ Len(refresh) \in Nat
        /\ \A i \in 1..Len(refresh) : refresh'[i] = refresh[i]
        /\ refresh'[Len(refresh) + 1] = r
    BY <1>1, <1>2, <1>3 DEF Outside
  <1>5. RefreshOK'
    BY <1>2, <1>4 DEF RefreshOK, Fetches
  <1>6. Outside'
    BY <1>1, <1>2, <1>5, NoMoreMessages, OutsideNext
  <1>7. FetchesAge
    <2>1. \A i \in 1..Len(refresh') : i \in 1..Len(refresh) \/ i = Len(refresh) + 1
      BY <1>4
    <2>2. \A i \in 1..Len(refresh) : i # Len(refresh')
      BY <1>4
    <2> QED BY <1>3, <1>4, <2>1, <2>2 DEF FetchesAge
  <1>8. RequestsAge
    BY <1>2 DEF RequestsAge
  <1> QED BY <1>1, <1>2, <1>6, <1>7, <1>8, Unmoved, AgesInside DEF UnreadInv

LEMMA MarkReadInv ==
    ASSUME UnreadInv, NEW g \in Groups, MarkRead(g)
    PROVE  UnreadInv'
  <1>1. Outside /\ Inside(state, counted)
    BY DEF UnreadInv
  <1>2. PICK m \in 1..total[g] :
           read' = Append(read, [at |-> "asked", group |-> g, message |-> m, count |-> 0,
                                 blind |-> FALSE, revision |-> state.groupRevision[g]])
    BY DEF MarkRead
  <1> DEFINE r == [at |-> "asked", group |-> g, message |-> m, count |-> 0,
                   blind |-> FALSE, revision |-> state.groupRevision[g]]
  <1>3. UNCHANGED <<total, cursor, ours, events, queue, state, refresh, counted>>
    BY DEF MarkRead, server, socket
  <1>4. /\ r \in Requests /\ r.revision = state.groupRevision[g] /\ r.at = "asked"
        /\ r.group = g /\ r.message = m /\ state.groupRevision[g] \in Nat
    <2>1. total[g] \in Nat /\ m \in Nat
      BY <1>1 DEF Outside
    <2>2. state.groupRevision[g] \in Nat
      BY <1>1 DEF Inside, Shape, UnreadState
    <2> QED BY <2>1, <2>2 DEF Requests
  <1>5. read' = Append(read, r)
    BY <1>2
  <1> HIDE DEF r
  <1>6. /\ read' \in Seq(Requests) /\ Len(read') = Len(read) + 1 /\ Len(read) \in Nat
        /\ \A i \in 1..Len(read) : read'[i] = read[i]
        /\ read'[Len(read) + 1] = r
    BY <1>1, <1>4, <1>5 DEF Outside
  <1>7. \A i \in 1..Len(read') : i \in 1..Len(read) \/ i = Len(read) + 1
    BY <1>6
  <1>8. ReadOK'
    <2>1. \A i \in 1..Len(read') : read'[i].message \in 1..total[read'[i].group]
      BY <1>1, <1>4, <1>6, <1>7, RequestTypes
    <2> QED BY <1>3, <1>6, <2>1 DEF ReadOK, Requests
  <1>9. Outside'
    BY <1>1, <1>3, <1>8, NoMoreMessages, OutsideNext
  <1>10. RequestsAge
    BY <1>4, <1>6, <1>7 DEF RequestsAge
  <1>11. FetchesAge
    BY <1>3 DEF FetchesAge
  <1> QED BY <1>1, <1>3, <1>9, <1>10, <1>11, Unmoved, AgesInside DEF UnreadInv
LEMMA ServedFetch ==
    ASSUME NEW x \in Fetches, NEW f \in BOOLEAN, NEW n \in [Groups -> Nat]
    PROVE  [x EXCEPT !.at = "served", !.listed = ours, !.blind = f, !.count = n] =
           [at |-> "served", revision |-> x.revision, listed |-> ours, blind |-> f, count |-> n]
  <1> DEFINE a == [x EXCEPT !.at = "served"]
             b == [a EXCEPT !.listed = ours]
             c == [b EXCEPT !.blind = f]
             d == [c EXCEPT !.count = n]
  <1>1. a \in Fetches /\ a.at = "served" /\ a.revision = x.revision
    BY DEF Fetches
  <1> HIDE DEF a
  <1>2. b \in Fetches /\ b.at = a.at /\ b.revision = a.revision /\ b.listed = ours
    BY <1>1 DEF Fetches
  <1> HIDE DEF b
  <1>3. c \in Fetches /\ c.at = b.at /\ c.revision = b.revision /\ c.listed = b.listed /\ c.blind = f
    BY <1>2 DEF Fetches
  <1> HIDE DEF c
  <1>4. /\ d \in Fetches /\ d.at = c.at /\ d.revision = c.revision /\ d.listed = c.listed
        /\ d.blind = c.blind /\ d.count = n
    BY <1>3 DEF Fetches
  <1>5. [x EXCEPT !.at = "served", !.listed = ours, !.blind = f, !.count = n] = d
    BY DEF a, b, c
  <1> HIDE DEF d
  <1>6. d = [at |-> d.at, revision |-> d.revision, listed |-> d.listed,
             blind |-> d.blind, count |-> d.count]
    BY <1>4 DEF Fetches
  <1> QED BY <1>1, <1>2, <1>3, <1>4, <1>5, <1>6

LEMMA ServedRead ==
    ASSUME NEW x \in Requests, NEW f \in BOOLEAN, NEW n \in Nat
    PROVE  [x EXCEPT !.at = "served", !.blind = f, !.count = n] =
           [at |-> "served", group |-> x.group, message |-> x.message, count |-> n,
            blind |-> f, revision |-> x.revision]
  <1> DEFINE a == [x EXCEPT !.at = "served"]
             b == [a EXCEPT !.blind = f]
             c == [b EXCEPT !.count = n]
  <1>1. /\ a \in Requests /\ a.at = "served" /\ a.group = x.group /\ a.message = x.message
        /\ a.revision = x.revision
    BY DEF Requests
  <1> HIDE DEF a
  <1>2. /\ b \in Requests /\ b.at = a.at /\ b.group = a.group /\ b.message = a.message
        /\ b.revision = a.revision /\ b.blind = f
    BY <1>1 DEF Requests
  <1> HIDE DEF b
  <1>3. /\ c \in Requests /\ c.at = b.at /\ c.group = b.group /\ c.message = b.message
        /\ c.revision = b.revision /\ c.blind = b.blind /\ c.count = n
    BY <1>2 DEF Requests
  <1>4. [x EXCEPT !.at = "served", !.blind = f, !.count = n] = c
    BY DEF a, b
  <1> HIDE DEF c
  <1>5. c = [at |-> c.at, group |-> c.group, message |-> c.message, count |-> c.count,
             blind |-> c.blind, revision |-> c.revision]
    BY <1>3 DEF Requests
  <1> QED BY <1>1, <1>2, <1>3, <1>4, <1>5

LEMMA ServeRefreshInv ==
    ASSUME UnreadInv, NEW i \in 1..Len(refresh), ServeRefresh(i)
    PROVE  UnreadInv'
  <1>1. Outside /\ Inside(state, counted)
    BY DEF UnreadInv
  <1>2. PICK fails \in BOOLEAN :
           refresh' = [refresh EXCEPT
                ![i].at = "served", ![i].listed = ours, ![i].blind = fails,
                ![i].count = [g \in Groups |-> Unseen(g, cursor[g], fails)]]
    BY DEF ServeRefresh
  <1>3. UNCHANGED <<total, cursor, ours, events, queue, state, read, counted>>
    BY DEF ServeRefresh, server, socket
  <1> DEFINE n == [g \in Groups |-> Unseen(g, cursor[g], fails)]
             r == [at |-> "served", revision |-> refresh[i].revision, listed |-> ours,
                   blind |-> fails, count |-> n]
  <1>4. \A g \in Groups : total[g] \in Nat /\ cursor[g] \in Nat /\ cursor[g] <= total[g]
    BY <1>1 DEF Outside
  <1>5. n \in [Groups -> Nat] /\ \A g \in Groups : n[g] = IF fails THEN 0 ELSE total[g] - cursor[g]
    BY <1>4 DEF Unseen
  <1>6. refresh' = [refresh EXCEPT ![i] = r]
    <2>1. refresh[i] \in Fetches
      BY <1>1 DEF Outside
    <2> HIDE DEF n
    <2>2. [refresh[i] EXCEPT !.at = "served", !.listed = ours, !.blind = fails, !.count = n] = r
      BY <1>5, <2>1, ServedFetch
    <2>3. refresh' = [refresh EXCEPT ![i] =
              [refresh[i] EXCEPT !.at = "served", !.listed = ours, !.blind = fails, !.count = n]]
      BY <1>1, <1>2 DEF n, Outside
    <2> QED BY <2>2, <2>3
  <1>7. /\ r \in Fetches /\ r.revision = refresh[i].revision /\ r.listed = ours
        /\ r.blind = fails /\ r.count = n
    <2>1. refresh[i].revision \in Nat
      BY <1>1, FetchTypes
    <2> HIDE DEF n
    <2> QED BY <1>5, <2>1 DEF Fetches
  <1> HIDE DEF r, n
  <1>8. /\ RefreshOK' /\ Len(refresh') = Len(refresh) /\ refresh'[i] = r
        /\ \A j \in 1..Len(refresh) : j # i => refresh'[j] = refresh[j]
    BY <1>1, <1>3, <1>6, <1>7, AnsweredFetch
  <1>9. Outside'
    BY <1>1, <1>3, <1>8, NoMoreMessages, OutsideNext
  <1>10. Ages
    BY <1>1, <1>3, Unmoved
  <1>11. FetchesAge
    <2>1. \A g \in Groups : Size(g, counted)' = Size(g, counted)
      BY <1>3 DEF Size, Due
    <2>2. \A g \in Groups : ~fails => n[g] >= Size(g, counted)'
      BY <1>1, <1>5, <2>1, CountedInBounds, SizeIsNat
    <2>3. refresh[i].revision <= state.revision
      BY <1>1 DEF Inside, Started
    <2> QED BY <1>5, <1>7, <1>8, <2>2, <2>3 DEF FetchesAge
  <1>12. RequestsAge
    BY <1>3 DEF RequestsAge
  <1> QED BY <1>1, <1>9, <1>10, <1>11, <1>12, AgesInside DEF UnreadInv

LEMMA ServeReadInv ==
    ASSUME UnreadInv, NEW i \in 1..Len(read), ServeRead(i)
    PROVE  UnreadInv'
  <1> DEFINE g == read[i].group
             m == read[i].message
  <1>1. Outside /\ Inside(state, counted)
    BY DEF UnreadInv
  <1>2. /\ cursor' = [cursor EXCEPT ![g] = IF m > @ THEN m ELSE @]
        /\ UNCHANGED <<total, ours, events, queue, state, refresh, counted>>
    BY DEF ServeRead, socket
  <1>3. PICK fails \in BOOLEAN :
           read' = [read EXCEPT ![i].at = "served", ![i].blind = fails,
                                ![i].count = Unseen(g, cursor'[g], fails)]
    BY DEF ServeRead
  <1>4. g \in Groups /\ m \in 1..total[g] /\ read[i].revision \in Nat
    BY <1>1, RequestTypes
  <1>5. \A h \in Groups : /\ total[h] \in Nat /\ cursor[h] \in Nat /\ cursor[h] <= total[h]
                          /\ cursor'[h] = IF h = g /\ m > cursor[h] THEN m ELSE cursor[h]
    BY <1>1, <1>2, <1>4 DEF Outside
  <1>6. /\ cursor' \in [Groups -> Nat]
        /\ \A h \in Groups : cursor[h] <= cursor'[h] /\ cursor'[h] <= total[h]
    <2>1. m \in Nat /\ m <= total[g]
      BY <1>4, <1>5
    <2> HIDE DEF g, m
    <2>2. \A h \in Groups : cursor'[h] \in Nat /\ cursor[h] <= cursor'[h] /\ cursor'[h] <= total[h]
      BY <1>5, <2>1
    <2> QED BY <1>1, <1>2, <2>2 DEF Outside
  <1> DEFINE n == Unseen(g, cursor'[g], fails)
             r == [at |-> "served", group |-> g, message |-> m, count |-> n,
                   blind |-> fails, revision |-> read[i].revision]
  <1>7. n \in Nat /\ n = IF fails THEN 0 ELSE total[g] - cursor'[g]
    BY <1>4, <1>5, <1>6 DEF Unseen
  <1>8. read' = [read EXCEPT ![i] = r]
    <2>1. read[i] \in Requests
      BY <1>1 DEF Outside
    <2> HIDE DEF n
    <2>2. [read[i] EXCEPT !.at = "served", !.blind = fails, !.count = n] = r
      BY <1>7, <2>1, ServedRead
    <2>3. read' = [read EXCEPT ![i] =
              [read[i] EXCEPT !.at = "served", !.blind = fails, !.count = n]]
      BY <1>1, <1>3 DEF n, Outside
    <2> QED BY <2>2, <2>3
  <1>9. /\ r \in Requests /\ r.group = g /\ r.message = m /\ r.blind = fails
        /\ r.count = n /\ r.revision = read[i].revision
    <2>1. m \in Nat
      BY <1>4, <1>5
    <2> HIDE DEF n, g, m
    <2> QED BY <1>4, <1>7, <2>1 DEF Requests
  <1> HIDE DEF r, n
  <1>10. /\ ReadOK' /\ Len(read') = Len(read) /\ read'[i] = r
         /\ \A j \in 1..Len(read) : j # i => read'[j] = read[j]
    BY <1>1, <1>2, <1>8, <1>9, AnsweredRead
  <1>11. ServerOK'
    BY <1>1, <1>2, <1>6 DEF ServerOK, Outside
  <1>12. Outside'
    BY <1>1, <1>2, <1>10, <1>11, NoMoreMessages, OutsideNext
  <1>13. Ages
    BY <1>1, <1>2, <1>5, <1>6 DEF Ages, Outside
  <1>14. RequestsAge
    <2>1. Size(read[i].group, counted)' = Cardinality({k \in counted[g] : k > cursor'[g]})
      BY <1>2, <1>9, <1>10 DEF Size, Due
    <2>2. counted[g] \in SUBSET (1..total[g]) /\ cursor'[g] \in Nat /\ cursor'[g] <= total[g]
          /\ total[g] \in Nat
      BY <1>1, <1>4, <1>5, <1>6, CountedInBounds
    <2>3. ~fails => n >= Size(read[i].group, counted)'
      <3> HIDE DEF g
      <3> QED BY <1>7, <2>1, <2>2, SizeBound
    <2>4. read[i].revision <= state.groupRevision[g]
      BY <1>1, <1>4 DEF Inside, GroupFits, ReadFits
    <2> QED BY <1>9, <1>10, <2>3, <2>4 DEF RequestsAge
  <1>15. FetchesAge
    BY <1>2 DEF FetchesAge
  <1> QED BY <1>1, <1>12, <1>13, <1>14, <1>15, AgesInside DEF UnreadInv
-----------------------------------------------------------------------------
(***************************************************************************)
(* The steps by which the tab is told something.                           *)
(***************************************************************************)
LEMMA RefreshFailsInv ==
    ASSUME UnreadInv, NEW i \in 1..Len(refresh), RefreshFails(i)
    PROVE  UnreadInv'
  <1>1. Outside /\ Inside(state, counted)
    BY DEF UnreadInv
  <1>2. /\ refresh' = [refresh EXCEPT ![i].at = "done"]
        /\ UNCHANGED <<total, cursor, ours, events, queue, state, read, counted>>
    BY DEF RefreshFails, server, socket
  <1>3. /\ RefreshOK' /\ Len(refresh') = Len(refresh)
        /\ refresh'[i] = [refresh[i] EXCEPT !.at = "done"]
        /\ \A j \in 1..Len(refresh) : j # i => refresh'[j] = refresh[j]
    BY <1>1, <1>2, EndedFetch
  <1>4. Outside'
    BY <1>1, <1>2, <1>3, NoMoreMessages, OutsideNext
  <1>5. AnswersEnd
    BY <1>2, <1>3 DEF AnswersEnd
  <1>6. Inside(state', counted')
    BY <1>1, <1>2
  <1> QED BY <1>1, <1>4, <1>5, <1>6, EndsInside DEF UnreadInv

LEMMA CountInside ==
    ASSUME Outside, Inside(state, counted), NEW g \in Groups, NEW m \in 1..total[g], Count(g, m)
    PROVE  Inside(state', counted')
  <1>1. state' = Record(state, g)
    BY DEF Count
  <1>2. counted \in [Groups -> SUBSET Nat]
    BY DEF Inside, Shape
  <1>3. Inside(Record(state, g), Told(state, counted, g, m))
        /\ (Record(state, g) = state <=> ~Known(state, g) /\ state.loaded)
    BY RecordInside
  <1>4. counted' = Told(state, counted, g, m)
    <2>1. CASE Record(state, g) = state
      BY <1>1, <1>2, <1>3, <2>1 DEF Count, Told
    <2>2. CASE Record(state, g) # state
      BY <1>1, <1>2, <1>3, <2>2 DEF Count, Told
    <2> QED BY <2>1, <2>2
  <1> QED BY <1>1, <1>3, <1>4

LEMMA HearInv ==
    ASSUME UnreadInv, NEW g \in Groups, Hear(g)
    PROVE  UnreadInv'
  <1>1. Outside /\ Inside(state, counted)
    BY DEF UnreadInv
  <1>2. PICK m \in events[g] + 1..total[g] :
           /\ events' = [events EXCEPT ![g] = m]
           /\ \/ Count(g, m) /\ UNCHANGED queue
              \/ queue' = Append(queue, <<g, m>>) /\ UNCHANGED <<state, counted>>
              \/ UNCHANGED <<queue, state, counted>>
    BY DEF Hear
  <1>3. UNCHANGED <<total, cursor, ours, refresh, read>>
    BY DEF Hear, server
  <1>4. events[g] \in Nat /\ total[g] \in Nat
    BY <1>1 DEF Outside
  <1>5. m \in 1..total[g] /\ m \in Nat
    BY <1>4
  <1>6. ServerOK'
    BY <1>1, <1>2, <1>3, <1>5 DEF ServerOK, Outside
  <1>7. QueueOK'
    <2>1. CASE queue' = queue
      BY <1>1, <1>3, <2>1, NoMoreMessages
    <2>2. CASE queue' = Append(queue, <<g, m>>)
      <3>1. /\ queue' \in Seq(Groups \X Nat) /\ Len(queue') = Len(queue) + 1 /\ Len(queue) \in Nat
            /\ \A i \in 1..Len(queue) : queue'[i] = queue[i]
            /\ queue'[Len(queue) + 1] = <<g, m>>
        BY <1>1, <1>5, <2>2 DEF Outside
      <3>2. \A i \in 1..Len(queue') : i \in 1..Len(queue) \/ i = Len(queue) + 1
        BY <3>1
      <3>3. \A i \in 1..Len(queue) : queue[i][2] \in 1..total[queue[i][1]]
        BY <1>1 DEF Outside
      <3>4. \A i \in 1..Len(queue') : queue'[i][2] \in 1..total[queue'[i][1]]
        BY <1>5, <3>1, <3>2, <3>3
      <3> QED BY <1>3, <3>1, <3>4 DEF QueueOK
    <2> QED BY <1>2, <2>1, <2>2
  <1>8. Outside'
    BY <1>1, <1>3, <1>6, <1>7, NoMoreMessages, OutsideNext
  <1>9. AnswersEnd
    BY <1>3 DEF AnswersEnd
  <1>10. Inside(state', counted')
    BY <1>1, <1>2, <1>5, CountInside
  <1> QED BY <1>1, <1>8, <1>9, <1>10, EndsInside DEF UnreadInv

LEMMA IdentifyInv ==
    ASSUME UnreadInv, Identify
    PROVE  UnreadInv'
  <1>1. Outside /\ Inside(state, counted)
    BY DEF UnreadInv
  <1>2. UNCHANGED <<total, cursor, ours, events, refresh, read>> /\ queue' = <<>>
        /\ state' = RecordAll(state, queue)
    BY DEF Identify, server
  <1>3. QueueOK' /\ ServerOK'
    BY <1>1, <1>2 DEF QueueOK, ServerOK, Outside
  <1>4. Outside'
    BY <1>1, <1>2, <1>3, NoMoreMessages, OutsideNext
  <1>5. AnswersEnd
    BY <1>2 DEF AnswersEnd
  <1>6. counted' = ToldUpTo(state, counted, queue, Len(queue))
    <2>1. queue \in Seq(Groups \X Nat)
      BY <1>1 DEF Outside
    <2>2. \A e : e \in ToSet(queue) <=> \E i \in 1..Len(queue) : queue[i] = e
      BY <2>1 DEF ToSet
    <2>3. \A g \in Groups :
             {m \in 1..total[g] : <<g, m>> \in ToSet(queue) /\ (~state.loaded \/ Known(state, g))} =
             {m \in 1..total[g] : (\E i \in 1..Len(queue) : queue[i] = <<g, m>>)
                                  /\ (~state.loaded \/ Known(state, g))}
      BY <2>2
    <2>4. counted' = [g \in Groups |-> counted[g] \cup
             {m \in 1..total[g] : <<g, m>> \in ToSet(queue) /\ (~state.loaded \/ Known(state, g))}]
      BY DEF Identify
    <2> QED BY <2>3, <2>4 DEF ToldUpTo
  <1>7. Inside(state', counted')
    <2>1. queue \in Seq(Groups \X Nat)
          /\ \A i \in 1..Len(queue) : queue[i][2] \in 1..total[queue[i][1]]
      BY <1>1 DEF Outside
    <2> QED BY <1>1, <1>2, <1>6, <2>1, RecordAllInside
  <1> QED BY <1>1, <1>4, <1>5, <1>7, EndsInside DEF UnreadInv

LEMMA IdentityFailsInv ==
    ASSUME UnreadInv, IdentityFails
    PROVE  UnreadInv'
  <1>1. Outside /\ Inside(state, counted)
    BY DEF UnreadInv
  <1>2. UNCHANGED <<total, cursor, ours, events, refresh, read, state, counted>> /\ queue' = <<>>
    BY DEF IdentityFails, server
  <1>3. QueueOK' /\ ServerOK'
    BY <1>1, <1>2 DEF QueueOK, ServerOK, Outside
  <1>4. Outside'
    BY <1>1, <1>2, <1>3, NoMoreMessages, OutsideNext
  <1>5. AnswersEnd /\ Inside(state', counted')
    BY <1>1, <1>2 DEF AnswersEnd
  <1> QED BY <1>1, <1>4, <1>5, EndsInside DEF UnreadInv
LEMMA RefreshArrivesInv ==
    ASSUME UnreadInv, NEW i \in 1..Len(refresh), RefreshArrives(i)
    PROVE  UnreadInv'
  <1>1. Outside /\ Inside(state, counted)
    BY DEF UnreadInv
  <1>2. /\ refresh' = [refresh EXCEPT ![i].at = "done"] /\ refresh[i].at = "served"
        /\ UNCHANGED <<total, cursor, ours, events, queue, read>>
    BY DEF RefreshArrives, server, socket
  <1>3. /\ RefreshOK' /\ Len(refresh') = Len(refresh)
        /\ refresh'[i] = [refresh[i] EXCEPT !.at = "done"]
        /\ \A j \in 1..Len(refresh) : j # i => refresh'[j] = refresh[j]
    BY <1>1, <1>2, EndedFetch
  <1>4. Outside'
    BY <1>1, <1>2, <1>3, NoMoreMessages, OutsideNext
  <1>5. AnswersEnd
    BY <1>2, <1>3 DEF AnswersEnd
  <1>6. CASE ~Newest(i)
    <2>1. counted \in [Groups -> SUBSET Nat]
      BY <1>1 DEF Inside, Shape
    <2>2. state' = state /\ counted' = counted
      BY <1>6, <2>1 DEF RefreshArrives
    <2>3. Inside(state', counted')
      BY <1>1, <2>2
    <2> QED BY <1>1, <1>4, <1>5, <2>3, EndsInside DEF UnreadInv
  <1>7. CASE Newest(i)
    <2>1. /\ state' = ApplyRefresh(state, refresh[i])
          /\ counted' = [g \in Groups |->
                IF refresh[i].blind /\ state'.count[g] = 0 THEN {} ELSE counted[g]]
      BY <1>7 DEF RefreshArrives
    <2>2. /\ Shape(state', counted') /\ state'.revision = state.revision
          /\ \A g \in Groups : Covers(state', counted', g) /\ ReadFits(state', counted', g)
      BY <1>1, <1>2, <1>7, <2>1, ApplyRefreshInside
    <2>3. Shape(state, counted)'
      BY <1>2, <2>2, EndsShape
    <2>4. Started(state)'
      <3>1. \A j \in 1..Len(refresh) : refresh'[j].revision = refresh[j].revision
        BY <1>1, <1>5, AnswersEndFields
      <3>2. \A j \in 1..Len(refresh) : refresh[j].revision <= state.revision
        BY <1>1 DEF Inside, Started
      <3> QED BY <1>3, <2>2, <3>1, <3>2 DEF Started
    \* No answer to the newest fetch is under way any more.
    <2>5. ASSUME NEW g \in Groups PROVE FetchFits(state, counted, g)'
      <3>1. refresh[i] \in Fetches /\ i = Len(refresh')
        BY <1>1, <1>3, <1>7 DEF Outside, Newest
      <3>2. refresh'[Len(refresh')].at = "done"
        BY <1>3, <3>1 DEF Fetches
      <3> QED BY <3>2 DEF FetchFits, Newest
    <2>6. ASSUME NEW g \in Groups PROVE GroupFits(state, counted, g)'
      <3>1. Covers(state, counted, g)'
        BY <1>2, <2>2, EndsCovers
      <3>2. ReadFits(state, counted, g)'
        BY <1>1, <1>5, <2>2, EndsReadFits
      <3> QED BY <2>5, <3>1, <3>2 DEF GroupFits
    <2> QED BY <1>4, <2>3, <2>4, <2>6 DEF UnreadInv, Inside
  <1> QED BY <1>6, <1>7

\* What is asked of a group has been said in it.
LEMMA AskedOfOurs ==
    ASSUME Outside, NEW i \in 1..Len(read)
    PROVE  read[i].group \in ours
  <1>1. /\ read[i].group \in Groups /\ read[i].message \in 1..total[read[i].group]
        /\ total[read[i].group] \in Nat
    BY RequestTypes DEF Outside
  <1>2. total[read[i].group] # 0
    BY <1>1
  <1> QED BY <1>1, <1>2 DEF Outside

LEMMA ReadArrivesInv ==
    ASSUME UnreadInv, NEW i \in 1..Len(read), ReadArrives(i)
    PROVE  UnreadInv'
  <1> DEFINE g == read[i].group
             n == read[i].count
             D == IF read[i].blind THEN {} ELSE counted[g]
  <1>1. Outside /\ Inside(state, counted)
    BY DEF UnreadInv
  <1>2. /\ read' = [read EXCEPT ![i].at = "done"] /\ read[i].at = "served"
        /\ UNCHANGED <<total, cursor, ours, events, queue, refresh>>
    BY DEF ReadArrives, server, socket
  <1>3. /\ ReadOK' /\ Len(read') = Len(read)
        /\ read'[i] = [read[i] EXCEPT !.at = "done"]
        /\ \A j \in 1..Len(read) : j # i => read'[j] = read[j]
    BY <1>1, <1>2, EndedRead
  <1>4. Outside'
    BY <1>1, <1>2, <1>3, NoMoreMessages, OutsideNext
  <1>5. AnswersEnd
    BY <1>2, <1>3 DEF AnswersEnd
  <1>6. /\ counted \in [Groups -> SUBSET Nat] /\ state \in UnreadState
        /\ counted[g] \subseteq 1..total[g] /\ total[g] \in Nat
        /\ g \in Groups /\ g \in ours /\ n \in Nat
    BY <1>1, RequestTypes, AskedOfOurs DEF Inside, Shape, Outside
  <1>7. CASE ~ReadIsCurrent(i)
    <2>1. state' = state /\ counted' = counted
      BY <1>6, <1>7 DEF ReadArrives
    <2> QED BY <1>1, <1>4, <1>5, <2>1, EndsInside DEF UnreadInv
  <1>8. CASE ReadIsCurrent(i)
    <2>1. state' = ApplyRead(state, g, n) /\ counted' = [counted EXCEPT ![g] = D]
      BY <1>6, <1>8 DEF ReadArrives
    <2>2. D \in SUBSET (1..total[g]) /\ counted'[g] = D
      BY <1>6, <2>1
    <2>3. n >= Size(g, counted')
      <3>1. read[i].revision = state.groupRevision[g]
        BY <1>8 DEF ReadIsCurrent
      <3>2. read[i].blind \/ n >= Size(g, counted)
        BY <1>1, <1>2, <1>6, <3>1 DEF Inside, GroupFits, ReadFits
      <3>3. CASE read[i].blind
        BY <1>6, <2>2, <3>3, SizeOfNone
      <3>4. CASE ~read[i].blind
        <4>1. counted'[g] = counted[g]
          BY <2>2, <3>4
        <4>2. Size(g, counted') = Size(g, counted)
          BY <1>6, <4>1, SizeOfSame
        <4> QED BY <3>2, <3>4, <4>2
      <3> QED BY <3>3, <3>4
    <2> HIDE DEF g, n, D
    <2>4. Rewrites(state, ApplyRead(state, g, n), g, n, 0)
      BY <1>6, ApplyReadRewrites
    <2>5. Inside(state', counted')
      BY <1>1, <1>6, <2>1, <2>2, <2>3, <2>4, RewriteInside
    <2> QED BY <1>1, <1>4, <1>5, <2>5, EndsInside DEF UnreadInv
  <1> QED BY <1>7, <1>8

LEMMA ReadFailsInv ==
    ASSUME UnreadInv, NEW i \in 1..Len(read), ReadFails(i)
    PROVE  UnreadInv'
  <1>1. Outside /\ Inside(state, counted)
    BY DEF UnreadInv
  <1>2. /\ read' = [read EXCEPT ![i].at = "done"]
        /\ Count(read[i].group, read[i].message) \/ UNCHANGED <<state, counted>>
        /\ UNCHANGED <<total, cursor, ours, events, queue, refresh>>
    BY DEF ReadFails, server, socket
  <1>3. /\ ReadOK' /\ Len(read') = Len(read)
        /\ read'[i] = [read[i] EXCEPT !.at = "done"]
        /\ \A j \in 1..Len(read) : j # i => read'[j] = read[j]
    BY <1>1, <1>2, EndedRead
  <1>4. Outside'
    BY <1>1, <1>2, <1>3, NoMoreMessages, OutsideNext
  <1>5. AnswersEnd
    BY <1>2, <1>3 DEF AnswersEnd
  <1>6. read[i].group \in Groups /\ read[i].message \in 1..total[read[i].group]
    BY <1>1, RequestTypes
  <1>7. Inside(state', counted')
    BY <1>1, <1>2, <1>6, CountInside
  <1> QED BY <1>1, <1>4, <1>5, <1>7, EndsInside DEF UnreadInv

LEMMA PinInv ==
    ASSUME UnreadInv, NEW g \in Groups, Pin(g)
    PROVE  UnreadInv'
  <1>1. Outside /\ Inside(state, counted)
    BY DEF UnreadInv
  <1>2. /\ Known(state, g) /\ state' = Mutate(state, g, CountOf(state, g))
        /\ UNCHANGED <<total, cursor, ours, events, queue, refresh, read, counted>>
    BY DEF Pin, SetPinned, server, socket
  <1>3. Outside'
    BY <1>1, <1>2, NoMoreMessages, OutsideNext
  <1>4. AnswersEnd
    BY <1>2 DEF AnswersEnd
  <1> DEFINE n == state.count[g]
             D == counted[g]
  <1>5. /\ CountOf(state, g) = n /\ n \in Nat /\ g \in ours /\ n >= Size(g, counted)
        /\ Rewrites(state, Mutate(state, g, n), g, n, 0)
    BY <1>1, <1>2, KnownCount
  <1>6. D \in SUBSET (1..total[g]) /\ [counted EXCEPT ![g] = D] = counted
    BY <1>1 DEF Inside, Shape
  <1> HIDE DEF n, D
  <1> DEFINE c == [counted EXCEPT ![g] = D]
  <1>7. n >= Size(g, c) /\ counted' = c /\ state' = Mutate(state, g, n)
    BY <1>2, <1>5, <1>6
  <1>8. Inside(state', c)
    BY <1>1, <1>5, <1>6, <1>7, RewriteInside
  <1>9. Inside(state', counted')
    BY <1>7, <1>8
  <1> QED BY <1>1, <1>3, <1>4, <1>9, EndsInside DEF UnreadInv
\* t is s with the group g, which shows nothing.
Adds(s, t, g) ==
    /\ t \in UnreadState /\ t.loaded = TRUE /\ t.groups = s.groups \cup {g}
    /\ t.revision = s.revision + 1
    /\ t.groupRevision = [s.groupRevision EXCEPT ![g] = @ + 1]
    /\ t.count = [s.count EXCEPT ![g] = 0]
    /\ t.overrides = [s.overrides EXCEPT ![g] = [revision |-> s.revision + 1, count |-> 0]]
    /\ t.pending = s.pending

LEMMA AddGroupAdds ==
    ASSUME NEW s \in UnreadState, NEW g \in Groups
    PROVE  Adds(s, AddGroup(s, g), g)
  <1> DEFINE u == Mutate(s, g, 0)
             a == [u EXCEPT !.loaded = TRUE]
             b == [a EXCEPT !.groups = @ \cup {g}]
  <1>1. b = AddGroup(s, g)
    BY DEF AddGroup
  <1>2. Rewrites(s, u, g, 0, s.pending[g])
    BY MutateRewrites
  <1> HIDE DEF u
  <1>3. u \in UnreadState /\ [s.pending EXCEPT ![g] = s.pending[g]] = s.pending
    BY <1>2, StateFields DEF Rewrites
  <1>4. /\ a \in UnreadState /\ a.loaded = TRUE /\ a.groups = u.groups
        /\ a.revision = u.revision /\ a.groupRevision = u.groupRevision
        /\ a.count = u.count /\ a.overrides = u.overrides /\ a.pending = u.pending
    BY <1>3 DEF UnreadState
  <1> HIDE DEF a
  <1>5. a.groups \cup {g} \in SUBSET Groups
    BY <1>4, StateFields
  <1>6. /\ b \in UnreadState /\ b.loaded = a.loaded /\ b.groups = a.groups \cup {g}
        /\ b.revision = a.revision /\ b.groupRevision = a.groupRevision
        /\ b.count = a.count /\ b.overrides = a.overrides /\ b.pending = a.pending
    BY <1>4, <1>5 DEF UnreadState
  <1> HIDE DEF b
  <1> QED BY <1>1, <1>2, <1>3, <1>4, <1>6 DEF Rewrites, Adds

LEMMA CreateInv ==
    ASSUME UnreadInv, NEW g \in Groups, Create(g)
    PROVE  UnreadInv'
  <1>1. Outside /\ Inside(state, counted)
    BY DEF UnreadInv
  <1>2. /\ g \notin ours /\ ours' = ours \cup {g} /\ state' = AddGroup(state, g)
        /\ UNCHANGED <<total, cursor, events, queue, refresh, read, counted>>
    BY DEF Create, socket
  <1>3. \A h \in Groups : total[h] \in Nat /\ total[h] <= total'[h]
    BY <1>1, <1>2 DEF Outside
  <1>4. Outside'
    <2>1. ServerOK'
      BY <1>1, <1>2 DEF ServerOK, Outside
    <2>2. ours \subseteq ours' /\ total' \in [Groups -> Nat]
      BY <1>1, <1>2 DEF Outside
    <2> QED BY <1>1, <1>2, <1>3, <2>1, <2>2, MoreMessages, OutsideNext
  <1>5. AnswersEnd
    BY <1>2 DEF AnswersEnd
  <1>6. state \in UnreadState /\ Adds(state, state', g)
    BY <1>1, <1>2, AddGroupAdds DEF Inside, Shape
  <1>7. /\ state' \in UnreadState /\ state'.loaded = TRUE
        /\ state'.groups = state.groups \cup {g}
        /\ state'.revision = state.revision + 1 /\ state.revision \in Nat
        /\ state'.groupRevision = [state.groupRevision EXCEPT ![g] = @ + 1]
        /\ state'.count = [state.count EXCEPT ![g] = 0]
        /\ state'.overrides =
              [state.overrides EXCEPT ![g] = [revision |-> state.revision + 1, count |-> 0]]
        /\ state'.pending = state.pending
    BY <1>6, StateFields DEF Adds
  <1>8. /\ state'.overrides[g] = [revision |-> state.revision + 1, count |-> 0]
        /\ state'.count[g] = 0 /\ state'.pending[g] = state.pending[g]
        /\ state'.groupRevision[g] = state.groupRevision[g] + 1
        /\ state.groupRevision[g] \in Nat /\ state.pending[g] \in Nat
    BY <1>6, <1>7, StateFields
  <1>9. Shape(state, counted)'
    <2>1. Shape(state', counted')
      BY <1>1, <1>2, <1>7 DEF Inside, Shape
    <2> QED BY <1>2, <2>1, EndsShape
  <1>10. \A i \in 1..Len(refresh) : refresh[i].revision \in Nat /\ refresh[i].revision <= state.revision
    BY <1>1, FetchTypes DEF Inside, Started
  <1>11. Started(state)'
    BY <1>2, <1>7, <1>10 DEF Started
  <1>12. ASSUME NEW h \in Groups, h # g PROVE GroupFits(state, counted, h)'
    <2>1. Same(state, state', h)
      BY <1>6, <1>7, <1>12 DEF Same, Known, Overridden, UnreadState
    <2>2. /\ Shape(state, counted) /\ GroupFits(state, counted, h)
          /\ state'.revision \in Nat /\ state.revision <= state'.revision /\ counted'[h] = counted[h]
      BY <1>1, <1>2, <1>7 DEF Inside
    <2>3. GroupFits(state', counted', h)
      BY <1>1, <2>1, <2>2, GroupFrame
    <2> QED BY <1>1, <1>2, <1>5, <2>3, EndsCovers, EndsFetchFits, EndsReadFits
            DEF GroupFits, AnswersEnd
  <1>13. GroupFits(state, counted, g)'
    \* Nothing has been said in g: there is nothing to count, and no request.
    <2>1. Size(g, counted)' = 0 /\ Size(g, counted') = 0
      <3>1. counted[g] \subseteq 1..total[g] /\ total[g] = 0
        BY <1>1, <1>2 DEF Inside, Shape, Outside
      <3>2. counted'[g] = {}
        BY <1>2, <3>1
      <3>3. Size(g, counted') = 0
        BY <3>2, SizeOfNone
      <3> QED BY <1>2, <3>3, SizeOfNext
    <2>2. state.pending[g] = 0
      <3>1. state.pending[g] > 0 => g \in ours
        BY <1>1 DEF Inside, GroupFits, Covers
      <3> QED BY <1>2, <1>8, <3>1
    <2>3. Known(state', g) /\ Overridden(state', g)
      BY <1>7, <1>8 DEF Known, Overridden
    <2>4. Covers(state, counted, g)'
      <3>1. Covers(state', counted', g) <=>
               /\ g \in ours /\ state'.pending[g] = 0 /\ state'.count[g] >= 0
               /\ state'.pending[g] > 0 => g \in ours
               /\ state'.overrides[g].revision <= state'.revision
               /\ state'.overrides[g].count = state'.count[g]
        BY <2>1, <2>3 DEF Covers
      <3>2. Covers(state, counted, g)' <=>
               /\ g \in ours' /\ state'.pending[g] = 0 /\ state'.count[g] >= 0
               /\ state'.pending[g] > 0 => g \in ours'
               /\ state'.overrides[g].revision <= state'.revision
               /\ state'.overrides[g].count = state'.count[g]
        BY <2>1, <2>3 DEF Covers, Known, Overridden
      <3> QED BY <1>2, <1>7, <1>8, <2>2, <3>2
    <2>5. FetchFits(state', counted', g)
      BY <1>7, <1>8, <1>10 DEF FetchFits
    <2>6. ReadFits(state', counted', g)
      <3>1. \A i \in 1..Len(read) : read[i].group # g
        BY <1>1, <1>2, AskedOfOurs
      <3> QED BY <3>1 DEF ReadFits
    <2> QED BY <1>1, <1>5, <2>4, <2>5, <2>6, EndsFetchFits, EndsReadFits DEF GroupFits
  <1> QED BY <1>4, <1>9, <1>11, <1>12, <1>13 DEF UnreadInv, Inside

LEMMA StutterInv ==
    ASSUME UnreadInv, UNCHANGED vars
    PROVE  UnreadInv'
  <1>1. Outside /\ Inside(state, counted)
    BY DEF UnreadInv
  <1>2. UNCHANGED <<total, cursor, ours, events, queue, refresh, read, state, counted>>
    BY DEF vars, server, socket
  <1>3. ServerOK'
    BY <1>1, <1>2 DEF ServerOK, Outside
  <1>4. Outside'
    BY <1>1, <1>2, <1>3, NoMoreMessages, OutsideNext
  <1>5. AnswersEnd /\ Inside(state', counted')
    BY <1>1, <1>2 DEF AnswersEnd
  <1> QED BY <1>1, <1>4, <1>5, EndsInside DEF UnreadInv

LEMMA UnreadInvInit ==
    Init => UnreadInv
  <1> SUFFICES ASSUME Init PROVE UnreadInv
    OBVIOUS
  <1>1. /\ total = [g \in Groups |-> 0] /\ cursor = [g \in Groups |-> 0]
        /\ ours \in SUBSET Groups /\ events = [g \in Groups |-> 0]
        /\ queue = <<>> /\ refresh = <<>> /\ read = <<>>
        /\ counted = [g \in Groups |-> {}]
    BY DEF Init
  <1>2. Outside
    <2>1. Len(queue) = 0 /\ Len(read) = 0
      BY <1>1
    <2>2. queue \in Seq(Groups \X Nat) /\ refresh \in Seq(Fetches) /\ read \in Seq(Requests)
      BY <1>1
    <2> QED BY <1>1, <2>1, <2>2 DEF Outside
  <1>3. /\ state \in UnreadState /\ state.groups = {} /\ state.revision = 0
        /\ \A g \in Groups : /\ state.overrides[g] = NoOverride
                             /\ state.pending[g] = 0 /\ state.count[g] = 0
    BY DEF Init, CreateUnreadState, UnreadState, NoOverride
  <1>4. Shape(state, counted)
    BY <1>1, <1>3 DEF Shape
  <1>5. Len(refresh) = 0 /\ Len(read) = 0
    BY <1>1
  <1>6. ASSUME NEW g \in Groups PROVE GroupFits(state, counted, g)
    <2>1. Size(g, counted) = 0
      BY <1>1, SizeOfNone
    <2>2. ~Known(state, g) /\ ~Overridden(state, g)
      BY <1>3 DEF Known, Overridden, NoOverride
    <2>3. Covers(state, counted, g)
      BY <1>3, <2>1, <2>2 DEF Covers, NoOverride
    <2> QED BY <1>5, <2>3 DEF GroupFits, FetchFits, ReadFits
  <1> QED BY <1>2, <1>4, <1>5, <1>6 DEF UnreadInv, Inside, Started

LEMMA UnreadInvNext ==
    UnreadInv /\ [Next]_vars => UnreadInv'
  <1> SUFFICES ASSUME UnreadInv, [Next]_vars PROVE UnreadInv'
    OBVIOUS
  <1>1. CASE Refresh
    BY <1>1, RefreshInv
  <1>2. CASE Identify
    BY <1>2, IdentifyInv
  <1>3. CASE IdentityFails
    BY <1>3, IdentityFailsInv
  <1>4. ASSUME NEW g \in Groups,
               \/ Say(g) \/ ReadElsewhere(g) \/ Hear(g)
               \/ MarkRead(g) \/ Create(g) \/ Pin(g)
        PROVE  UnreadInv'
    BY <1>4, SayInv, ReadElsewhereInv, HearInv, MarkReadInv, CreateInv, PinInv
  <1>5. ASSUME NEW i \in 1..Len(refresh),
               ServeRefresh(i) \/ RefreshArrives(i) \/ RefreshFails(i)
        PROVE  UnreadInv'
    BY <1>5, ServeRefreshInv, RefreshArrivesInv, RefreshFailsInv
  <1>6. ASSUME NEW i \in 1..Len(read), ServeRead(i) \/ ReadArrives(i) \/ ReadFails(i)
        PROVE  UnreadInv'
    BY <1>6, ServeReadInv, ReadArrivesInv, ReadFailsInv
  <1>7. CASE UNCHANGED vars
    BY <1>7, StutterInv
  <1> QED BY <1>1, <1>2, <1>3, <1>4, <1>5, <1>6, <1>7 DEF Next

\* Of every badge: whatever answers came in whatever order, and whatever was
\* heard, changed or counted meanwhile, it shows no less than the messages that
\* the tab counted and nobody has read.
THEOREM BadgesCover == Spec => []NeverUndercounts
  <1>1. UnreadInv => NeverUndercounts
    <2> SUFFICES ASSUME UnreadInv, NEW g \in Groups, Known(state, g) \/ ~state.loaded
                 PROVE  Badge(g) >= Cardinality({m \in counted[g] : m > cursor[g]})
      BY DEF NeverUndercounts
    <2>1. /\ Known(state, g) => state.count[g] >= Size(g, counted)
          /\ ~Known(state, g) => state.pending[g] >= Size(g, counted)
          /\ ~state.loaded => state.groups = {}
      BY DEF UnreadInv, Inside, Shape, GroupFits, Covers
    <2>2. Badge(g) >= Size(g, counted)
      BY <2>1 DEF Badge, Known
    <2> QED BY <2>2 DEF Size, Due
  <1> QED BY <1>1, UnreadInvInit, UnreadInvNext, PTL DEF Spec
=============================================================================
