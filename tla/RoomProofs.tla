------------------------------ MODULE RoomProofs ------------------------------
(***************************************************************************)
(* Proofs about Room for any number of messages, sends, pages and faults:  *)
(* nothing is on screen or stored twice, and once the room is connected    *)
(* and caught up, history can be walked back to every message but those    *)
(* named in HistoryStaysWalkable.                                          *)
(***************************************************************************)
EXTENDS RoomProperties, FiniteSetTheorems, SequenceTheorems, WellFoundedInduction, TLAPS

(***************************************************************************)
(* The inductive invariant.                                                *)
(***************************************************************************)
Once(s) == \A i, j \in 1..Len(s) : s[i] = s[j] => i = j
Messages(s) == s \in Seq(Nat) /\ \A i \in 1..Len(s) : s[i] \in 1..Len(stored)

FirstPages == [state : {"asked", "served", "done", "failed"}, top : Nat, overtaken : BOOLEAN]
Fills == [state : {"asked", "served"}, had : SUBSET Nat, top : Nat, stale : BOOLEAN, anchor : Nat]
EarlierPages == [state : {"asked"}, top : Nat, requestedAt : Nat, stale : BOOLEAN]
Renders == [list : Seq(Nat), before : Nat, loading : BOOLEAN]

StoredOK == stored \in Seq(Nat)
SocketOK ==
    /\ Messages(wire)
    /\ conn \in {"dialing", "subscribed", "open", "down", "over"} /\ redial \in BOOLEAN
ShownOK ==
    /\ Messages(list) /\ Once(list)
    /\ before \in 0..Len(stored) /\ epoch \in Nat
    /\ list = <<>> => before = 0

\* Where nothing is shown, there is nothing earlier to ask for.
RenderedOK ==
    /\ rendered \in Renders
    /\ Messages(rendered.list) /\ Once(rendered.list) /\ rendered.before <= Len(stored)
    /\ list = <<>> \/ rendered.list = <<>> => rendered.before = 0 /\ earlier = Idle

FetchesOK ==
    /\ first \in FirstPages /\ first.top <= Len(stored)
    /\ fill # Idle =>
          /\ fill \in Fills /\ fill.top <= Len(stored) /\ fill.had \subseteq 1..Len(stored)
          /\ fill.state = "served" /\ fill.had # {} => fill.top # 0
    /\ again \in BOOLEAN /\ (again => fill # Idle)
    /\ earlier # Idle =>
          earlier \in EarlierPages /\ earlier.top <= Len(stored) /\ earlier.requestedAt <= epoch

\* One client id for each message that the reader meant to send.
SendsOK ==
    /\ ids \in Nat /\ ids = meant
    /\ posting \subseteq 1..ids /\ pending \in [Kinds -> 0..ids]
    /\ sending.kind \in Kinds \cup {"none"}
    /\ \A i \in 1..Len(stored) : stored[i] \in 0..ids
    /\ \A i, j \in 1..Len(stored) : stored[i] = stored[j] /\ stored[i] # 0 => i = j

Shape == StoredOK /\ SocketOK /\ ShownOK /\ RenderedOK /\ FetchesOK /\ SendsOK

\* Until the first page is there, nothing else has asked for one.
FirstAlone ==
    first.state \in {"asked", "served"} =>
       before = 0 /\ rendered.before = 0 /\ fill = Idle /\ earlier = Idle

\* A page that is still wanted ends just before the cursor it was asked for with.
EarlierFits == earlier # Idle /\ Current /\ ~earlier.stale => before = earlier.top + 1

\* The backfill's page is newer than what its snapshot was of, and than what was
\* put before that.
FillFits ==
    fill # Idle /\ ~fill.stale =>
       /\ fill.had = {} => before = 0 /\ rendered.before = 0 /\ earlier = Idle
       /\ fill.had # {} =>
             \E p \in 1..Len(list) :
                /\ list[p] = fill.anchor
                /\ fill.state = "served" => \A i \in 1..p : list[i] <= fill.top
       /\ fill.state = "served" =>
             /\ before <= fill.top /\ rendered.before <= fill.top
             /\ earlier # Idle => earlier.top <= fill.top

\* A reconnect is due, which will start a backfill.
Redials == conn \in {"down", "over"} \/ (redial /\ conn \in {"dialing", "subscribed"})

\* The backfill will bring m: it is newer than what the snapshot was of.
Filled(m) ==
    /\ fill # Idle
    /\ \/ fill.stale
       \/ /\ \A n \in fill.had : n < m
          /\ fill.state = "served" => m <= fill.top

\* What still can bring m, or make its loss known.
Promised(m) ==
    \/ m \in excused
    \/ first.state = "asked" \/ (first.state = "served" /\ m <= first.top)
    \/ conn = "dialing" /\ ~redial /\ m > first.top
    \/ Redials \/ again \/ Filled(m)

Walkable ==
    ~first.overtaken =>
       FirstAlone /\ EarlierFits /\ FillFits /\ \A m \in Gap : Promised(m)

RoomInv == Shape /\ Walkable
-----------------------------------------------------------------------------
(***************************************************************************)
(* Sequences.                                                              *)
(***************************************************************************)
LEMMA Induction ==
    ASSUME NEW T, 0 \in T, \A n \in Nat : n \in T => n + 1 \in T
    PROVE  Nat \subseteq T
  <1> DEFINE R == {x \in Nat \X Nat : x[1] < x[2]}
             U == Nat \ T
  <1>1. IsWellFoundedOn(R, Nat)
    BY NatLessThanWellFounded DEF OpToRel
  <1>2. SUFFICES ASSUME U # {} PROVE FALSE
    OBVIOUS
  <1>3. PICK x \in U : \A y \in U : ~(<<y, x>> \in R)
    <2> HIDE DEF R
    <2> QED BY <1>1, <1>2, WFMin
  <1>4. x \in Nat /\ x # 0 /\ x - 1 \in Nat /\ x = (x - 1) + 1
    BY <1>3
  <1>5. x - 1 \in U
    BY <1>3, <1>4
  <1>6. <<x - 1, x>> \in R
    BY <1>4
  <1> QED BY <1>3, <1>5, <1>6

LEMMA Elements ==
    ASSUME NEW s \in Seq(Nat)
    PROVE  /\ ToSet(s) \subseteq Nat /\ Len(s) \in Nat
           /\ \A m : m \in ToSet(s) <=> \E i \in 1..Len(s) : s[i] = m
           /\ \A i \in 1..Len(s) : s[i] \in ToSet(s) /\ s[i] \in Nat
           /\ ToSet(s) = {} <=> s = <<>>
  <1>1. /\ ToSet(s) \subseteq Nat /\ Len(s) \in Nat
        /\ \A m : m \in ToSet(s) <=> \E i \in 1..Len(s) : s[i] = m
        /\ \A i \in 1..Len(s) : s[i] \in ToSet(s) /\ s[i] \in Nat
    BY DEF ToSet
  <1>2. ASSUME s # <<>> PROVE ToSet(s) # {}
    <2>1. Len(s) # 0
      BY <1>2
    <2>2. 1 \in 1..Len(s)
      BY <1>1, <2>1
    <2> QED BY <1>1, <2>2
  <1>3. s = <<>> => ToSet(s) = {}
    BY DEF ToSet
  <1> QED BY <1>1, <1>2, <1>3

LEMMA Single ==
    ASSUME NEW m \in Nat
    PROVE  <<m>> \in Seq(Nat) /\ Once(<<m>>) /\ ToSet(<<m>>) = {m}
  <1> DEFINE s == <<m>>
  <1>1. s \in Seq(Nat) /\ Len(s) = 1 /\ s[1] = m
    OBVIOUS
  <1> HIDE DEF s
  <1>2. 1..Len(s) = {1}
    BY <1>1
  <1>3. Once(s)
    BY <1>2 DEF Once
  <1>4. \A n : n \in ToSet(s) <=> n = m
    BY <1>1, <1>2, Elements
  <1>5. ToSet(s) = {m}
    BY <1>4
  <1> QED BY <1>1, <1>3, <1>5 DEF s

LEMMA Appended ==
    ASSUME NEW s \in Seq(Nat), NEW m \in Nat
    PROVE  /\ Append(s, m) \in Seq(Nat) /\ ToSet(Append(s, m)) = ToSet(s) \cup {m}
           /\ Once(s) /\ m \notin ToSet(s) => Once(Append(s, m))
  <1> DEFINE t == Append(s, m)
  <1>1. /\ t \in Seq(Nat) /\ Len(t) = Len(s) + 1 /\ Len(s) \in Nat
        /\ \A i \in 1..Len(s) : t[i] = s[i]
        /\ t[Len(s) + 1] = m
    OBVIOUS
  <1> HIDE DEF t
  <1>2. \A i \in 1..Len(t) : i \in 1..Len(s) \/ i = Len(s) + 1
    BY <1>1
  <1>3. Len(s) + 1 \in 1..Len(t) /\ \A i \in 1..Len(s) : i \in 1..Len(t)
    BY <1>1
  <1>4. ToSet(t) = ToSet(s) \cup {m}
    <2>1. ASSUME NEW n PROVE n \in ToSet(t) <=> n \in ToSet(s) \/ n = m
      <3>1. n \in ToSet(t) <=> \E i \in 1..Len(t) : t[i] = n
        BY <1>1, Elements
      <3>2. n \in ToSet(s) <=> \E i \in 1..Len(s) : s[i] = n
        BY Elements
      <3> QED BY <1>1, <1>2, <1>3, <3>1, <3>2
    <2> QED BY <2>1
  <1>5. ASSUME Once(s), m \notin ToSet(s) PROVE Once(t)
    <2>1. \A i \in 1..Len(s) : s[i] # m
      BY <1>5, Elements
    <2> QED BY <1>1, <1>2, <1>5, <2>1 DEF Once
  <1> QED BY <1>1, <1>4, <1>5 DEF t

LEMMA Concatenated ==
    ASSUME NEW s \in Seq(Nat), NEW t \in Seq(Nat)
    PROVE  /\ s \o t \in Seq(Nat) /\ ToSet(s \o t) = ToSet(s) \cup ToSet(t)
           /\ Once(s) /\ Once(t) /\ ToSet(s) \cap ToSet(t) = {} => Once(s \o t)
           /\ Len(s \o t) = Len(s) + Len(t) /\ Len(s) \in Nat /\ Len(t) \in Nat
           /\ \A i \in 1..Len(s) : (s \o t)[i] = s[i]
           /\ \A i \in 1..Len(t) : (s \o t)[Len(s) + i] = t[i]
  <1> DEFINE u == s \o t
  <1>1. /\ u \in Seq(Nat) /\ Len(u) = Len(s) + Len(t) /\ Len(s) \in Nat /\ Len(t) \in Nat
        /\ \A i \in 1..Len(s) : u[i] = s[i]
        /\ \A i \in 1..Len(u) : i > Len(s) => u[i] = t[i - Len(s)]
    OBVIOUS
  <1>2. \A i \in 1..Len(t) : u[Len(s) + i] = t[i] /\ Len(s) + i \in 1..Len(u)
    <2> TAKE i \in 1..Len(t)
    <2> DEFINE k == Len(s) + i
    <2>1. k \in 1..Len(u) /\ k > Len(s) /\ k - Len(s) = i
      BY <1>1
    <2> QED BY <1>1, <2>1
  <1> HIDE DEF u
  <1>3. \A i \in 1..Len(u) : \/ i \in 1..Len(s) /\ u[i] = s[i]
                             \/ i - Len(s) \in 1..Len(t) /\ u[i] = t[i - Len(s)]
    BY <1>1
  <1>4. \A i \in 1..Len(s) : i \in 1..Len(u)
    BY <1>1
  <1>5. ToSet(u) = ToSet(s) \cup ToSet(t)
    <2>1. ASSUME NEW n PROVE n \in ToSet(u) <=> n \in ToSet(s) \/ n \in ToSet(t)
      <3>1. /\ n \in ToSet(u) <=> \E i \in 1..Len(u) : u[i] = n
            /\ n \in ToSet(s) <=> \E i \in 1..Len(s) : s[i] = n
            /\ n \in ToSet(t) <=> \E i \in 1..Len(t) : t[i] = n
        BY <1>1, Elements
      <3> QED BY <1>1, <1>2, <1>3, <1>4, <3>1
    <2> QED BY <2>1
  <1>6. ASSUME Once(s), Once(t), ToSet(s) \cap ToSet(t) = {} PROVE Once(u)
    <2> SUFFICES ASSUME NEW i \in 1..Len(u), NEW j \in 1..Len(u), u[i] = u[j] PROVE i = j
      BY DEF Once
    <2>1. \A k \in 1..Len(s) : \A l \in 1..Len(t) : s[k] # t[l]
      BY <1>6, Elements
    <2> DEFINE ii == i - Len(s)
               jj == j - Len(s)
    <2>2. /\ (i \in 1..Len(s) /\ u[i] = s[i]) \/ (ii \in 1..Len(t) /\ u[i] = t[ii])
          /\ (j \in 1..Len(s) /\ u[j] = s[j]) \/ (jj \in 1..Len(t) /\ u[j] = t[jj])
      BY <1>3
    <2> HIDE DEF ii, jj
    <2>3. \/ i \in 1..Len(s) /\ j \in 1..Len(s) /\ s[i] = s[j]
          \/ ii \in 1..Len(t) /\ jj \in 1..Len(t) /\ t[ii] = t[jj]
      BY <2>1, <2>2, Zenon
    <2>4. i = j \/ ii = jj
      BY <1>6, <2>3 DEF Once
    <2> QED BY <1>1, <2>4 DEF ii, jj
  <1> QED BY <1>1, <1>2, <1>5, <1>6 DEF u

-----------------------------------------------------------------------------
(***************************************************************************)
(* Merging.                                                                *)
(***************************************************************************)
LEMMA FreshSteps ==
    ASSUME NEW c, NEW x, Len(x) \in Nat
    PROVE  \E a : /\ a[0] = <<>> /\ Fresh(c, x) = a[Len(x)]
                  /\ \A n \in 1..Len(x) :
                        a[n] = IF x[n] \in ToSet(c) THEN a[n - 1] ELSE Append(a[n - 1], x[n])
  <1> DEFINE Kept(s, n) == IF x[n] \in ToSet(c) THEN s ELSE Append(s, x[n])
             Def(f, k) == f = [n \in 0..k |-> IF n = 0 THEN <<>> ELSE Kept(f[n - 1], n)]
             T == {k \in Nat : \E f : Def(f, k)}
  <1> DEFINE a == CHOOSE f : Def(f, Len(x))
  <1>1. Fresh(c, x) = a[Len(x)]
    BY DEF Fresh
  <1>2. \A n, s : Kept(s, n) = IF x[n] \in ToSet(c) THEN s ELSE Append(s, x[n])
    OBVIOUS
  <1> HIDE DEF Kept
  <1>3. 0 \in T
    <2>1. Def([n \in 0..0 |-> <<>>], 0)
      OBVIOUS
    <2> QED BY <2>1
  <1>4. ASSUME NEW k \in Nat, k \in T PROVE k + 1 \in T
    <2>1. PICK f : Def(f, k)
      BY <1>4
    <2> DEFINE h == [n \in 0..(k + 1) |-> IF n = k + 1 THEN Kept(f[k], k + 1) ELSE f[n]]
    <2>2. \A n \in 0..k : h[n] = f[n] /\ f[n] = (IF n = 0 THEN <<>> ELSE Kept(f[n - 1], n))
      BY <2>1
    <2>3. \A n \in 0..(k + 1) : h[n] = (IF n = 0 THEN <<>> ELSE Kept(h[n - 1], n))
      <3> SUFFICES ASSUME NEW n \in 0..(k + 1)
                   PROVE  h[n] = (IF n = 0 THEN <<>> ELSE Kept(h[n - 1], n))
        OBVIOUS
      <3>1. CASE n = k + 1
        BY <2>2, <3>1
      <3>2. CASE n # k + 1
        <4>1. n \in 0..k /\ (n # 0 => n - 1 \in 0..k)
          BY <3>2
        <4>2. h[n] = f[n] /\ (n # 0 => h[n - 1] = f[n - 1])
          BY <2>2, <4>1
        <4> QED BY <2>2, <4>1, <4>2
      <3> QED BY <3>1, <3>2
    <2>4. h = [n \in 0..(k + 1) |-> h[n]]
      OBVIOUS
    <2> HIDE DEF h
    <2>5. Def(h, k + 1)
      BY <2>3, <2>4
    <2> QED BY <2>5
  <1>5. Len(x) \in T
    <2> HIDE DEF T
    <2> QED BY <1>3, <1>4, Induction
  <1>6. Def(a, Len(x))
    BY <1>5
  <1> HIDE DEF a
  <1>7. a[0] = <<>> /\ \A n \in 1..Len(x) : a[n] = Kept(a[n - 1], n)
    BY <1>6
  <1> QED BY <1>1, <1>2, <1>7

\* s has what c has not of the first n elements of x.
Keeps(s, c, x, n) ==
    /\ s \in Seq(Nat) /\ Once(s)
    /\ \A m : m \in ToSet(s) <=> m \notin ToSet(c) /\ \E j \in 1..n : x[j] = m

LEMMA FreshKeeps ==
    ASSUME NEW c \in Seq(Nat), NEW x \in Seq(Nat), Once(x)
    PROVE  /\ Fresh(c, x) \in Seq(Nat) /\ Once(Fresh(c, x))
           /\ ToSet(Fresh(c, x)) = ToSet(x) \ ToSet(c)
  <1>1. Len(x) \in Nat /\ \A n \in 1..Len(x) : x[n] \in Nat
    OBVIOUS
  <1>2. PICK a : /\ a[0] = <<>> /\ Fresh(c, x) = a[Len(x)]
                 /\ \A n \in 1..Len(x) :
                       a[n] = IF x[n] \in ToSet(c) THEN a[n - 1] ELSE Append(a[n - 1], x[n])
    BY <1>1, FreshSteps
  <1> DEFINE T == {n \in Nat : n <= Len(x) => Keeps(a[n], c, x, n)}
  <1>3. 0 \in T
    <2>1. /\ <<>> \in Seq(Nat) /\ Len(<<>>) = 0
      OBVIOUS
    <2>2. Once(<<>>)
      BY <2>1 DEF Once
    <2>3. ToSet(<<>>) = {}
      BY DEF ToSet
    <2>4. \A m : ~\E j \in 1..0 : x[j] = m
      OBVIOUS
    <2>5. Keeps(<<>>, c, x, 0)
      BY <2>1, <2>2, <2>3, <2>4 DEF Keeps
    <2> QED BY <1>2, <2>5
  <1>4. ASSUME NEW n \in Nat, n \in T PROVE n + 1 \in T
    <2> SUFFICES ASSUME n + 1 <= Len(x) PROVE Keeps(a[n + 1], c, x, n + 1)
      OBVIOUS
    <2>1. /\ n + 1 \in 1..Len(x) /\ n \in 0..Len(x) /\ n <= Len(x)
          /\ \A j \in 1..(n + 1) : j \in 1..n \/ j = n + 1
          /\ \A j \in 1..n : j \in 1..(n + 1) /\ j \in 1..Len(x) /\ j # n + 1
          /\ n + 1 \in 1..(n + 1)
      BY <1>1
    <2>2. Keeps(a[n], c, x, n)
      BY <1>4, <2>1
    <2>3. a[n + 1] = IF x[n + 1] \in ToSet(c) THEN a[n] ELSE Append(a[n], x[n + 1])
      BY <1>2, <2>1
    <2>4. CASE x[n + 1] \in ToSet(c)
      BY <2>1, <2>2, <2>3, <2>4 DEF Keeps
    <2>5. CASE x[n + 1] \notin ToSet(c)
      <3>1. x[n + 1] \notin ToSet(a[n])
        BY <2>1, <2>2 DEF Keeps, Once
      <3>2. a[n] \in Seq(Nat) /\ Once(a[n]) /\ x[n + 1] \in Nat
        BY <1>1, <2>1, <2>2 DEF Keeps
      <3>3. /\ a[n + 1] \in Seq(Nat) /\ Once(a[n + 1])
            /\ ToSet(a[n + 1]) = ToSet(a[n]) \cup {x[n + 1]}
        BY <2>3, <2>5, <3>1, <3>2, Appended
      <3>4. \A m : m \in ToSet(a[n]) <=> m \notin ToSet(c) /\ \E j \in 1..n : x[j] = m
        BY <2>2 DEF Keeps
      <3>5. ASSUME NEW m
            PROVE  m \in ToSet(a[n + 1]) <=> m \notin ToSet(c) /\ \E j \in 1..(n + 1) : x[j] = m
        BY <2>1, <2>5, <3>3, <3>4
      <3> QED BY <3>3, <3>5 DEF Keeps
    <2> QED BY <2>4, <2>5
  <1>5. Len(x) \in T
    <2> HIDE DEF T
    <2> QED BY <1>1, <1>3, <1>4, Induction
  <1>6. Keeps(Fresh(c, x), c, x, Len(x))
    BY <1>1, <1>2, <1>5
  <1>7. \A m : m \in ToSet(x) <=> \E j \in 1..Len(x) : x[j] = m
    BY Elements
  <1> QED BY <1>6, <1>7 DEF Keeps

LEMMA NewerKeeps ==
    ASSUME NEW c \in Seq(Nat), NEW x \in Seq(Nat), Once(c), Once(x)
    PROVE  /\ Newer(c, x) \in Seq(Nat) /\ Once(Newer(c, x))
           /\ ToSet(Newer(c, x)) = ToSet(c) \cup ToSet(x)
           /\ Len(c) \in Nat /\ Len(c) <= Len(Newer(c, x))
           /\ \A i \in 1..Len(c) : Newer(c, x)[i] = c[i]
  BY FreshKeeps, Concatenated DEF Newer

LEMMA OlderKeeps ==
    ASSUME NEW c \in Seq(Nat), NEW x \in Seq(Nat), Once(c), Once(x)
    PROVE  /\ Older(c, x) \in Seq(Nat) /\ Once(Older(c, x))
           /\ ToSet(Older(c, x)) = ToSet(c) \cup ToSet(x)
           /\ \E k \in Nat : /\ Len(Older(c, x)) = k + Len(c) /\ Len(c) \in Nat
                             /\ \A i \in 1..k : Older(c, x)[i] \in ToSet(x)
                             /\ \A i \in 1..Len(c) : Older(c, x)[k + i] = c[i]
  <1> DEFINE f == Fresh(c, x)
  <1>1. f \in Seq(Nat) /\ Once(f) /\ ToSet(f) = ToSet(x) \ ToSet(c)
    BY FreshKeeps
  <1>2. Older(c, x) = f \o c
    BY DEF Older
  <1> HIDE DEF f
  <1>3. /\ f \o c \in Seq(Nat) /\ ToSet(f \o c) = ToSet(f) \cup ToSet(c) /\ Once(f \o c)
        /\ Len(f \o c) = Len(f) + Len(c) /\ Len(f) \in Nat /\ Len(c) \in Nat
        /\ \A i \in 1..Len(f) : (f \o c)[i] = f[i]
        /\ \A i \in 1..Len(c) : (f \o c)[Len(f) + i] = c[i]
    BY <1>1, Concatenated
  <1>4. \A i \in 1..Len(f) : f[i] \in ToSet(x)
    BY <1>1, Elements
  <1> QED BY <1>1, <1>2, <1>3, <1>4
-----------------------------------------------------------------------------
(***************************************************************************)
(* Pages.                                                                  *)
(***************************************************************************)

\* A page and what is before its cursor are everything up to its end.
LEMMA PageSpans ==
    ASSUME NEW top \in Nat
    PROVE  /\ Page(top) \in Seq(Nat) /\ Once(Page(top)) /\ Cursor(top) \in 0..top
           /\ \A m : m \in ToSet(Page(top)) <=> m \in 1..top /\ m >= Oldest(top)
           /\ \A m \in 1..top : m \in ToSet(Page(top)) \/ (Cursor(top) # 0 /\ m < Cursor(top))
           /\ Cursor(top) # 0 => ToSet(Page(top)) # {}
           /\ Oldest(top) \in Nat \ {0}
  <1> DEFINE o == Oldest(top)
             n == top + 1 - o
             p == Page(top)
  <1>1. /\ o \in Nat \ {0} /\ o <= top + 1 /\ n \in Nat
        /\ Cursor(top) = (IF top > PageSize THEN o ELSE 0)
        /\ top > PageSize => o <= top
        /\ ~(top > PageSize) => o = 1
    BY RoomAssumption DEF Oldest, Cursor
  <1>2. p = [i \in 1..n |-> o + i - 1]
    BY DEF Page
  <1> HIDE DEF o, n, p
  <1>3. p \in Seq(Nat) /\ Len(p) = n /\ \A i \in 1..n : p[i] = o + i - 1
    BY <1>1, <1>2
  <1>4. Once(p)
    BY <1>1, <1>3 DEF Once
  <1>5. ASSUME NEW m PROVE m \in ToSet(p) <=> m \in 1..top /\ m >= o
    <2>1. m \in ToSet(p) <=> \E i \in 1..n : o + i - 1 = m
      BY <1>3, Elements
    <2>2. ASSUME NEW i \in 1..n, o + i - 1 = m PROVE m \in 1..top /\ m >= o
      BY <1>1, <2>2 DEF n
    <2>3. ASSUME m \in 1..top, m >= o PROVE \E i \in 1..n : o + i - 1 = m
      <3>1. m - o + 1 \in 1..n /\ o + (m - o + 1) - 1 = m
        BY <1>1, <2>3 DEF n
      <3> QED BY <3>1
    <2> QED BY <2>1, <2>2, <2>3
  <1>6. Cursor(top) # 0 => top \in ToSet(p)
    BY <1>1, <1>5, RoomAssumption
  <1>7. \A m \in 1..top : m \in ToSet(p) \/ (Cursor(top) # 0 /\ m < Cursor(top))
    BY <1>1, <1>5
  <1> QED BY <1>1, <1>3, <1>4, <1>5, <1>6, <1>7 DEF o, p

-----------------------------------------------------------------------------
(***************************************************************************)
(* What the steps leave alone.                                             *)
(***************************************************************************)
LEMMA MessagesAre ==
    ASSUME NEW s
    PROVE  Messages(s) <=> s \in Seq(Nat) /\ ToSet(s) \subseteq 1..Len(stored)
  BY Elements DEF Messages

LEMMA Grown ==
    ASSUME Shape, stored' \in Seq(Nat), Len(stored) <= Len(stored')
    PROVE  /\ UNCHANGED socket => SocketOK'
           /\ UNCHANGED shown => ShownOK'
           /\ UNCHANGED <<shown, fetches>> \/ UNCHANGED <<shown, earlier>> => RenderedOK'
           /\ UNCHANGED <<epoch, fetches>> => FetchesOK'
  <1>1. Len(stored) \in Nat /\ Len(stored') \in Nat
    BY DEF Shape, StoredOK
  <1>2. \A m \in 1..Len(stored) : m \in 1..Len(stored')
    BY <1>1
  <1>3. UNCHANGED socket => SocketOK'
    BY <1>2 DEF Shape, SocketOK, Messages, socket
  <1>4. UNCHANGED shown => ShownOK'
    BY <1>1, <1>2 DEF Shape, ShownOK, Messages, Once, shown
  <1>5. UNCHANGED <<shown, fetches>> \/ UNCHANGED <<shown, earlier>> => RenderedOK'
    <2> SUFFICES ASSUME UNCHANGED <<shown, earlier>> PROVE RenderedOK'
      BY DEF fetches
    <2>1. UNCHANGED <<rendered, list, earlier>>
      BY DEF shown
    <2>2. rendered.before \in Nat
      BY DEF Shape, RenderedOK, Renders
    <2> QED BY <1>1, <1>2, <2>1, <2>2 DEF Shape, RenderedOK, Messages, Once, Idle
  <1>6. UNCHANGED <<epoch, fetches>> => FetchesOK'
    <2> SUFFICES ASSUME UNCHANGED <<epoch, fetches>> PROVE FetchesOK'
      OBVIOUS
    <2>1. /\ first.top \in Nat
          /\ fill # Idle => fill.top \in Nat
          /\ earlier # Idle => earlier.top \in Nat
      BY DEF Shape, FetchesOK, FirstPages, Fills, EarlierPages
    <2>2. UNCHANGED <<epoch, first, fill, again, earlier>>
      BY DEF fetches
    <2> QED BY <1>1, <1>2, <2>1, <2>2
            DEF Shape, FetchesOK, FirstPages, Fills, EarlierPages, Idle
  <1> QED BY <1>3, <1>4, <1>5, <1>6

LEMMA Kept ==
    ASSUME Shape, UNCHANGED stored
    PROVE  /\ StoredOK'
           /\ UNCHANGED socket => SocketOK'
           /\ UNCHANGED shown => ShownOK'
           /\ UNCHANGED <<shown, fetches>> \/ UNCHANGED <<shown, earlier>> => RenderedOK'
           /\ UNCHANGED <<epoch, fetches>> => FetchesOK'
           /\ UNCHANGED sends => SendsOK'
  <1>1. stored' \in Seq(Nat) /\ Len(stored') = Len(stored) /\ Len(stored) \in Nat
    BY DEF Shape, StoredOK
  <1>2. StoredOK' /\ (UNCHANGED sends => SendsOK')
    BY <1>1 DEF Shape, StoredOK, SendsOK, sends
  <1> QED BY <1>1, <1>2, Grown

\* Steps that set something else on the screen, which is not rendered yet.

LEMMA RenderedKept ==
    ASSUME Shape, UNCHANGED <<stored, rendered>>, earlier' = earlier \/ earlier' = Idle,
           list' = <<>> => list = <<>> \/ rendered.list = <<>>
    PROVE  RenderedOK'
  BY DEF Shape, RenderedOK, Messages, Once, Idle

\* Steps of the socket and the server: nothing but what is missing changes.

LEMMA WalkFrame ==
    ASSUME Walkable, UNCHANGED <<shown, first, fill, earlier>>,
           ~first.overtaken => \A m \in Gap' : Promised(m)'
    PROVE  Walkable'
  <1> SUFFICES ASSUME ~first.overtaken PROVE FirstAlone' /\ EarlierFits' /\ FillFits'
    BY DEF Walkable
  <1>1. UNCHANGED <<list, before, epoch, rendered, first, fill, earlier>>
    BY DEF shown
  <1>2. FirstAlone'
    BY <1>1 DEF Walkable, FirstAlone, Idle
  <1>3. EarlierFits'
    BY <1>1 DEF Walkable, EarlierFits, Current, Idle
  <1>4. FillFits'
    BY <1>1 DEF Walkable, FillFits, Idle
  <1> QED BY <1>2, <1>3, <1>4

LEMMA WalkSame ==
    ASSUME Walkable, UNCHANGED <<stored, socket, shown, fetches, excused>>
    PROVE  Walkable'
  <1>1. UNCHANGED <<stored, wire, conn, redial, list, before, epoch, first, fill, again,
                    earlier, excused>>
    BY DEF socket, shown, fetches
  <1>2. Gap' = Gap
    BY <1>1 DEF Gap, Missing
  <1>3. \A m : Promised(m)' <=> Promised(m)
    BY <1>1 DEF Promised, Redials, Filled, Idle
  <1>4. ~first.overtaken => \A m \in Gap' : Promised(m)'
    BY <1>2, <1>3 DEF Walkable
  <1> QED BY <1>1, <1>4, WalkFrame DEF shown
-----------------------------------------------------------------------------
(***************************************************************************)
(* The server and the socket.                                              *)
(***************************************************************************)
LEMMA StoreKeeps ==
    ASSUME RoomInv, NEW who \in Nat, Store(who),
           UNCHANGED <<conn, redial, shown, fetches, excused>>
    PROVE  StoredOK' /\ SocketOK' /\ ShownOK' /\ RenderedOK' /\ FetchesOK' /\ Walkable'
  <1> DEFINE n == Len(stored) + 1
  <1>1. /\ stored \in Seq(Nat) /\ wire \in Seq(Nat) /\ Len(stored) \in Nat /\ n \in Nat
        /\ first.top \in Nat /\ first.top <= Len(stored)
        /\ conn \in {"dialing", "subscribed", "open", "down", "over"} /\ redial \in BOOLEAN
    BY DEF RoomInv, Shape, StoredOK, SocketOK, Messages, FetchesOK, FirstPages
  <1>2. stored' \in Seq(Nat) /\ Len(stored') = n
    BY <1>1 DEF Store
  <1>3. \/ conn \in {"subscribed", "open"} /\ wire' = Append(wire, n)
        \/ conn \notin {"subscribed", "open"} /\ wire' = wire
    BY <1>2 DEF Store
  <1> HIDE DEF n
  <1>4. /\ wire' \in Seq(Nat) /\ ToSet(wire) \subseteq ToSet(wire')
        /\ ToSet(wire') \subseteq ToSet(wire) \cup {n}
        /\ conn \in {"subscribed", "open"} => n \in ToSet(wire')
    BY <1>1, <1>3, Appended
  <1>5. SocketOK'
    <2>1. ToSet(wire) \subseteq 1..Len(stored)
      BY <1>1, MessagesAre DEF RoomInv, Shape, SocketOK
    <2>2. ToSet(wire') \subseteq 1..Len(stored')
      BY <1>1, <1>2, <1>4, <2>1 DEF n
    <2>3. \A i \in 1..Len(wire') : wire'[i] \in 1..Len(stored')
      BY <1>4, <2>2, Elements
    <2> QED BY <1>1, <1>4, <2>3 DEF SocketOK, Messages
  <1>6. StoredOK' /\ ShownOK' /\ RenderedOK' /\ FetchesOK'
    <2>1. Len(stored) <= Len(stored')
      BY <1>1, <1>2 DEF n
    <2> QED BY <1>2, <2>1, Grown DEF RoomInv, StoredOK, shown
  <1>7. ASSUME ~first.overtaken, NEW m \in Gap' PROVE Promised(m)'
    <2>1. m \in 1..n /\ m \notin ToSet(list) /\ m \notin ToSet(wire') /\ ~(before # 0 /\ m < before)
      BY <1>2 DEF Gap, Missing, shown
    <2>2. UNCHANGED <<conn, redial, first, fill, again, excused>>
      BY DEF fetches
    <2>3. Promised(m)' <=> Promised(m)
      BY <2>2 DEF Promised, Redials, Filled, Idle
    <2>4. CASE m = n
      <3>1. conn \in {"dialing", "down", "over"}
        BY <1>1, <1>4, <2>1, <2>4
      <3>2. m > first.top
        BY <1>1, <2>4 DEF n
      <3> QED BY <1>1, <2>3, <3>1, <3>2 DEF Promised, Redials
    <2>5. CASE m # n
      <3>1. m \in 1..Len(stored)
        BY <1>1, <2>1, <2>5 DEF n
      <3>2. m \in Gap
        BY <1>4, <2>1, <3>1 DEF Gap, Missing
      <3> QED BY <1>7, <2>3, <3>2 DEF RoomInv, Walkable
    <2> QED BY <2>4, <2>5
  <1>8. Walkable'
    BY <1>7, WalkFrame DEF RoomInv, fetches
  <1> QED BY <1>5, <1>6, <1>8

\* A message of the reader's gets into the history under its own id only once.

LEMMA StoreOnce ==
    ASSUME RoomInv, NEW who \in 0..ids, who # 0 => who \notin ToSet(stored), Store(who),
           UNCHANGED <<ids, meant, pending, sending>>, posting' \subseteq posting
    PROVE  SendsOK'
  <1>1. stored \in Seq(Nat) /\ SendsOK
    BY DEF RoomInv, Shape, StoredOK
  <1>2. /\ ids \in Nat /\ ids = meant /\ posting \subseteq 1..ids /\ pending \in [Kinds -> 0..ids]
        /\ sending.kind \in Kinds \cup {"none"}
        /\ \A i \in 1..Len(stored) : stored[i] \in 0..ids
        /\ \A i, j \in 1..Len(stored) : stored[i] = stored[j] /\ stored[i] # 0 => i = j
    BY <1>1 DEF SendsOK
  <1>3. /\ Len(stored') = Len(stored) + 1 /\ Len(stored) \in Nat
        /\ \A i \in 1..Len(stored) : stored'[i] = stored[i]
        /\ stored'[Len(stored) + 1] = who
    BY <1>1, <1>2 DEF Store
  <1>4. \A i \in 1..Len(stored') : i \in 1..Len(stored) \/ i = Len(stored) + 1
    BY <1>3
  <1>5. \A i \in 1..Len(stored) : stored[i] = who => who = 0
    BY <1>1, Elements
  <1>6. \A i \in 1..Len(stored') : stored'[i] \in 0..ids
    BY <1>2, <1>3, <1>4
  <1>7. \A i, j \in 1..Len(stored') : stored'[i] = stored'[j] /\ stored'[i] # 0 => i = j
    BY <1>2, <1>3, <1>4, <1>5
  <1> QED BY <1>2, <1>6, <1>7 DEF SendsOK

LEMMA OthersSayInv ==
    ASSUME RoomInv, OthersSay
    PROVE  RoomInv'
  <1>1. Store(0) /\ UNCHANGED <<conn, redial, shown, fetches, excused, ids, meant, pending, sending,
                                posting>>
    BY DEF OthersSay, sends
  <1>2. 0 \in 0..ids
    BY DEF RoomInv, Shape, SendsOK
  <1>3. SendsOK'
    BY <1>1, <1>2, StoreOnce
  <1> QED BY <1>1, <1>3, StoreKeeps DEF RoomInv, Shape

LEMMA TakePostInv ==
    ASSUME RoomInv, NEW id \in posting, TakePost(id)
    PROVE  RoomInv'
  <1>1. UNCHANGED <<conn, redial, tries, shown, fetches, excused, ids, meant, pending, sending>>
        /\ posting' = posting \ {id}
    BY DEF TakePost
  <1>2. id \in 1..ids /\ id \in 0..ids /\ id \in Nat
    BY DEF RoomInv, Shape, SendsOK
  <1>3. CASE id \in ToSet(stored)
    <2>1. UNCHANGED <<stored, wire>>
      BY <1>3 DEF TakePost
    <2>2. SendsOK'
      BY <1>1, <2>1 DEF RoomInv, Shape, SendsOK
    <2>3. UNCHANGED <<socket, epoch>>
      BY <1>1, <2>1 DEF socket, shown
    <2>4. Shape'
      BY <1>1, <2>1, <2>2, <2>3, Kept DEF RoomInv, Shape
    <2> QED BY <1>1, <2>1, <2>3, <2>4, WalkSame DEF RoomInv
  <1>4. CASE id \notin ToSet(stored)
    <2>1. Store(id)
      BY <1>4 DEF TakePost
    <2>2. SendsOK'
      BY <1>1, <1>2, <1>4, <2>1, StoreOnce
    <2> QED BY <1>1, <1>2, <2>1, <2>2, StoreKeeps DEF RoomInv, Shape
  <1> QED BY <1>3, <1>4

LEMMA SubscribeInv ==
    ASSUME RoomInv, Subscribe
    PROVE  RoomInv'
  <1>1. /\ conn = "dialing" /\ conn' = "subscribed"
        /\ excused' = IF redial \/ first.state = "asked" THEN excused
                      ELSE excused \cup {m \in Gap : m > first.top}
        /\ UNCHANGED <<stored, wire, redial, shown, fetches, sends>>
    BY DEF Subscribe
  <1>2. UNCHANGED <<list, before, epoch, first, fill, again, earlier>>
    BY <1>1 DEF shown, fetches
  <1>3. Shape'
    <2>1. SocketOK'
      BY <1>1 DEF RoomInv, Shape, SocketOK, Messages
    <2> QED BY <1>1, <1>2, <2>1, Kept DEF RoomInv, Shape
  <1>4. Gap' = Gap
    BY <1>1, <1>2 DEF Gap, Missing
  <1>5. ASSUME ~first.overtaken, NEW m \in Gap' PROVE Promised(m)'
    <2>1. m \in Gap /\ Promised(m)
      BY <1>4, <1>5 DEF RoomInv, Walkable
    <2>2. redial \in BOOLEAN
      BY DEF RoomInv, Shape, SocketOK
    <2> QED BY <1>1, <1>2, <2>1, <2>2 DEF Promised, Redials, Filled, Idle
  <1>6. Walkable'
    BY <1>1, <1>2, <1>5, WalkFrame DEF RoomInv
  <1> QED BY <1>3, <1>6 DEF RoomInv

LEMMA ReceiveInv ==
    ASSUME RoomInv, Receive
    PROVE  RoomInv'
  <1>1. /\ wire # <<>> /\ list' = Newer(list, <<Head(wire)>>) /\ wire' = Tail(wire)
        /\ rendered' = [rendered EXCEPT !.list = Newer(@, <<Head(wire)>>)]
        /\ UNCHANGED <<stored, conn, redial, before, epoch, first, fill, again, earlier, fetches,
                       sends, excused>>
    BY DEF Receive, fetches
  <1> DEFINE h == Head(wire)
             one == <<h>>
  <1>2. /\ list \in Seq(Nat) /\ wire \in Seq(Nat) /\ Once(list)
        /\ ToSet(list) \subseteq 1..Len(stored) /\ ToSet(wire) \subseteq 1..Len(stored)
    BY MessagesAre DEF RoomInv, Shape, ShownOK, SocketOK
  <1>3. /\ wire' \in Seq(Nat) /\ h \in ToSet(wire) /\ h \in Nat
        /\ \A i \in 1..Len(wire') : wire'[i] = wire[i + 1] /\ i + 1 \in 1..Len(wire)
        /\ \A i \in 1..Len(wire) : wire[i] = h \/ (i - 1 \in 1..Len(wire') /\ wire[i] = wire'[i - 1])
    <2>1. /\ Len(wire) \in Nat \ {0} /\ Len(wire') = Len(wire) - 1 /\ h = wire[1]
          /\ wire' \in Seq(Nat) /\ \A i \in 1..Len(wire') : wire'[i] = wire[i + 1]
      BY <1>1, <1>2
    <2>2. 1 \in 1..Len(wire)
      BY <2>1
    <2>3. h \in ToSet(wire) /\ h \in Nat
      BY <1>2, <2>1, <2>2, Elements
    <2>4. ASSUME NEW i \in 1..Len(wire)
          PROVE  wire[i] = h \/ (i - 1 \in 1..Len(wire') /\ wire[i] = wire'[i - 1])
      <3>1. CASE i = 1
        BY <2>1, <3>1
      <3>2. CASE i # 1
        <4> DEFINE j == i - 1
        <4>1. j \in 1..Len(wire') /\ j + 1 = i
          BY <2>1, <3>2
        <4> QED BY <2>1, <4>1
      <3> QED BY <3>1, <3>2
    <2>5. \A i \in 1..Len(wire') : i + 1 \in 1..Len(wire)
      BY <2>1
    <2> QED BY <2>1, <2>3, <2>4, <2>5
  <1> HIDE DEF h
  <1>4. ToSet(wire) = ToSet(wire') \cup {h}
    <2>1. ASSUME NEW m PROVE m \in ToSet(wire) <=> m \in ToSet(wire') \/ m = h
      <3>1. /\ m \in ToSet(wire) <=> \E i \in 1..Len(wire) : wire[i] = m
            /\ m \in ToSet(wire') <=> \E i \in 1..Len(wire') : wire'[i] = m
        BY <1>2, <1>3, Elements
      <3> QED BY <1>3, <3>1
    <2> QED BY <2>1
  <1>5. one \in Seq(Nat) /\ Once(one) /\ ToSet(one) = {h}
    BY <1>3, Single
  <1> HIDE DEF one
  <1>6. /\ list' \in Seq(Nat) /\ Once(list') /\ ToSet(list') = ToSet(list) \cup {h}
        /\ Len(list) \in Nat /\ Len(list) <= Len(list') /\ Len(list') \in Nat
        /\ \A i \in 1..Len(list) : list'[i] = list[i]
    <2>1. list' = Newer(list, one)
      BY <1>1 DEF h, one
    <2> QED BY <1>2, <1>5, <2>1, NewerKeeps
  <1>7. rendered'.before = rendered.before /\ RenderedOK'
    <2> DEFINE l == Newer(rendered.list, one)
    <2>1. /\ rendered \in Renders /\ rendered.list \in Seq(Nat) /\ Once(rendered.list)
          /\ ToSet(rendered.list) \subseteq 1..Len(stored) /\ rendered.before <= Len(stored)
      BY MessagesAre DEF RoomInv, Shape, RenderedOK
    <2>2. rendered' = [rendered EXCEPT !.list = l]
      BY <1>1 DEF h, one
    <2>3. l \in Seq(Nat) /\ Once(l) /\ ToSet(l) = ToSet(rendered.list) \cup {h}
      BY <1>5, <2>1, NewerKeeps
    <2> HIDE DEF l
    <2>4. rendered' \in Renders /\ rendered'.list = l /\ rendered'.before = rendered.before
      BY <2>1, <2>2, <2>3 DEF Renders
    <2>5. Messages(l)
      BY <1>2, <1>3, <2>1, <2>3, MessagesAre
    <2>6. list' # <<>> /\ l # <<>>
      BY <1>6, <2>3, Elements
    <2> QED BY <1>1, <2>1, <2>3, <2>4, <2>5, <2>6 DEF RenderedOK, Messages
  <1>8. Shape'
    <2>1. SocketOK'
      <3>1. Messages(wire')
        BY <1>2, <1>3, <1>4, MessagesAre
      <3> QED BY <1>1, <3>1 DEF RoomInv, Shape, SocketOK, Messages
    <2>2. ShownOK'
      <3>1. Messages(list')
        BY <1>2, <1>3, <1>6, MessagesAre
      <3>2. list' # <<>>
        BY <1>6, Elements
      <3> QED BY <1>1, <1>6, <3>1, <3>2 DEF RoomInv, Shape, ShownOK, Messages, Once
    <2> QED BY <1>1, <1>7, <2>1, <2>2, Kept DEF RoomInv, Shape
  <1>9. Gap' = Gap
    <2>1. ToSet(list') \cup ToSet(wire') = ToSet(list) \cup ToSet(wire)
      BY <1>3, <1>4, <1>6
    <2> QED BY <1>1, <2>1 DEF Gap, Missing
  <1>10. Walkable'
    <2> SUFFICES ASSUME ~first.overtaken
                 PROVE  FirstAlone' /\ EarlierFits' /\ FillFits' /\ \A m \in Gap' : Promised(m)'
      BY <1>1 DEF Walkable
    <2>1. FirstAlone' /\ EarlierFits'
      BY <1>1, <1>7 DEF RoomInv, Walkable, FirstAlone, EarlierFits, Current, Idle
    <2>2. \A m \in Gap' : Promised(m)'
      BY <1>1, <1>9 DEF RoomInv, Walkable, Promised, Redials, Filled, Idle
    <2>3. FillFits'
      <3>1. \A p \in 1..Len(list) : p \in 1..Len(list') /\ list'[p] = list[p]
                                    /\ \A i \in 1..p : list'[i] = list[i]
        BY <1>6
      <3> QED BY <1>1, <1>7, <3>1 DEF RoomInv, Walkable, FillFits, Idle
    <2> QED BY <2>1, <2>2, <2>3
  <1> QED BY <1>8, <1>10 DEF RoomInv

\* What is rendered is what is shown.

LEMMA RenderInv ==
    ASSUME RoomInv, Render
    PROVE  RoomInv'
  <1>1. /\ rendered' = [list |-> list, before |-> before, loading |-> earlier # Idle]
        /\ UNCHANGED <<stored, wire, conn, redial, socket, list, before, epoch, first, fill, again,
                       earlier, fetches, sends, excused>>
    BY DEF Render, socket, fetches
  <1>2. /\ Messages(list) /\ list \in Seq(Nat) /\ Once(list) /\ before \in 0..Len(stored)
        /\ list = <<>> => before = 0 /\ earlier = Idle
        /\ Len(stored) \in Nat
    BY DEF RoomInv, Shape, StoredOK, ShownOK, RenderedOK, Messages
  <1>3. rendered' \in Renders /\ rendered'.list = list /\ rendered'.before = before
    BY <1>1, <1>2 DEF Renders
  <1>4. RenderedOK'
    BY <1>1, <1>2, <1>3 DEF RenderedOK, Messages, Once, Idle
  <1>5. ShownOK'
    BY <1>1 DEF RoomInv, Shape, ShownOK, Messages, Once
  <1>6. Shape'
    BY <1>1, <1>4, <1>5, Kept DEF RoomInv, Shape
  <1>7. ASSUME ~first.overtaken
        PROVE  FirstAlone' /\ EarlierFits' /\ FillFits' /\ \A m \in Gap' : Promised(m)'
    <2>1. FirstAlone /\ EarlierFits /\ FillFits /\ \A m \in Gap : Promised(m)
      BY <1>7 DEF RoomInv, Walkable
    <2>2. FirstAlone' /\ EarlierFits'
      BY <1>1, <1>3, <2>1 DEF FirstAlone, EarlierFits, Current, Idle
    <2>3. FillFits'
      BY <1>1, <1>3, <2>1 DEF FillFits, Idle
    <2>4. \A m \in Gap' : Promised(m)'
      BY <1>1, <2>1 DEF Gap, Missing, Promised, Redials, Filled, Idle
    <2> QED BY <2>2, <2>3, <2>4
  <1> QED BY <1>1, <1>6, <1>7 DEF RoomInv, Walkable

\* The snapshot of a list, before its page is served.
Taken(f, l) ==
    /\ f \in Fills /\ f # Idle /\ f.state = "asked" /\ f.had = ToSet(l) /\ f.top = 0
    /\ l # <<>> => \E p \in 1..Len(l) : l[p] = f.anchor

LEMMA SnapshotTaken ==
    ASSUME NEW held \in Seq(Nat), NEW messages
    PROVE  /\ Taken(Snapshot(held, messages), held)
           /\ Snapshot(held, messages).stale <=> held # messages
  <1> DEFINE a == IF held = <<>> THEN 0 ELSE Last(held)
             f == [state |-> "asked", had |-> ToSet(held), top |-> 0, stale |-> held # messages,
                   anchor |-> a]
  <1>1. Snapshot(held, messages) = f
    BY DEF Snapshot
  <1>2. ToSet(held) \in SUBSET Nat
    BY Elements
  <1>3. a \in Nat /\ (held # <<>> => \E p \in 1..Len(held) : held[p] = a)
    <2>1. CASE held = <<>>
      BY <2>1
    <2>2. CASE held # <<>>
      <3>1. Len(held) \in 1..Len(held) /\ held[Len(held)] \in Nat
        BY <2>2
      <3>2. a = held[Len(held)]
        BY <2>2 DEF Last
      <3> QED BY <2>2, <3>1, <3>2
    <2> QED BY <2>1, <2>2
  <1> HIDE DEF a
  <1>4. /\ f \in Fills /\ f.state = "asked" /\ f.had = ToSet(held) /\ f.top = 0 /\ f.anchor = a
        /\ f.stale <=> held # messages
    BY <1>2, <1>3 DEF Fills
  <1> HIDE DEF f
  <1>5. f # Idle
    BY <1>4 DEF Idle
  <1>6. Taken(f, held)
    BY <1>3, <1>4, <1>5 DEF Taken
  <1> QED BY <1>1, <1>4, <1>6

\* A backfill starts again, of the list as it is: what it is not promised to bring

\* is buried.
LEMMA Refilled ==
    ASSUME list' \in Seq(Nat), Taken(fill', list'), ~fill'.stale, ShownOK', RenderedOK'
    PROVE  /\ FillFits'
           /\ \A m \in Gap' : Filled(m)' \/ \E n \in ToSet(list') : n > m
  <1>1. ToSet(list') \subseteq Nat /\ (ToSet(list') = {} <=> list' = <<>>)
    BY Elements
  <1>2. FillFits'
    BY <1>1 DEF FillFits, Taken, ShownOK, RenderedOK
  <1>3. ASSUME NEW m \in Gap', ~\E n \in ToSet(list') : n > m PROVE Filled(m)'
    <2>1. m \in Nat /\ m \notin ToSet(list')
      BY DEF Gap, Missing
    <2>2. \A n \in ToSet(list') : n < m
      BY <1>1, <1>3, <2>1
    <2> QED BY <2>2 DEF Filled, Taken, Idle
  <1> QED BY <1>2, <1>3

\* It starts again of what is held, which may not be the list as it is: then any

\* loss is made known when it ends.
LEMMA Retaken ==
    ASSUME NEW held \in {list', rendered'.list}, fill' = Snapshot(held, list'),
           ShownOK', RenderedOK'
    PROVE  /\ FillFits'
           /\ \A m \in Gap' : Filled(m)' \/ \E n \in ToSet(list') : n > m
           /\ fill' \in Fills /\ fill'.top = 0 /\ fill'.state = "asked" /\ fill' # Idle
           /\ fill'.had \subseteq 1..Len(stored')
  <1>1. list' \in Seq(Nat) /\ held \in Seq(Nat) /\ ToSet(held) \subseteq 1..Len(stored')
    <2>1. Messages(list)' /\ Messages(rendered.list)'
      BY DEF ShownOK, RenderedOK
    <2>2. ASSUME NEW s \in Seq(Nat), \A i \in 1..Len(s) : s[i] \in 1..Len(stored')
          PROVE  ToSet(s) \subseteq 1..Len(stored')
      BY <2>2, Elements
    <2> QED BY <2>1, <2>2 DEF Messages
  <1>2. Taken(fill', held) /\ (fill'.stale <=> held # list')
    BY <1>1, SnapshotTaken
  <1>3. FillFits' /\ \A m \in Gap' : Filled(m)' \/ \E n \in ToSet(list') : n > m
    <2>1. CASE fill'.stale
      <3>1. FillFits'
        BY <2>1 DEF FillFits
      <3>2. \A m : Filled(m)'
        BY <1>2, <2>1 DEF Filled, Taken, Idle
      <3> QED BY <3>1, <3>2
    <2>2. CASE ~fill'.stale
      BY <1>1, <1>2, <2>2, Refilled
    <2> QED BY <2>1, <2>2
  <1>4. /\ fill' \in Fills /\ fill'.top = 0 /\ fill'.state = "asked" /\ fill' # Idle
        /\ fill'.had \subseteq 1..Len(stored')
    BY <1>1, <1>2 DEF Taken
  <1> QED BY <1>3, <1>4

LEMMA OvertakeIs ==
    ASSUME first \in FirstPages
    PROVE  /\ Overtake \in FirstPages /\ Overtake.state = first.state /\ Overtake.top = first.top
           /\ ~Overtake.overtaken => ~first.overtaken /\ first.state \notin {"asked", "served"}
  BY DEF FirstPages, Overtake

LEMMA OpenedInv ==
    ASSUME RoomInv, Opened
    PROVE  RoomInv'
  <1>1. /\ conn = "subscribed" /\ conn' = "open"
        /\ UNCHANGED <<stored, wire, redial, list, before, epoch, rendered, shown, earlier, sends>>
    BY DEF Opened, shown
  <1>2. Shape /\ ShownOK' /\ RenderedOK'
    BY <1>1, Kept DEF RoomInv, Shape
  <1>3. SocketOK'
    BY <1>1, <1>2 DEF Shape, SocketOK, Messages
  <1>4. Gap' = Gap
    BY <1>1 DEF Gap, Missing
  <1>5. list \in Seq(Nat) /\ (list = <<>> => before = 0) /\ first \in FirstPages
        /\ redial \in BOOLEAN
    BY <1>2 DEF Shape, ShownOK, FetchesOK, SocketOK, Messages
  <1>6. CASE ~redial
    <2>1. UNCHANGED <<first, fill, again, excused>>
      BY <1>6 DEF Opened
    <2>2. Shape'
      BY <1>1, <1>2, <1>3, <2>1, Kept DEF Shape, fetches
    <2>3. ~first.overtaken => \A m \in Gap' : Promised(m)'
      BY <1>1, <1>4, <1>6, <2>1 DEF RoomInv, Walkable, Promised, Redials, Filled, Idle
    <2> QED BY <1>1, <2>1, <2>2, <2>3, WalkFrame DEF RoomInv
  <1>7. CASE redial /\ fill = Idle
    <2>1. /\ fill' = Snapshot(rendered.list, list) /\ first' = Overtake /\ again' = again
          /\ excused' = excused \cup Buried(list, before)
      BY <1>7 DEF Opened
    <2>2. /\ FillFits' /\ \A m \in Gap' : Filled(m)' \/ \E n \in ToSet(list) : n > m
          /\ fill' \in Fills /\ fill'.top = 0 /\ fill'.state = "asked"
          /\ fill'.had \subseteq 1..Len(stored)
      BY <1>1, <1>2, <2>1, Retaken
    <2>3. /\ first' \in FirstPages /\ first'.state = first.state /\ first'.top = first.top
          /\ ~first'.overtaken => ~first.overtaken /\ first.state \notin {"asked", "served"}
      BY <1>5, <2>1, OvertakeIs
    <2>4. FetchesOK'
      <3>1. Len(stored) \in Nat
        BY <1>2 DEF Shape, StoredOK
      <3> QED BY <1>1, <1>2, <1>7, <2>1, <2>2, <2>3, <3>1 DEF Shape, FetchesOK, EarlierPages, Idle
    <2>5. Shape'
      BY <1>1, <1>2, <1>3, <2>4, Kept DEF Shape
    <2>6. ASSUME ~first'.overtaken
          PROVE  FirstAlone' /\ EarlierFits' /\ FillFits' /\ \A m \in Gap' : Promised(m)'
      <3>1. FirstAlone' /\ EarlierFits'
        BY <1>1, <2>3, <2>6 DEF RoomInv, Walkable, FirstAlone, EarlierFits, Current, Idle
      <3>2. \A m \in Gap' : Promised(m)'
        BY <1>4, <2>1, <2>2 DEF Promised, Buried, Gap
      <3> QED BY <2>2, <3>1, <3>2
    <2> QED BY <2>5, <2>6 DEF RoomInv, Walkable
  <1>8. CASE redial /\ fill # Idle
    <2>1. again' = TRUE /\ UNCHANGED <<first, fill, excused>>
      BY <1>8 DEF Opened
    <2>2. FetchesOK'
      BY <1>1, <1>2, <1>8, <2>1 DEF Shape, FetchesOK, FirstPages, Fills, EarlierPages, Idle
    <2>3. Shape'
      BY <1>1, <1>2, <1>3, <2>2, Kept DEF Shape
    <2>4. \A m \in Gap' : Promised(m)'
      BY <2>1 DEF Promised
    <2> QED BY <1>1, <2>1, <2>3, <2>4, WalkFrame DEF RoomInv
  <1> QED BY <1>5, <1>6, <1>7, <1>8

LEMMA ClosedInv ==
    ASSUME RoomInv, Closed
    PROVE  RoomInv'
  <1>1. /\ conn' \in {"down", "over"} /\ wire' = <<>>
        /\ UNCHANGED <<stored, redial, shown, first, fill, earlier, epoch, fetches, sends>>
    BY DEF Closed, fetches, shown
  <1>2. SocketOK'
    <2>1. Len(wire') = 0 /\ wire' \in Seq(Nat)
      BY <1>1
    <2> QED BY <1>1, <2>1 DEF RoomInv, Shape, SocketOK, Messages
  <1>3. Shape'
    BY <1>1, <1>2, Kept DEF RoomInv, Shape
  <1>4. \A m \in Gap' : Promised(m)'
    BY <1>1 DEF Promised, Redials
  <1> QED BY <1>1, <1>3, <1>4, WalkFrame DEF RoomInv

LEMMA RedialInv ==
    ASSUME RoomInv, Redial
    PROVE  RoomInv'
  <1>1. /\ conn' = "dialing" /\ redial' = TRUE
        /\ UNCHANGED <<stored, wire, shown, first, fill, earlier, epoch, fetches, sends>>
    BY DEF Redial, fetches, shown
  <1>2. SocketOK'
    BY <1>1 DEF RoomInv, Shape, SocketOK, Messages
  <1>3. Shape'
    BY <1>1, <1>2, Kept DEF RoomInv, Shape
  <1>4. \A m \in Gap' : Promised(m)'
    BY <1>1 DEF Promised, Redials
  <1> QED BY <1>1, <1>3, <1>4, WalkFrame DEF RoomInv

-----------------------------------------------------------------------------
(***************************************************************************)
(* The first page.                                                         *)
(***************************************************************************)
LEMMA ServeFirstInv ==
    ASSUME RoomInv, ServeFirst
    PROVE  RoomInv'
  <1>1. /\ first.state = "asked" /\ first' = [first EXCEPT !.state = "served", !.top = Len(stored)]
        /\ UNCHANGED <<stored, wire, conn, redial, socket, list, before, epoch, rendered, shown, fill,
                       again, earlier, sends, excused>>
    BY DEF ServeFirst, socket, shown
  <1>2. first \in FirstPages /\ Len(stored) \in Nat
    BY DEF RoomInv, Shape, FetchesOK, StoredOK
  <1>3. /\ first' \in FirstPages /\ first'.state = "served" /\ first'.top = Len(stored)
        /\ first'.overtaken = first.overtaken
    <2> DEFINE a == [first EXCEPT !.state = "served"]
               b == [a EXCEPT !.top = Len(stored)]
    <2>1. first' = b
      BY <1>1
    <2>2. a \in FirstPages /\ a.state = "served" /\ a.overtaken = first.overtaken
      BY <1>2 DEF FirstPages
    <2> HIDE DEF a
    <2>3. /\ b \in FirstPages /\ b.state = a.state /\ b.top = Len(stored)
          /\ b.overtaken = a.overtaken
      BY <1>2, <2>2 DEF FirstPages
    <2> HIDE DEF b
    <2> QED BY <2>1, <2>2, <2>3
  <1>4. FetchesOK'
    BY <1>1, <1>2, <1>3 DEF RoomInv, Shape, FetchesOK, Fills, EarlierPages, Idle
  <1>5. Shape'
    BY <1>1, <1>4, Kept DEF RoomInv, Shape
  <1>6. ASSUME ~first'.overtaken
        PROVE  FirstAlone' /\ EarlierFits' /\ FillFits' /\ \A m \in Gap' : Promised(m)'
    <2>1. FirstAlone /\ before = 0 /\ rendered.before = 0 /\ fill = Idle /\ earlier = Idle
      BY <1>1, <1>3, <1>6 DEF RoomInv, Walkable, FirstAlone
    <2>2. FirstAlone' /\ EarlierFits' /\ FillFits'
      BY <1>1, <2>1 DEF FirstAlone, EarlierFits, FillFits, Idle
    <2>3. \A m \in Gap' : m \in 1..Len(stored)
      BY <1>1 DEF Gap, Missing
    <2>4. \A m \in Gap' : Promised(m)'
      BY <1>2, <1>3, <2>3 DEF Promised
    <2> QED BY <2>2, <2>4
  <1> QED BY <1>5, <1>6 DEF RoomInv, Walkable

LEMMA FirstArrivesInv ==
    ASSUME RoomInv, FirstArrives
    PROVE  RoomInv'
  <1> DEFINE page == Page(first.top)
             held == rendered.list
  <1>1. /\ first.state = "served" /\ first' = [first EXCEPT !.state = "done"]
        /\ list' = Older(held, page) /\ before' = Cursor(first.top)
        /\ excused' = excused \cup (ToSet(list) \ ToSet(list'))
        /\ UNCHANGED <<stored, wire, conn, redial, socket, epoch, rendered, fill, again, earlier, sends>>
    BY DEF FirstArrives, socket
  <1>2. /\ first \in FirstPages /\ Len(stored) \in Nat
        /\ first.top \in Nat /\ first.top <= Len(stored) /\ epoch \in Nat
        /\ held \in Seq(Nat) /\ Once(held) /\ ToSet(held) \subseteq 1..Len(stored)
    BY MessagesAre DEF RoomInv, Shape, FetchesOK, StoredOK, ShownOK, RenderedOK, FirstPages
  <1>3. /\ first' \in FirstPages /\ first'.state = "done" /\ first'.top = first.top
        /\ first'.overtaken = first.overtaken
    BY <1>1, <1>2 DEF FirstPages
  <1>4. /\ page \in Seq(Nat) /\ Once(page) /\ Cursor(first.top) \in 0..first.top
        /\ ToSet(page) \subseteq 1..first.top
        /\ \A m \in 1..first.top : m \in ToSet(page) \/ (before' # 0 /\ m < before')
        /\ before' # 0 => ToSet(page) # {}
    BY <1>1, <1>2, PageSpans
  <1> HIDE DEF page
  <1>5. list' \in Seq(Nat) /\ Once(list') /\ ToSet(list') = ToSet(held) \cup ToSet(page)
    BY <1>1, <1>2, <1>4, OlderKeeps
  <1>6. ShownOK'
    <2>1. Messages(list')
      BY <1>2, <1>4, <1>5, MessagesAre
    <2>2. list' = <<>> => before' = 0
      BY <1>4, <1>5, Elements
    <2> QED BY <1>1, <1>2, <1>4, <1>5, <2>1, <2>2 DEF RoomInv, Shape, ShownOK, Messages, Once
  <1>7. RenderedOK'
    <2>1. list' = <<>> => held = <<>>
      BY <1>2, <1>5, Elements
    <2> QED BY <1>1, <2>1, RenderedKept DEF RoomInv
  <1>8. FetchesOK'
    BY <1>1, <1>2, <1>3 DEF RoomInv, Shape, FetchesOK, Fills, EarlierPages, Idle
  <1>9. Shape'
    BY <1>1, <1>6, <1>7, <1>8, Kept DEF RoomInv, Shape
  <1>10. ASSUME ~first'.overtaken
        PROVE  FirstAlone' /\ EarlierFits' /\ FillFits' /\ \A m \in Gap' : Promised(m)'
    <2>1. /\ before = 0 /\ rendered.before = 0 /\ fill = Idle /\ earlier = Idle
          /\ \A m \in Gap : Promised(m)
      BY <1>1, <1>3, <1>10 DEF RoomInv, Walkable, FirstAlone
    <2>2. FirstAlone' /\ EarlierFits' /\ FillFits'
      BY <1>1, <1>3, <2>1 DEF FirstAlone, EarlierFits, FillFits, Idle
    <2>3. ASSUME NEW m \in Gap' PROVE Promised(m)'
      <3>1. /\ m \in 1..Len(stored) /\ m \notin ToSet(list') /\ m \notin ToSet(wire)
            /\ ~(before' # 0 /\ m < before')
        BY <1>1 DEF Gap, Missing
      <3>2. CASE m \in ToSet(list)
        BY <1>1, <3>1, <3>2 DEF Promised
      <3>3. CASE m \notin ToSet(list)
        <4>1. m \in Gap /\ Promised(m)
          BY <2>1, <3>1, <3>3 DEF Gap, Missing
        <4>2. ~(m <= first.top)
          BY <1>2, <1>4, <1>5, <3>1
        <4> QED BY <1>1, <1>3, <2>1, <4>1, <4>2 DEF Promised, Redials, Filled, Idle
      <3> QED BY <3>2, <3>3
    <2> QED BY <2>2, <2>3
  <1> QED BY <1>9, <1>10 DEF RoomInv, Walkable

LEMMA FirstFailsInv ==
    ASSUME RoomInv, FirstFails
    PROVE  RoomInv'
  <1>1. /\ first' = [first EXCEPT !.state = "failed", !.top = 0]
        /\ first.state \in {"asked", "served"} /\ excused' = excused \cup Gap
        /\ UNCHANGED <<stored, wire, conn, redial, socket, list, before, epoch, rendered, shown, fill,
                       again, earlier, sends>>
    BY DEF FirstFails, socket, shown
  <1>2. first \in FirstPages /\ Len(stored) \in Nat
    BY DEF RoomInv, Shape, FetchesOK, StoredOK
  <1>3. /\ first' \in FirstPages /\ first'.state = "failed" /\ first'.top = 0
        /\ first'.overtaken = first.overtaken
    <2> DEFINE a == [first EXCEPT !.state = "failed"]
               b == [a EXCEPT !.top = 0]
    <2>1. first' = b
      BY <1>1
    <2>2. a \in FirstPages /\ a.state = "failed" /\ a.overtaken = first.overtaken
      BY <1>2 DEF FirstPages
    <2> HIDE DEF a
    <2>3. b \in FirstPages /\ b.state = a.state /\ b.top = 0 /\ b.overtaken = a.overtaken
      BY <2>2 DEF FirstPages
    <2> HIDE DEF b
    <2> QED BY <2>1, <2>2, <2>3
  <1>4. FetchesOK'
    BY <1>1, <1>2, <1>3 DEF RoomInv, Shape, FetchesOK, Fills, EarlierPages, Idle
  <1>5. Shape'
    BY <1>1, <1>4, Kept DEF RoomInv, Shape
  <1>6. Gap' = Gap
    BY <1>1 DEF Gap, Missing
  <1>7. ASSUME ~first'.overtaken
        PROVE  FirstAlone' /\ EarlierFits' /\ FillFits' /\ \A m \in Gap' : Promised(m)'
    <2>1. before = 0 /\ fill = Idle /\ earlier = Idle
      BY <1>1, <1>3, <1>7 DEF RoomInv, Walkable, FirstAlone
    <2>2. FirstAlone' /\ EarlierFits' /\ FillFits'
      BY <1>1, <1>3, <2>1 DEF FirstAlone, EarlierFits, FillFits, Idle
    <2> QED BY <1>1, <1>6, <2>2 DEF Promised
  <1> QED BY <1>5, <1>7 DEF RoomInv, Walkable
-----------------------------------------------------------------------------
(***************************************************************************)
(* The page after a reconnect.                                             *)
(***************************************************************************)
LEMMA ServeFillInv ==
    ASSUME RoomInv, ServeFill
    PROVE  RoomInv'
  <1>1. /\ fill # Idle /\ fill.state = "asked"
        /\ fill' = [fill EXCEPT !.state = "served", !.top = Len(stored)]
        /\ UNCHANGED <<stored, wire, conn, redial, socket, list, before, epoch, rendered, shown, first,
                       again, earlier, sends, excused>>
    BY DEF ServeFill, socket, shown
  <1>2. fill \in Fills /\ Len(stored) \in Nat /\ fill.had \subseteq 1..Len(stored)
        /\ (fill.had # {} => Len(stored) # 0)
    BY <1>1 DEF RoomInv, Shape, FetchesOK, StoredOK
  <1>3. /\ fill' \in Fills /\ fill'.state = "served" /\ fill'.top = Len(stored)
        /\ fill'.had = fill.had /\ fill'.stale = fill.stale /\ fill'.anchor = fill.anchor
        /\ fill' # Idle
    <2> DEFINE a == [fill EXCEPT !.state = "served"]
               b == [a EXCEPT !.top = Len(stored)]
    <2>1. fill' = b
      BY <1>1
    <2>2. /\ a \in Fills /\ a.state = "served" /\ a.had = fill.had /\ a.stale = fill.stale
          /\ a.anchor = fill.anchor
      BY <1>2 DEF Fills
    <2> HIDE DEF a
    <2>3. /\ b \in Fills /\ b.state = a.state /\ b.top = Len(stored) /\ b.had = a.had
          /\ b.stale = a.stale /\ b.anchor = a.anchor
      BY <1>2, <2>2 DEF Fills
    <2> HIDE DEF b
    <2> QED BY <2>1, <2>2, <2>3 DEF Idle
  <1>4. FetchesOK'
    BY <1>1, <1>2, <1>3 DEF RoomInv, Shape, FetchesOK, FirstPages, EarlierPages, Idle
  <1>5. Shape'
    BY <1>1, <1>4, Kept DEF RoomInv, Shape
  <1>6. Gap' = Gap
    BY <1>1 DEF Gap, Missing
  <1>7. ASSUME ~first.overtaken
        PROVE  FirstAlone' /\ EarlierFits' /\ FillFits' /\ \A m \in Gap' : Promised(m)'
    <2>1. FirstAlone /\ EarlierFits /\ FillFits /\ \A m \in Gap : Promised(m)
      BY <1>7 DEF RoomInv, Walkable
    <2>2. FirstAlone' /\ EarlierFits'
      BY <1>1, <2>1 DEF FirstAlone, EarlierFits, Current, Idle
    <2>3. FillFits'
      <3>1. \A i \in 1..Len(list) : list[i] <= Len(stored)
        BY <1>2 DEF RoomInv, Shape, ShownOK, Messages
      <3>2. /\ before <= Len(stored) /\ rendered.before <= Len(stored)
            /\ earlier # Idle => earlier.top <= Len(stored)
        BY <1>2 DEF RoomInv, Shape, ShownOK, RenderedOK, FetchesOK
      <3>3. Len(list) \in Nat
        BY DEF RoomInv, Shape, ShownOK, Messages
      <3>4. \A p \in 1..Len(list) : \A i \in 1..p : list[i] <= Len(stored)
        BY <3>1, <3>3
      <3> QED BY <1>1, <1>3, <2>1, <3>2, <3>4 DEF FillFits, Idle
    <2>4. ASSUME NEW m \in Gap PROVE Promised(m)'
      <3>1. m <= Len(stored) /\ m \in Nat
        BY <1>2 DEF Gap, Missing
      <3> QED BY <1>1, <1>3, <2>1, <3>1 DEF Promised, Redials, Filled, Idle
    <2> QED BY <1>6, <2>2, <2>3, <2>4
  <1> QED BY <1>1, <1>5, <1>7 DEF RoomInv, Walkable

LEMMA FillFailsInv ==
    ASSUME RoomInv, FillFails
    PROVE  RoomInv'
  <1>1. /\ fill # Idle /\ UNCHANGED <<stored, wire, socket, list, before, epoch, rendered, shown, earlier,
                                   sends>>
    BY DEF FillFails, socket, shown
  <1>2. /\ list \in Seq(Nat) /\ (list = <<>> => before = 0) /\ first \in FirstPages
        /\ Len(stored) \in Nat /\ again \in BOOLEAN
    BY DEF RoomInv, Shape, StoredOK, ShownOK, FetchesOK, Messages
  <1>3. Gap' = Gap
    BY <1>1 DEF Gap, Missing
  <1>4. CASE again
    <2>1. /\ fill' = Snapshot(rendered.list, list) /\ first' = Overtake /\ again' = FALSE
          /\ excused' = excused \cup Buried(list, before)
      BY <1>4 DEF FillFails
    <2>2. /\ FillFits' /\ \A m \in Gap' : Filled(m)' \/ \E n \in ToSet(list) : n > m
          /\ fill' \in Fills /\ fill'.top = 0 /\ fill'.state = "asked"
          /\ fill'.had \subseteq 1..Len(stored)
      <3>1. ShownOK' /\ RenderedOK'
        BY <1>1, Kept DEF RoomInv, Shape
      <3> QED BY <1>1, <2>1, <3>1, Retaken
    <2>3. /\ first' \in FirstPages /\ first'.state = first.state /\ first'.top = first.top
          /\ ~first'.overtaken => ~first.overtaken /\ first.state \notin {"asked", "served"}
      BY <1>2, <2>1, OvertakeIs
    <2>4. FetchesOK'
      <3>1. FetchesOK
        BY DEF RoomInv, Shape
      <3>2. first'.top <= Len(stored')
        BY <1>1, <2>3, <3>1 DEF FetchesOK
      <3>3. fill'.top <= Len(stored') /\ fill'.had \subseteq 1..Len(stored')
            /\ fill'.state # "served"
        BY <1>1, <1>2, <2>2
      <3> QED BY <1>1, <1>2, <2>1, <2>2, <2>3, <3>1, <3>2, <3>3 DEF FetchesOK, Idle
    <2>5. Shape'
      BY <1>1, <2>4, Kept DEF RoomInv, Shape
    <2>6. ASSUME ~first'.overtaken
          PROVE  FirstAlone' /\ EarlierFits' /\ FillFits' /\ \A m \in Gap' : Promised(m)'
      <3>1. FirstAlone' /\ EarlierFits'
        BY <1>1, <2>3, <2>6 DEF RoomInv, Walkable, FirstAlone, EarlierFits, Current, Idle
      <3>2. \A m \in Gap' : Promised(m)'
        BY <1>3, <2>1, <2>2 DEF Promised, Buried, Gap
      <3> QED BY <2>2, <3>1, <3>2
    <2> QED BY <2>5, <2>6 DEF RoomInv, Walkable
  <1>5. CASE ~again
    <2>1. fill' = Idle /\ excused' = excused \cup Gap /\ UNCHANGED <<first, again>>
      BY <1>5 DEF FillFails
    <2>2. FetchesOK'
      BY <1>1, <1>5, <2>1 DEF RoomInv, Shape, FetchesOK, FirstPages, EarlierPages, Idle
    <2>3. Shape'
      BY <1>1, <2>2, Kept DEF RoomInv, Shape
    <2>4. ASSUME ~first'.overtaken
          PROVE  FirstAlone' /\ EarlierFits' /\ FillFits' /\ \A m \in Gap' : Promised(m)'
      <3>1. FirstAlone' /\ EarlierFits'
        BY <1>1, <2>1, <2>4 DEF RoomInv, Walkable, FirstAlone, EarlierFits, Current, Idle
      <3> QED BY <1>3, <2>1, <3>1 DEF FillFits, Idle, Promised
    <2> QED BY <2>3, <2>4 DEF RoomInv, Walkable
  <1> QED BY <1>2, <1>4, <1>5

\* The messages that are missing once a page is there were missing before, and
\* the page was not to bring them.
Brought == \A m \in Gap' : m \in Gap /\ ~Filled(m)

LEMMA FillBridges ==
    ASSUME RoomInv, fill # Idle, fill.state = "served", Overlaps, Bridge,
           UNCHANGED <<stored, wire, rendered, earlier>>
    PROVE  ShownOK' /\ RenderedOK' /\ (~first.overtaken /\ ~fill.stale => Brought)
  <1> DEFINE top == fill.top
             page == Page(top)
  <1>1. /\ fill \in Fills /\ Len(stored) \in Nat /\ top <= Len(stored) /\ top \in Nat
        /\ list \in Seq(Nat) /\ Once(list) /\ ToSet(list) \subseteq 1..Len(stored)
        /\ before \in 0..Len(stored) /\ epoch \in Nat /\ fill.had \subseteq Nat
    BY MessagesAre DEF RoomInv, Shape, FetchesOK, StoredOK, ShownOK, Fills
  <1>2. /\ page \in Seq(Nat) /\ Once(page) /\ Cursor(top) \in 0..top
        /\ \A m : m \in ToSet(page) <=> m \in 1..top /\ m >= Oldest(top)
        /\ \A m \in 1..top : m \in ToSet(page) \/ (Cursor(top) # 0 /\ m < Cursor(top))
        /\ Cursor(top) # 0 => ToSet(page) # {}
        /\ Oldest(top) \in Nat
    BY <1>1, PageSpans
  <1>3. /\ list' = Newer(list, page) /\ UNCHANGED <<epoch, stored, wire>>
        /\ before' = IF before = 0 THEN Cursor(top) ELSE before
    BY DEF Bridge
  <1>4. Overlaps <=> fill.had = {} \/ fill.had \cap ToSet(page) # {}
    BY DEF Overlaps
  <1> HIDE DEF page, top
  <1>5. list' \in Seq(Nat) /\ Once(list') /\ ToSet(list') = ToSet(list) \cup ToSet(page)
    BY <1>1, <1>2, <1>3, NewerKeeps
  <1>6. list' = <<>> => list = <<>> /\ ToSet(page) = {}
    BY <1>1, <1>5, Elements
  <1>7. RenderedOK'
    BY <1>6, RenderedKept DEF RoomInv
  <1>8. ShownOK'
    <2>1. Messages(list')
      <3>1. ToSet(list') \subseteq 1..Len(stored)
        BY <1>1, <1>2, <1>5
      <3> QED BY <1>5, <3>1, MessagesAre
    <2>2. list' = <<>> => before' = 0
      BY <1>2, <1>3, <1>6 DEF RoomInv, Shape, ShownOK
    <2>3. before' \in 0..Len(stored)
      BY <1>1, <1>2, <1>3
    <2> QED BY <1>1, <1>3, <1>5, <2>1, <2>2, <2>3 DEF ShownOK, Messages, Once
  <1>9. ASSUME ~first.overtaken, ~fill.stale, NEW m \in Gap' PROVE m \in Gap /\ ~Filled(m)
    <2>1. /\ m \in 1..Len(stored) /\ m \notin ToSet(list') /\ m \notin ToSet(wire)
          /\ ~(before' # 0 /\ m < before')
      BY <1>3 DEF Gap, Missing
    <2>2. m \in Gap
      BY <1>3, <1>5, <2>1 DEF Gap, Missing
    <2>3. ASSUME Filled(m) PROVE FALSE
      <3>1. /\ \A n \in fill.had : n < m
            /\ m <= top
        BY <1>9, <2>3 DEF Filled, top
      <3>2. m \in 1..top /\ m \notin ToSet(page)
        BY <1>1, <1>5, <2>1, <3>1
      <3>3. CASE fill.had = {}
        <4>1. before = 0
          BY <1>9, <3>3 DEF RoomInv, Walkable, FillFits
        <4> QED BY <1>2, <1>3, <2>1, <3>2, <4>1
      <3>4. CASE fill.had \cap ToSet(page) # {}
        <4>1. PICK n \in fill.had : n \in ToSet(page)
          BY <3>4
        <4>2. n \in Nat /\ n >= Oldest(top) /\ n < m
          BY <1>1, <1>2, <3>1, <4>1
        <4>3. m >= Oldest(top)
          BY <1>2, <3>2, <4>2
        <4> QED BY <1>2, <3>2, <4>3
      <3> QED BY <1>4, <3>3, <3>4
    <2> QED BY <2>2, <2>3
  <1> QED BY <1>7, <1>8, <1>9 DEF Brought

\* What came after the anchor is kept, once.

LEMMA Arrived ==
    ASSUME list \in Seq(Nat), Once(list)
    PROVE  /\ ArrivedSince \in Seq(Nat) /\ Once(ArrivedSince)
           /\ ToSet(ArrivedSince) \subseteq ToSet(list)
           /\ \A p \in 1..Len(list) : list[p] = fill.anchor =>
                 \A i \in 1..Len(list) : i > p => list[i] \in ToSet(ArrivedSince)
  <1> DEFINE place == {i \in 1..Len(list) : list[i] = fill.anchor}
             p == CHOOSE i \in place : TRUE
             s == SubSeq(list, p + 1, Len(list))
  <1>1. ArrivedSince = IF place = {} THEN <<>> ELSE s
    BY DEF ArrivedSince
  <1>2. CASE place = {}
    <2>1. ArrivedSince = <<>> /\ Len(<<>>) = 0 /\ <<>> \in Seq(Nat)
      BY <1>1, <1>2
    <2>2. Once(ArrivedSince)
      BY <2>1 DEF Once
    <2>3. ToSet(<<>>) = {}
      BY DEF ToSet
    <2> QED BY <1>2, <2>1, <2>2, <2>3
  <1>3. CASE place # {}
    <2>1. p \in place
      BY <1>3
    <2>2. p \in 1..Len(list) /\ list[p] = fill.anchor /\ Len(list) \in Nat
      BY <2>1
    <2>3. \A q \in 1..Len(list) : list[q] = fill.anchor => q = p
      BY <2>2 DEF Once
    <2>4. ArrivedSince = s
      BY <1>1, <1>3
    <2> HIDE DEF p, place
    <2>5. /\ s \in Seq(Nat) /\ Len(s) = Len(list) - p
          /\ \A i \in 1..Len(s) : s[i] = list[p + i]
      <3>1. p + 1 \in Nat /\ p + 1 >= 1 /\ p + 1 <= Len(list) + 1
        BY <2>2
      <3> DEFINE q == p + 1
      <3>2. q \in 1..(Len(list) + 1) /\ Len(list) \in 0..Len(list)
        BY <2>2
      <3>3. /\ SubSeq(list, q, Len(list)) \in Seq(Nat)
            /\ Len(SubSeq(list, q, Len(list))) = IF q <= Len(list) THEN Len(list) - q + 1 ELSE 0
            /\ \A i \in 1..(Len(list) - q + 1) : SubSeq(list, q, Len(list))[i] = list[q + i - 1]
        <4> HIDE DEF q
        <4> QED BY <3>2, SubSeqProperties
      <3>4. \A i \in 1..(Len(list) - q + 1) : q + i - 1 = p + i
        BY <2>2
      <3>5. Len(list) - q + 1 = Len(list) - p /\ Len(list) - p \in Nat
        BY <2>2
      <3>6. ~(q <= Len(list)) => Len(list) - p = 0
        BY <2>2
      <3> QED BY <3>3, <3>4, <3>5, <3>6
    <2> HIDE DEF s
    <2>6. \A i \in 1..Len(s) : p + i \in 1..Len(list)
      BY <2>2, <2>5
    <2>7. Once(s)
      <3> SUFFICES ASSUME NEW i \in 1..Len(s), NEW j \in 1..Len(s), s[i] = s[j] PROVE i = j
        BY DEF Once
      <3>1. p + i = p + j
        BY <2>5, <2>6 DEF Once
      <3> QED BY <2>2, <2>5, <3>1
    <2>8. ToSet(s) \subseteq ToSet(list)
      <3>1. ASSUME NEW m, m \in ToSet(s) PROVE m \in ToSet(list)
        <4>1. PICK i \in 1..Len(s) : s[i] = m
          BY <2>5, <3>1, Elements
        <4>2. list[p + i] = m /\ p + i \in 1..Len(list)
          BY <2>5, <2>6, <4>1
        <4> QED BY <4>2, Elements
      <3> QED BY <3>1
    <2>9. ASSUME NEW i \in 1..Len(list), i > p PROVE list[i] \in ToSet(s)
      <3> DEFINE j == i - p
      <3>1. j \in 1..Len(s) /\ p + j = i
        BY <2>2, <2>5, <2>9
      <3>2. s[j] = list[i]
        BY <2>5, <3>1
      <3> QED BY <2>5, <3>1, <3>2, Elements
    <2> QED BY <2>3, <2>4, <2>5, <2>7, <2>8, <2>9
  <1> QED BY <1>2, <1>3

LEMMA FillStartsAgain ==
    ASSUME RoomInv, fill # Idle, fill.state = "served", ~Overlaps, StartAgain,
           UNCHANGED <<stored, wire, rendered, earlier>>
    PROVE  ShownOK' /\ RenderedOK' /\ (~first.overtaken /\ ~fill.stale => Brought)
  <1> DEFINE top == fill.top
             page == Page(top)
             since == ArrivedSince
  <1>1. /\ fill \in Fills /\ Len(stored) \in Nat /\ top <= Len(stored) /\ top \in Nat
        /\ list \in Seq(Nat) /\ Once(list) /\ ToSet(list) \subseteq 1..Len(stored)
        /\ before \in 0..Len(stored) /\ epoch \in Nat /\ fill.had # {} /\ top # 0
    BY MessagesAre DEF RoomInv, Shape, FetchesOK, StoredOK, ShownOK, Fills, Overlaps
  <1>2. /\ page \in Seq(Nat) /\ Once(page) /\ Cursor(top) \in 0..top
        /\ \A m : m \in ToSet(page) <=> m \in 1..top /\ m >= Oldest(top)
        /\ \A m \in 1..top : m \in ToSet(page) \/ (Cursor(top) # 0 /\ m < Cursor(top))
        /\ Cursor(top) # 0 => ToSet(page) # {}
    BY <1>1, PageSpans
  <1>3. /\ list' = Newer(page, since) /\ UNCHANGED <<stored, wire>>
        /\ before' = Cursor(top) /\ epoch' = epoch + 1
    BY DEF StartAgain
  <1>4. /\ since \in Seq(Nat) /\ Once(since) /\ ToSet(since) \subseteq ToSet(list)
        /\ \A p \in 1..Len(list) : list[p] = fill.anchor =>
              \A i \in 1..Len(list) : i > p => list[i] \in ToSet(since)
    BY <1>1, Arrived
  <1> HIDE DEF page, top, since
  <1>5. list' \in Seq(Nat) /\ Once(list') /\ ToSet(list') = ToSet(page) \cup ToSet(since)
    BY <1>2, <1>3, <1>4, NewerKeeps
  <1>6. list' # <<>>
    <2>1. 1 \in 1..top
      BY <1>1
    <2>2. ToSet(page) # {}
      BY <1>2, <2>1
    <2> QED BY <1>5, <2>2, Elements
  <1>7. RenderedOK'
    BY <1>6, RenderedKept DEF RoomInv
  <1>8. ShownOK'
    <2>1. Messages(list')
      <3>1. ToSet(list') \subseteq 1..Len(stored)
        BY <1>1, <1>2, <1>4, <1>5
      <3> QED BY <1>5, <3>1, MessagesAre
    <2>2. before' \in 0..Len(stored)
      BY <1>1, <1>2, <1>3
    <2> QED BY <1>1, <1>3, <1>5, <1>6, <2>1, <2>2 DEF ShownOK, Messages, Once
  <1>9. ASSUME ~first.overtaken, ~fill.stale, NEW m \in Gap' PROVE m \in Gap /\ ~Filled(m)
    <2>1. /\ m \in 1..Len(stored) /\ m \notin ToSet(list') /\ m \notin ToSet(wire)
          /\ ~(before' # 0 /\ m < before')
      BY <1>3 DEF Gap, Missing
    <2>2. m > top
      BY <1>1, <1>2, <1>3, <1>5, <2>1
    <2>3. FillFits
      BY <1>9 DEF RoomInv, Walkable
    <2>4. before <= top
      BY <1>9, <2>3 DEF FillFits, top
    <2>5. PICK p \in 1..Len(list) : list[p] = fill.anchor /\ \A i \in 1..p : list[i] <= top
      BY <1>1, <1>9, <2>3 DEF FillFits, top
    <2>6. m \notin ToSet(list)
      <3> SUFFICES ASSUME m \in ToSet(list) PROVE FALSE
        OBVIOUS
      <3>1. PICK i \in 1..Len(list) : list[i] = m
        BY <1>1, Elements
      <3>2. CASE i <= p
        <4>1. i \in 1..p
          BY <3>2
        <4> QED BY <1>1, <2>1, <2>2, <2>5, <3>1, <4>1
      <3>3. CASE ~(i <= p)
        <4>1. i > p
          BY <3>3
        <4> QED BY <1>4, <1>5, <2>1, <2>5, <3>1, <4>1
      <3> QED BY <3>2, <3>3
    <2>7. m \in Gap
      BY <1>1, <2>1, <2>2, <2>4, <2>6 DEF Gap, Missing
    <2>8. ~Filled(m)
      BY <1>1, <1>9, <2>1, <2>2 DEF Filled, top
    <2> QED BY <2>7, <2>8
  <1> QED BY <1>7, <1>8, <1>9 DEF Brought

LEMMA FillArrivesInv ==
    ASSUME RoomInv, FillArrives
    PROVE  RoomInv'
  <1>1. /\ fill # Idle /\ fill.state = "served" /\ FillEnds
        /\ (Overlaps /\ Bridge) \/ (~Overlaps /\ StartAgain)
        /\ UNCHANGED <<stored, wire, conn, redial, socket, rendered, earlier, sends>>
    BY DEF FillArrives, socket
  <1>2. /\ list \in Seq(Nat) /\ first \in FirstPages /\ Len(stored) \in Nat /\ again \in BOOLEAN
        /\ fill \in Fills /\ epoch \in Nat /\ FetchesOK
    BY <1>1 DEF RoomInv, Shape, StoredOK, ShownOK, FetchesOK, Messages
  <1>3. ShownOK' /\ RenderedOK' /\ (~first.overtaken /\ ~fill.stale => Brought)
    BY <1>1, FillBridges, FillStartsAgain
  <1>4. list' \in Seq(Nat) /\ (list' = <<>> => before' = 0)
    BY <1>3 DEF ShownOK, Messages
  <1>5. epoch' \in Nat /\ epoch <= epoch'
    BY <1>1, <1>2 DEF Bridge, StartAgain
  <1>6. ASSUME ~first.overtaken PROVE EarlierFits'
    <2> SUFFICES ASSUME earlier # Idle, earlier.requestedAt = epoch', ~earlier.stale
                 PROVE  before' = earlier.top + 1
      BY <1>1 DEF EarlierFits, Current, Idle
    <2>1. earlier.requestedAt <= epoch /\ earlier.requestedAt \in Nat /\ earlier.top \in Nat
      BY <1>2 DEF FetchesOK, EarlierPages
    <2>2. CASE StartAgain
      BY <1>2, <2>1, <2>2 DEF StartAgain
    <2>3. CASE Bridge
      <3>1. epoch' = epoch /\ before' = IF before = 0 THEN Cursor(fill.top) ELSE before
        BY <2>3 DEF Bridge
      <3>2. before = earlier.top + 1
        BY <1>6, <3>1 DEF RoomInv, Walkable, EarlierFits, Current
      <3> QED BY <2>1, <3>1, <3>2
    <2> QED BY <1>1, <2>2, <2>3
  <1>7. ~first.overtaken => FirstAlone /\ \A m \in Gap : Promised(m)
    BY DEF RoomInv, Walkable
  <1>8. CASE again
    <2>1. /\ \E held \in {list', rendered'.list} : fill' = Snapshot(held, list')
          /\ first' = Overtake /\ again' = FALSE
          /\ Buried(list', before') \subseteq excused'
      BY <1>1, <1>8 DEF FillEnds
    <2>2. /\ FillFits' /\ \A m \in Gap' : Filled(m)' \/ \E n \in ToSet(list') : n > m
          /\ fill' \in Fills /\ fill'.top = 0 /\ fill'.state = "asked"
          /\ fill'.had \subseteq 1..Len(stored')
      BY <1>3, <2>1, Retaken
    <2>3. /\ first' \in FirstPages /\ first'.state = first.state /\ first'.top = first.top
          /\ ~first'.overtaken => ~first.overtaken /\ first.state \notin {"asked", "served"}
      BY <1>2, <2>1, OvertakeIs
    <2>4. FetchesOK'
      <3>1. first'.top <= Len(stored')
        BY <1>1, <1>2, <2>3 DEF FetchesOK
      <3>2. earlier # Idle => earlier.requestedAt <= epoch'
        BY <1>2, <1>5 DEF FetchesOK, EarlierPages
      <3>3. fill'.top <= Len(stored') /\ fill'.state # "served"
        BY <1>1, <1>2, <2>2
      <3> QED BY <1>1, <1>2, <2>1, <2>2, <2>3, <3>1, <3>2, <3>3 DEF FetchesOK, Idle
    <2>5. Shape'
      BY <1>1, <1>3, <2>4, Kept DEF RoomInv, Shape
    <2>6. ASSUME ~first'.overtaken
          PROVE  FirstAlone' /\ EarlierFits' /\ FillFits' /\ \A m \in Gap' : Promised(m)'
      <3>1. FirstAlone' /\ EarlierFits'
        BY <1>6, <2>3, <2>6 DEF FirstAlone
      <3>2. \A m \in Gap' : m \in Missing(list', before')
        BY <1>1 DEF Gap, Missing
      <3>3. \A m \in Gap' : Promised(m)'
        BY <2>1, <2>2, <3>2 DEF Promised, Buried
      <3> QED BY <2>2, <3>1, <3>3
    <2> QED BY <2>5, <2>6 DEF RoomInv, Walkable
  <1>9. CASE ~again
    <2>1. /\ fill' = Idle /\ UNCHANGED <<first, again>> /\ excused \subseteq excused'
          /\ fill.stale => Missing(list', before') \subseteq excused'
      BY <1>1, <1>9 DEF FillEnds
    <2>2. FetchesOK'
      <3>1. earlier # Idle => earlier.requestedAt <= epoch'
        BY <1>2, <1>5 DEF FetchesOK, EarlierPages
      <3> QED BY <1>1, <1>2, <1>9, <2>1, <3>1 DEF FetchesOK, FirstPages, EarlierPages, Idle
    <2>3. Shape'
      BY <1>1, <1>3, <2>2, Kept DEF RoomInv, Shape
    <2>4. ASSUME ~first'.overtaken
          PROVE  FirstAlone' /\ EarlierFits' /\ FillFits' /\ \A m \in Gap' : Promised(m)'
      <3>1. /\ ~first.overtaken /\ first.state \notin {"asked", "served"}
            /\ \A m \in Gap : Promised(m)
        BY <1>1, <1>7, <2>1, <2>4 DEF FirstAlone
      <3>2. FirstAlone' /\ EarlierFits' /\ FillFits'
        BY <1>6, <2>1, <3>1 DEF FirstAlone, FillFits, Idle
      <3>3. CASE fill.stale
        <4>1. Gap' = Missing(list', before')
          BY <1>1 DEF Gap, Missing
        <4> QED BY <2>1, <3>2, <3>3, <4>1 DEF Promised
      <3>4. CASE ~fill.stale
        <4>1. ASSUME NEW m \in Gap' PROVE Promised(m)'
          <5>1. m \in Gap /\ ~Filled(m)
            BY <1>3, <3>1, <3>4 DEF Brought
          <5>2. \/ m \in excused \/ (conn = "dialing" /\ ~redial /\ m > first.top)
                \/ Redials
            BY <1>9, <3>1, <5>1 DEF Promised
          <5> QED BY <1>1, <2>1, <5>2 DEF Promised, Redials
        <4> QED BY <3>2, <4>1
      <3> QED BY <3>3, <3>4
    <2> QED BY <2>3, <2>4 DEF RoomInv, Walkable
  <1> QED BY <1>2, <1>8, <1>9
-----------------------------------------------------------------------------
(***************************************************************************)
(* Earlier pages.                                                          *)
(***************************************************************************)
LEMMA LoadEarlierInv ==
    ASSUME RoomInv, LoadEarlier
    PROVE  RoomInv'
  <1> DEFINE cursor == rendered.before
  <1>1. /\ cursor # 0 /\ rendered' = [rendered EXCEPT !.loading = TRUE]
        /\ earlier' = [state |-> "asked", top |-> cursor - 1, requestedAt |-> epoch,
                       stale |-> cursor # before]
        /\ UNCHANGED <<stored, wire, conn, redial, socket, list, before, epoch, first, fill,
                       again, sends, excused>>
    BY DEF LoadEarlier, socket
  <1>2. /\ cursor \in 1..Len(stored) /\ epoch \in Nat /\ Len(stored) \in Nat
        /\ rendered \in Renders /\ list # <<>> /\ rendered.list # <<>>
    BY <1>1 DEF RoomInv, Shape, ShownOK, StoredOK, RenderedOK, Renders
  <1>3. /\ earlier' \in EarlierPages /\ earlier'.top = cursor - 1 /\ earlier'.requestedAt = epoch
        /\ earlier'.stale <=> cursor # before
    <2> DEFINE stale == cursor # before
    <2>1. stale \in BOOLEAN /\ cursor - 1 \in Nat
      BY <1>2
    <2>2. earlier' = [state |-> "asked", top |-> cursor - 1, requestedAt |-> epoch,
                      stale |-> stale]
      BY <1>1
    <2>3. stale <=> cursor # before
      OBVIOUS
    <2> HIDE DEF stale
    <2>4. /\ earlier' \in EarlierPages /\ earlier'.top = cursor - 1
          /\ earlier'.requestedAt = epoch /\ earlier'.stale = stale
      BY <1>2, <2>1, <2>2 DEF EarlierPages
    <2> QED BY <2>3, <2>4
  <1>4. rendered' \in Renders /\ rendered'.list = rendered.list /\ rendered'.before = cursor
    BY <1>1, <1>2 DEF Renders
  <1>5. Shape'
    <2>1. FetchesOK'
      BY <1>1, <1>2, <1>3 DEF RoomInv, Shape, FetchesOK, FirstPages, Fills, Idle
    <2>2. RenderedOK'
      BY <1>1, <1>2, <1>4 DEF RoomInv, Shape, RenderedOK, Messages, Once
    <2>3. ShownOK'
      BY <1>1 DEF RoomInv, Shape, ShownOK, Messages, Once
    <2> QED BY <1>1, <2>1, <2>2, <2>3, Kept DEF RoomInv, Shape
  <1>6. ASSUME ~first.overtaken
        PROVE  FirstAlone' /\ EarlierFits' /\ FillFits' /\ \A m \in Gap' : Promised(m)'
    <2>1. FirstAlone /\ FillFits /\ \A m \in Gap : Promised(m)
      BY <1>6 DEF RoomInv, Walkable
    <2>2. FirstAlone' /\ EarlierFits'
      BY <1>1, <1>2, <1>3, <2>1 DEF FirstAlone, EarlierFits, Idle
    <2>3. FillFits'
      <3>1. ASSUME fill # Idle, ~fill.stale, fill.state = "served"
            PROVE  earlier'.top <= fill.top
        <4>1. fill.top \in Nat /\ cursor <= fill.top
          BY <2>1, <3>1 DEF FillFits, RoomInv, Shape, FetchesOK, Fills
        <4> QED BY <1>2, <1>3, <4>1
      <3> QED BY <1>1, <1>4, <2>1, <3>1 DEF FillFits, Idle
    <2>4. \A m \in Gap' : Promised(m)'
      BY <1>1, <2>1 DEF Gap, Missing, Promised, Redials, Filled, Idle
    <2> QED BY <2>2, <2>3, <2>4
  <1> QED BY <1>1, <1>5, <1>6 DEF RoomInv, Walkable

\* Steps that only end the request.

LEMMA EarlierEnds ==
    ASSUME RoomInv, earlier' = Idle, excused \subseteq excused',
           UNCHANGED <<stored, socket, shown, first, fill, again, sends>>
    PROVE  RoomInv'
  <1>1. UNCHANGED <<wire, conn, redial, list, before, epoch, rendered>>
    BY DEF socket, shown
  <1>2. FetchesOK'
    BY <1>1 DEF RoomInv, Shape, FetchesOK, FirstPages, Fills, Idle
  <1>3. Shape'
    BY <1>1, <1>2, Kept, RenderedKept DEF RoomInv, Shape
  <1>4. ASSUME ~first.overtaken
        PROVE  FirstAlone' /\ EarlierFits' /\ FillFits' /\ \A m \in Gap' : Promised(m)'
    <2>1. FirstAlone /\ FillFits /\ \A m \in Gap : Promised(m)
      BY <1>4 DEF RoomInv, Walkable
    <2>2. FirstAlone' /\ EarlierFits' /\ FillFits'
      BY <1>1, <2>1 DEF FirstAlone, EarlierFits, FillFits, Idle
    <2>3. \A m \in Gap' : Promised(m)'
      BY <1>1, <2>1 DEF Gap, Missing, Promised, Redials, Filled, Idle
    <2> QED BY <2>2, <2>3
  <1> QED BY <1>3, <1>4 DEF RoomInv, Walkable

LEMMA EarlierFailsInv ==
    ASSUME RoomInv, EarlierFails
    PROVE  RoomInv'
  BY EarlierEnds DEF EarlierFails

LEMMA EarlierArrivesInv ==
    ASSUME RoomInv, EarlierArrives
    PROVE  RoomInv'
  <1>1. /\ earlier # Idle /\ earlier' = Idle
        /\ excused \subseteq excused'
        /\ UNCHANGED <<stored, wire, conn, redial, socket, epoch, rendered, first, fill, again, sends>>
    BY DEF EarlierArrives, socket
  <1>2. CASE ~Current
    <2>1. UNCHANGED shown
      BY <1>1, <1>2 DEF EarlierArrives, shown
    <2> QED BY <1>1, <2>1, EarlierEnds
  <1>3. CASE Current
    <2> DEFINE top == earlier.top
               page == Page(top)
    <2>1. /\ list' = Older(list, page) /\ before' = Cursor(top)
          /\ Len(stored) \in Nat /\ top \in Nat /\ top <= Len(stored)
          /\ list \in Seq(Nat) /\ Once(list) /\ ToSet(list) \subseteq 1..Len(stored)
          /\ list # <<>>
          /\ earlier.stale => Missing(list', before') \subseteq excused'
      BY <1>1, <1>3, MessagesAre
         DEF EarlierArrives, RoomInv, Shape, ShownOK, StoredOK, RenderedOK, FetchesOK, EarlierPages
    <2>2. /\ page \in Seq(Nat) /\ Once(page) /\ Cursor(top) \in 0..top
          /\ ToSet(page) \subseteq 1..top
          /\ \A m \in 1..top : m \in ToSet(page) \/ (Cursor(top) # 0 /\ m < Cursor(top))
          /\ Cursor(top) # 0 => ToSet(page) # {}
      BY <2>1, PageSpans
    <2> HIDE DEF page, top
    <2>3. /\ list' \in Seq(Nat) /\ Once(list') /\ ToSet(list') = ToSet(list) \cup ToSet(page)
          /\ \E k \in Nat : /\ Len(list') = k + Len(list) /\ Len(list) \in Nat
                            /\ \A i \in 1..k : list'[i] \in ToSet(page)
                            /\ \A i \in 1..Len(list) : list'[k + i] = list[i]
      BY <2>1, <2>2, OlderKeeps
    <2>4. list' # <<>>
      BY <2>1, <2>3, Elements
    <2>5. ShownOK'
      <3>1. Messages(list')
        <4>1. ToSet(list') \subseteq 1..Len(stored)
          BY <2>1, <2>2, <2>3
        <4> QED BY <2>3, <4>1, MessagesAre
      <3>2. before' \in 0..Len(stored)
        BY <2>1, <2>2
      <3> QED BY <1>1, <2>3, <2>4, <3>1, <3>2 DEF RoomInv, Shape, ShownOK, Messages, Once
    <2>6. FetchesOK'
      BY <1>1 DEF RoomInv, Shape, FetchesOK, FirstPages, Fills, Idle
    <2>7. RenderedOK'
      BY <1>1, <2>4, RenderedKept DEF RoomInv
    <2>8. Shape'
      BY <1>1, <2>5, <2>6, <2>7, Kept DEF RoomInv, Shape
    <2>9. ASSUME ~first.overtaken
          PROVE  FirstAlone' /\ EarlierFits' /\ FillFits' /\ \A m \in Gap' : Promised(m)'
      <3>1. /\ FirstAlone /\ FillFits /\ \A m \in Gap : Promised(m)
            /\ ~earlier.stale => before = top + 1
        BY <1>1, <1>3, <2>9 DEF RoomInv, Walkable, EarlierFits, top
      <3>2. FirstAlone' /\ EarlierFits'
        BY <1>1, <3>1 DEF FirstAlone, EarlierFits
      <3>3. FillFits'
        <4> SUFFICES ASSUME fill # Idle, ~fill.stale
                     PROVE  /\ fill.had # {}
                            /\ \E p \in 1..Len(list') :
                                  /\ list'[p] = fill.anchor
                                  /\ fill.state = "served" => \A i \in 1..p : list'[i] <= fill.top
                            /\ fill.state = "served" =>
                                  before' <= fill.top /\ rendered.before <= fill.top
          BY <1>1 DEF FillFits, Idle
        <4>1. fill.had # {} /\ fill.top \in Nat
          BY <1>1, <3>1 DEF FillFits, RoomInv, Shape, FetchesOK, Fills
        <4>2. fill.state = "served" => top <= fill.top
          BY <1>1, <3>1 DEF FillFits, top
        <4>3. fill.state = "served" => before' <= fill.top /\ rendered.before <= fill.top
          BY <2>1, <2>2, <3>1, <4>1, <4>2 DEF FillFits
        <4>4. PICK p \in 1..Len(list) :
                 /\ list[p] = fill.anchor
                 /\ fill.state = "served" => \A i \in 1..p : list[i] <= fill.top
          BY <3>1, <4>1 DEF FillFits
        <4>5. PICK k \in Nat : /\ Len(list') = k + Len(list) /\ Len(list) \in Nat
                               /\ \A i \in 1..k : list'[i] \in ToSet(page)
                               /\ \A i \in 1..Len(list) : list'[k + i] = list[i]
          BY <2>3
        <4>6. k + p \in 1..Len(list') /\ list'[k + p] = fill.anchor
          BY <4>4, <4>5
        <4>7. ASSUME fill.state = "served", NEW i \in 1..(k + p) PROVE list'[i] <= fill.top
          <5>1. CASE i <= k
            <6>1. list'[i] \in 1..top
              BY <2>2, <4>5, <5>1
            <6> QED BY <2>1, <4>1, <4>2, <4>7, <6>1
          <5>2. CASE ~(i <= k)
            <6> DEFINE j == i - k
            <6>1. j \in 1..p /\ j \in 1..Len(list) /\ k + j = i
              BY <4>4, <4>5, <5>2
            <6>2. list'[i] = list[j]
              BY <4>5, <6>1
            <6> QED BY <4>4, <4>7, <6>1, <6>2
          <5> QED BY <5>1, <5>2
        <4> QED BY <4>1, <4>3, <4>6, <4>7
      <3>4. ASSUME NEW m \in Gap' PROVE Promised(m)'
        <4>1. /\ m \in 1..Len(stored) /\ m \notin ToSet(list') /\ m \notin ToSet(wire)
              /\ ~(before' # 0 /\ m < before')
          BY <1>1 DEF Gap, Missing
        <4>2. CASE earlier.stale
          <5>1. m \in Missing(list', before')
            BY <1>1, <4>1 DEF Missing
          <5> QED BY <2>1, <4>2, <5>1 DEF Promised
        <4>3. CASE ~earlier.stale
          <5>1. ~(m < before)
            BY <2>1, <2>2, <2>3, <3>1, <4>1, <4>3
          <5>2. m \in Gap
            BY <2>3, <4>1, <5>1 DEF Gap, Missing
          <5> QED BY <1>1, <3>1, <5>2 DEF Promised, Redials, Filled, Idle
        <4> QED BY <4>2, <4>3
      <3> QED BY <3>2, <3>3, <3>4
    <2> QED BY <1>1, <2>8, <2>9 DEF RoomInv, Walkable
  <1> QED BY <1>2, <1>3

-----------------------------------------------------------------------------
(***************************************************************************)
(* Sends.                                                                  *)
(***************************************************************************)

\* Steps that say something to the server and nothing to the list.
LEMMA Said ==
    ASSUME RoomInv, UNCHANGED <<stored, socket, shown, fetches, excused>>, SendsOK'
    PROVE  RoomInv'
  <1>1. Shape'
    BY Kept DEF RoomInv, Shape, shown
  <1> QED BY <1>1, WalkSame DEF RoomInv

LEMMA PostNew ==
    ASSUME RoomInv, NEW k \in Kinds, Post(k, ids + 1), meant' = meant + 1, UNCHANGED stored
    PROVE  SendsOK'
  <1>1. SendsOK /\ ids \in Nat
    BY DEF RoomInv, Shape, SendsOK
  <1>2. /\ pending' = [pending EXCEPT ![k] = ids + 1] /\ posting' = posting \cup {ids + 1}
        /\ ids' = ids + 1 /\ sending'.kind = k
    BY <1>1 DEF Post
  <1>3. ids' \in Nat /\ ids' = meant' /\ posting' \subseteq 1..ids'
    BY <1>1, <1>2 DEF SendsOK
  <1>4. pending' \in [Kinds -> 0..ids']
    <2>1. \A h \in Kinds : pending'[h] \in 0..ids'
      BY <1>1, <1>2 DEF SendsOK
    <2> QED BY <1>1, <1>2, <2>1 DEF SendsOK
  <1>5. \A i \in 1..Len(stored) : stored[i] \in 0..ids'
    BY <1>1, <1>2 DEF SendsOK
  <1> QED BY <1>1, <1>2, <1>3, <1>4, <1>5 DEF SendsOK

LEMMA SendInv ==
    ASSUME RoomInv, NEW k \in Kinds, Send(k)
    PROVE  RoomInv'
  BY PostNew, Said DEF Send

LEMMA RetryInv ==
    ASSUME RoomInv, NEW k \in Kinds, Retry(k)
    PROVE  RoomInv'
  <1> DEFINE id == Key(k)
  <1>1. SendsOK /\ ids \in Nat /\ id \in 1..ids
    BY DEF RoomInv, Shape, SendsOK, Retry, Key
  <1>2. /\ pending' = [pending EXCEPT ![k] = id] /\ posting' = posting \cup {id}
        /\ ids' = ids /\ UNCHANGED <<stored, meant>> /\ sending'.kind = k
    BY <1>1 DEF Retry, Post
  <1> HIDE DEF id
  <1>3. SendsOK'
    BY <1>1, <1>2 DEF SendsOK
  <1> QED BY <1>3, Said DEF Retry

LEMMA AttachInv ==
    ASSUME RoomInv, Attach
    PROVE  RoomInv'
  <1>1. SendsOK'
    BY DEF Attach, RoomInv, Shape, SendsOK
  <1> QED BY <1>1, Said DEF Attach

LEMMA UploadedInv ==
    ASSUME RoomInv, Uploaded
    PROVE  RoomInv'
  <1>1. "picture" \in Kinds
    BY DEF Uploaded, RoomInv, Shape, SendsOK
  <1> QED BY <1>1, PostNew, Said DEF Uploaded

LEMMA SendFailsInv ==
    ASSUME RoomInv, SendFails
    PROVE  RoomInv'
  <1>1. SendsOK'
    BY DEF SendFails, NoSend, RoomInv, Shape, SendsOK
  <1> QED BY <1>1, Said DEF SendFails

\* The answer to a send puts its message on screen.
LEMMA SentInv ==
    ASSUME RoomInv, Sent
    PROVE  RoomInv'
  <1> DEFINE m == CHOOSE n \in 1..Len(stored) : stored[n] = sending.id
             one == <<m>>
  <1>1. /\ sending.id \in ToSet(stored) /\ list' = Newer(list, one)
        /\ pending' = [pending EXCEPT ![sending.kind] = 0] /\ sending' = NoSend
        /\ UNCHANGED <<stored, wire, conn, redial, socket, before, epoch, rendered, first, fill, again,
                       earlier, fetches, posting, ids, meant, excused>>
    BY DEF Sent, socket, fetches
  <1>2. /\ stored \in Seq(Nat) /\ Len(stored) \in Nat
        /\ list \in Seq(Nat) /\ Once(list) /\ ToSet(list) \subseteq 1..Len(stored)
    BY MessagesAre DEF RoomInv, Shape, StoredOK, ShownOK
  <1>3. m \in 1..Len(stored)
    <2>1. \E n \in 1..Len(stored) : stored[n] = sending.id
      BY <1>1, <1>2, Elements
    <2> QED BY <2>1
  <1> HIDE DEF m
  <1>4. one \in Seq(Nat) /\ Once(one) /\ ToSet(one) = {m}
    BY <1>3, Single
  <1> HIDE DEF one
  <1>5. /\ list' \in Seq(Nat) /\ Once(list') /\ ToSet(list') = ToSet(list) \cup {m}
        /\ Len(list) \in Nat /\ Len(list) <= Len(list') /\ Len(list') \in Nat
        /\ \A i \in 1..Len(list) : list'[i] = list[i]
    BY <1>1, <1>2, <1>4, NewerKeeps
  <1>6. list' # <<>>
    BY <1>5, Elements
  <1>7. ShownOK'
    <2>1. Messages(list')
      BY <1>2, <1>3, <1>5, MessagesAre
    <2> QED BY <1>1, <1>5, <1>6, <2>1 DEF RoomInv, Shape, ShownOK, Messages, Once
  <1>8. RenderedOK'
    BY <1>1, <1>6, RenderedKept DEF RoomInv
  <1>9. SendsOK'
    <2>1. SendsOK
      BY DEF RoomInv, Shape
    <2>2. ids \in Nat /\ pending \in [Kinds -> 0..ids] /\ 0 \in 0..ids
      BY <2>1 DEF SendsOK
    <2>3. pending' \in [Kinds -> 0..ids]
      BY <1>1, <2>2
    <2>4. sending'.kind = "none"
      BY <1>1 DEF NoSend
    <2>5. /\ stored' = stored /\ ids' = ids /\ meant' = meant /\ posting' = posting
      BY <1>1
    <2> QED BY <2>1, <2>3, <2>4, <2>5 DEF SendsOK
  <1>10. Shape'
    BY <1>1, <1>7, <1>8, <1>9, Kept DEF RoomInv, Shape
  <1>11. ASSUME ~first.overtaken
        PROVE  FirstAlone' /\ EarlierFits' /\ FillFits' /\ \A n \in Gap' : Promised(n)'
    <2>1. FirstAlone /\ EarlierFits /\ FillFits /\ \A n \in Gap : Promised(n)
      BY <1>11 DEF RoomInv, Walkable
    <2>2. FirstAlone' /\ EarlierFits'
      BY <1>1, <2>1 DEF FirstAlone, EarlierFits, Current, Idle
    <2>3. FillFits'
      <3>1. \A p \in 1..Len(list) : p \in 1..Len(list') /\ list'[p] = list[p]
                                    /\ \A i \in 1..p : list'[i] = list[i]
        BY <1>5
      <3> QED BY <1>1, <2>1, <3>1 DEF FillFits, Idle
    <2>4. \A n \in Gap' : n \in Gap
      BY <1>1, <1>5 DEF Gap, Missing
    <2>5. \A n \in Gap' : Promised(n)'
      BY <1>1, <2>1, <2>4 DEF Promised, Redials, Filled, Idle
    <2> QED BY <2>2, <2>3, <2>5
  <1> QED BY <1>1, <1>10, <1>11 DEF RoomInv, Walkable

-----------------------------------------------------------------------------
(***************************************************************************)
(* The theorems.                                                           *)
(***************************************************************************)
LEMMA RoomInvInit ==
    Init => RoomInv
  <1> SUFFICES ASSUME Init PROVE RoomInv
    OBVIOUS
  <1>1. /\ stored = [i \in 1..AtFirst |-> 0] /\ AtFirst \in Nat
        /\ wire = <<>> /\ list = <<>> /\ before = 0 /\ epoch = 0
        /\ rendered = [list |-> <<>>, before |-> 0, loading |-> FALSE]
        /\ conn = "dialing" /\ redial = FALSE
        /\ first = [state |-> "asked", top |-> 0, overtaken |-> FALSE]
        /\ fill = Idle /\ again = FALSE /\ earlier = Idle
        /\ sending = NoSend /\ pending = [k \in Kinds |-> 0]
        /\ posting = {} /\ ids = 0 /\ meant = 0
    BY RoomAssumption DEF Init
  <1>2. stored \in Seq(Nat) /\ Len(stored) = AtFirst /\ \A i \in 1..Len(stored) : stored[i] = 0
    BY <1>1
  <1>3. <<>> \in Seq(Nat) /\ Len(<<>>) = 0
    OBVIOUS
  <1>4. SocketOK /\ ShownOK /\ RenderedOK
    <2>1. wire \in Seq(Nat) /\ 1..Len(wire) = {}
      BY <1>1, <1>3
    <2>2. list \in Seq(Nat) /\ 1..Len(list) = {}
      BY <1>1, <1>3
    <2>3. Messages(wire) /\ Messages(list) /\ Once(list)
      BY <2>1, <2>2 DEF Messages, Once
    <2>4. before \in 0..Len(stored) /\ epoch \in Nat
      BY <1>1, <1>2
    <2>5. conn \in {"dialing", "subscribed", "open", "down", "over"} /\ redial \in BOOLEAN
      BY <1>1
    <2>6. SocketOK
      BY <2>3, <2>5 DEF SocketOK
    <2>7. ShownOK
      BY <1>1, <2>3, <2>4 DEF ShownOK
    <2>8. rendered \in Renders /\ rendered.list = list /\ rendered.before = 0
      BY <1>1, <2>2 DEF Renders
    <2>9. RenderedOK
      BY <1>1, <1>2, <2>3, <2>8 DEF RenderedOK
    <2> QED BY <2>6, <2>7, <2>9
  <1>5. FetchesOK
    <2>1. first \in FirstPages /\ first.top = 0
      BY <1>1 DEF FirstPages
    <2>2. first.top <= Len(stored)
      BY <1>1, <1>2, <2>1
    <2> QED BY <1>1, <2>1, <2>2 DEF FetchesOK
  <1>6. SendsOK
    BY <1>1, <1>2 DEF SendsOK, NoSend
  <1>7. Walkable
    BY <1>1 DEF Walkable, FirstAlone, EarlierFits, FillFits, Promised
  <1> QED BY <1>2, <1>4, <1>5, <1>6, <1>7 DEF RoomInv, Shape, StoredOK

LEMMA RoomInvNext ==
    RoomInv /\ [Next]_vars => RoomInv'
  <1> SUFFICES ASSUME RoomInv, [Next]_vars PROVE RoomInv'
    OBVIOUS
  <1>1. CASE OthersSay \/ Subscribe \/ Opened \/ Receive \/ Closed \/ Redial
    BY <1>1, OthersSayInv, SubscribeInv, OpenedInv, ReceiveInv, ClosedInv, RedialInv
  <1>2. CASE Render
    BY <1>2, RenderInv
  <1>3. CASE ServeFirst \/ FirstArrives \/ FirstFails
    BY <1>3, ServeFirstInv, FirstArrivesInv, FirstFailsInv
  <1>4. CASE ServeFill \/ FillArrives \/ FillFails
    BY <1>4, ServeFillInv, FillArrivesInv, FillFailsInv
  <1>5. CASE LoadEarlier \/ EarlierArrives \/ EarlierFails
    BY <1>5, LoadEarlierInv, EarlierArrivesInv, EarlierFailsInv
  <1>6. CASE Attach \/ Uploaded \/ Sent \/ SendFails
    BY <1>6, AttachInv, UploadedInv, SentInv, SendFailsInv
  <1>7. ASSUME NEW k \in Kinds, Send(k) \/ Retry(k) PROVE RoomInv'
    BY <1>7, SendInv, RetryInv
  <1>8. ASSUME NEW id \in posting, TakePost(id) PROVE RoomInv'
    BY <1>8, TakePostInv
  <1>9. CASE UNCHANGED vars
    <2>1. UNCHANGED <<stored, socket, shown, fetches, excused, sends>>
      BY <1>9 DEF vars
    <2>2. SendsOK'
      BY <2>1, Kept DEF RoomInv, Shape
    <2> QED BY <2>1, <2>2, Said
  <1> QED BY <1>1, <1>2, <1>3, <1>4, <1>5, <1>6, <1>7, <1>8, <1>9 DEF Next

LEMMA RoomInvariance == Spec => []RoomInv
  BY RoomInvInit, RoomInvNext, PTL DEF Spec

\* Whatever is lost, late or tried again, and however pages, the socket and the
\* answers to sends overlap: no message is on screen twice, and no more of the
\* reader's are stored than were meant to be sent.
THEOREM NothingIsTwice == Spec => []NothingTwice
  <1>1. RoomInv => NothingTwice
    <2> SUFFICES ASSUME RoomInv PROVE NothingTwice
      OBVIOUS
    <2>1. Cardinality(ToSet(list)) = Len(list)
      <3> DEFINE n == Len(list)
                 f == [i \in 1..n |-> list[i]]
      <3>1. list \in Seq(Nat) /\ Once(list) /\ n \in Nat
        BY DEF RoomInv, Shape, ShownOK, Messages
      <3>2. /\ \A i \in 1..n : f[i] = list[i] /\ list[i] \in ToSet(list)
            /\ \A m \in ToSet(list) : \E i \in 1..n : f[i] = m
            /\ \A i, j \in 1..n : f[i] = f[j] => i = j
        BY <3>1, Elements DEF Once
      <3>3. f \in [1..n -> ToSet(list)]
        BY <3>2
      <3> HIDE DEF f, n
      <3>4. f \in Surjection(1..n, ToSet(list))
        BY <3>2, <3>3 DEF Surjection
      <3>5. IsInjective(f)
        BY <3>2, <3>3 DEF IsInjective
      <3>6. f \in Injection(1..n, ToSet(list))
        BY <3>3, <3>5 DEF Injection
      <3>7. IsFiniteSet(1..n) /\ Cardinality(1..n) = n
        BY <3>1, FS_Interval
      <3>8. Cardinality(ToSet(list)) = Cardinality(1..n)
        BY <3>4, <3>6, <3>7, FS_Surjection
      <3> QED BY <3>7, <3>8 DEF n
    <2>2. Cardinality({m \in 1..Len(stored) : stored[m] # 0}) <= meant
      <3> DEFINE own == {m \in 1..Len(stored) : stored[m] # 0}
                 f == [m \in own |-> stored[m]]
      <3>1. ids \in Nat /\ meant = ids
        BY DEF RoomInv, Shape, SendsOK
      <3>2. \A m \in own : f[m] \in 1..ids
        BY <3>1 DEF RoomInv, Shape, SendsOK
      <3>3. \A m, n \in own : f[m] = f[n] => m = n
        BY DEF RoomInv, Shape, SendsOK
      <3>4. f \in [own -> 1..ids]
        BY <3>2
      <3> HIDE DEF own, f
      <3>5. f \in Injection(own, 1..ids)
        BY <3>3, <3>4 DEF Injection, IsInjective
      <3>6. IsFiniteSet(1..ids) /\ Cardinality(1..ids) = ids
        BY <3>1, FS_Interval
      <3>7. Cardinality(own) <= Cardinality(1..ids)
        BY <3>5, <3>6, FS_Injection
      <3> QED BY <3>1, <3>6, <3>7 DEF own
    <2> QED BY <2>1, <2>2 DEF NothingTwice
  <1> QED BY <1>1, RoomInvariance, PTL

\* Once the room is connected and caught up, every message is on screen, on its
\* way or before the cursor of "load earlier", but for those that the comment of
\* HistoryStaysWalkable names: after any number of drops, restarts and pages, in
\* any order.
THEOREM WalkableHistory == Spec => []HistoryStaysWalkable
  <1>1. RoomInv => HistoryStaysWalkable
    <2> SUFFICES ASSUME RoomInv, Quiet, NEW m \in Gap PROVE m \in excused
      BY DEF HistoryStaysWalkable
    <2>1. /\ conn = "open" /\ fill = Idle /\ first.state \in {"done", "failed"}
          /\ ~first.overtaken /\ ~again
      BY DEF Quiet, RoomInv, Shape, FetchesOK
    <2>2. Promised(m)
      BY <2>1 DEF RoomInv, Walkable
    <2> QED BY <2>1, <2>2 DEF Promised, Redials, Filled
  <1> QED BY <1>1, RoomInvariance, PTL
=============================================================================
