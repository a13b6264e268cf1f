------------------------------- MODULE Timeline -------------------------------
(***************************************************************************)
(* A group's messages in the order of their (created_at, id), and one      *)
(* member who pages back through them and moves a read cursor over them:   *)
(* History in chat.go, listBefore, locate and unreadCounts in chat/store.go*)
(* and MarkRead, AdvanceOwnCursor and advanceReadCursor in group.          *)
(*                                                                         *)
(* created_at is the time an INSERT starts; the row is visible from its    *)
(* commit on.  In between other rows come and go, so the order of the      *)
(* timeline is not the order in which its messages appear.  A tombstone    *)
(* keeps its place, so deletions change nothing here.                      *)
(***************************************************************************)
EXTENDS Naturals, FiniteSets, Sequences, SequencesExt

CONSTANTS
    Messages,    \* ids of the group's messages, in the order uuids compare
    Own,         \* those the member sends
    Devices,     \* the member's devices
    PageSize,    \* the limit of a page of history
    MaxClock     \* bound on the number of different timestamps

ASSUME TimelineAssumption ==
    /\ Messages \in SUBSET (Nat \ {0}) /\ IsFiniteSet(Messages)
    /\ Own \in SUBSET Messages
    /\ PageSize \in Nat \ {0}
    /\ MaxClock \in Nat \ {0}

VARIABLES
    clock,
    at,        \* at[m]: created_at once the INSERT of m has started, 0 before
    stored,    \* the committed rows
    walk,      \* the history the member has loaded, oldest first
    more,      \* the last page said that there is another before it
    first,     \* the messages stored when the first page was read
    shown,     \* the messages any device has shown, from a page or a socket
    asked,     \* asked[d]: the message whose MarkRead is on its way, 0 without
    cursor     \* last_read_message_created_at and last_read_message_id

vars == <<clock, at, stored, walk, more, first, shown, asked, cursor>>
rows == <<clock, at, stored>>
loaded == <<walk, more, first>>

NeverRead == <<0, 0>>

Pos(m) == <<at[m], m>>

\* Timestamps that are equal, taken for the same position.
BuggyBefore(p, q) == p[1] < q[1]

\* PostgreSQL compares rows lexicographically.
Before(p, q) == p[1] < q[1] \/ (p[1] = q[1] /\ p[2] < q[2])

Init ==
    /\ clock = 1
    /\ at = [m \in Messages |-> 0]
    /\ stored = {}
    /\ walk = <<>>
    /\ more = FALSE
    /\ first = {}
    /\ shown = {}
    /\ asked = [d \in Devices |-> 0]
    /\ cursor = NeverRead

-----------------------------------------------------------------------------
Tick ==
    /\ clock < MaxClock
    /\ clock' = clock + 1
    /\ UNCHANGED <<at, stored, loaded, shown, asked, cursor>>

\* The INSERT of m starts: now() is fixed.
Insert(m) ==
    /\ at[m] = 0
    /\ at' = [at EXCEPT ![m] = clock]
    /\ UNCHANGED <<clock, stored, loaded, shown, asked, cursor>>

\* It commits.
Commit(m) ==
    /\ at[m] # 0 /\ m \notin stored
    /\ stored' = stored \cup {m}
    /\ UNCHANGED <<clock, at, loaded, shown, asked, cursor>>

-----------------------------------------------------------------------------
(***************************************************************************)
(* History.                                                                *)
(***************************************************************************)
\* The rows of S that come after m.
Newer(S, m) == {n \in S : Before(Pos(m), Pos(n))}

\* The row that only answers "is there more" taken for one of the page, and the
\* newest left out for it.
BuggyLimited(S) ==
    {m \in S : Cardinality(S) > PageSize => Cardinality(Newer(S, m)) \in 1..PageSize}

\* ORDER BY created_at DESC, id DESC LIMIT PageSize ...
Limited(S) == {m \in S : Cardinality(Newer(S, m)) < PageSize}

\* ... turned oldest first for display: the last of a page has no newer one on
\* it, the one before it has one.
Page(S) ==
    LET page == Limited(S)
        size == Cardinality(page)
    IN  [i \in 1..size |-> CHOOSE m \in page : Cardinality(Newer(page, m)) = size - i]

\* The newest page, which starts the list anew.
FirstPage ==
    /\ walk' = Page(stored)
    /\ more' = (Cardinality(stored) > PageSize)
    /\ first' = stored
    /\ shown' = shown \cup Limited(stored)
    /\ UNCHANGED <<rows, asked, cursor>>

\* The rows before the oldest one shown.
Older == {m \in stored : Before(Pos(m), Pos(walk[1]))}

OlderPage ==
    /\ more
    /\ walk' = Page(Older) \o walk
    /\ more' = (Cardinality(Older) > PageSize)
    /\ shown' = shown \cup Limited(Older)
    /\ UNCHANGED <<rows, first, asked, cursor>>

\* The event sent before the row is committed.
BuggyHear(m) ==
    /\ at[m] # 0 /\ m \notin shown
    /\ shown' = shown \cup {m}
    /\ UNCHANGED <<rows, loaded, asked, cursor>>

\* A socket delivers m once it is stored.
Hear(m) ==
    /\ m \in stored \ shown
    /\ shown' = shown \cup {m}
    /\ UNCHANGED <<rows, loaded, asked, cursor>>

-----------------------------------------------------------------------------
(***************************************************************************)
(* The read cursor.                                                        *)
(***************************************************************************)
\* A device marks a message it shows, the newest or, if it is behind, an older
\* one.  MarkRead locates it and then updates the cursor.
MarkRead(d) ==
    /\ asked[d] = 0
    /\ \E m \in shown : asked' = [asked EXCEPT ![d] = m]
    /\ UNCHANGED <<rows, loaded, shown, cursor>>

\* The comparison left to the client.
BuggyAdvanced(m) == Pos(m)

\* advanceReadCursor's UPDATE, which never moves the cursor back.
Advanced(m) ==
    IF cursor = NeverRead \/ Before(cursor, Pos(m)) THEN Pos(m) ELSE cursor

Advance(d) ==
    /\ asked[d] # 0
    /\ cursor' = Advanced(asked[d])
    /\ asked' = [asked EXCEPT ![d] = 0]
    /\ UNCHANGED <<rows, loaded, shown>>

\* AdvanceOwnCursor after a send.  Its failure is ignored, so it may not come;
\* coming again would change nothing.
AdvanceOwn(m) ==
    /\ m \in stored \cap Own
    /\ cursor' = Advanced(m)
    /\ UNCHANGED <<rows, loaded, shown, asked>>

\* Timestamps alone compared.
BuggyUnread == Cardinality({m \in stored : cursor[1] < at[m]})

\* unreadCounts, with and without a cursor.
Unread ==
    IF cursor = NeverRead THEN Cardinality(stored)
    ELSE Cardinality({m \in stored : Before(cursor, Pos(m))})

Next ==
    \/ Tick \/ FirstPage \/ OlderPage
    \/ \E m \in Messages : Insert(m) \/ Commit(m) \/ Hear(m) \/ AdvanceOwn(m)
    \/ \E d \in Devices : MarkRead(d) \/ Advance(d)

Spec == Init /\ [][Next]_vars
=============================================================================
