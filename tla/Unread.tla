-------------------------------- MODULE Unread --------------------------------
(***************************************************************************)
(* The unread counts a browser tab keeps (lib/unread.ts, the provider in   *)
(* components/unread-provider.tsx, the events of                           *)
(* components/notification-banner.tsx): counts fetched from the API,       *)
(* messages heard meanwhile and answers to mark-read requests, each of     *)
(* which may be older than what the tab knows already.                     *)
(*                                                                         *)
(* The operators on a state are the pure functions of unread.ts.           *)
(***************************************************************************)
EXTENDS Naturals, Sequences, FiniteSets, SequencesExt

CONSTANTS
    Groups,
    MaxMessages,   \* bounds: messages of a group,
    MaxRefreshes,  \* fetches of the groups,
    MaxReads,      \* mark-read requests,
    MaxChanges     \* groups created, pins changed and counts that fail

ASSUME UnreadAssumption ==
    {MaxMessages, MaxRefreshes, MaxReads, MaxChanges} \subseteq Nat

VARIABLES
    total,         \* messages of the others, on the server
    cursor,        \* how far they are read there
    ours,          \* the groups the server lists
    events,        \* events[g]: how far the tab's sockets have got
    identity,      \* asked, known or failed: who the tab's user is
    queue,         \* events that came before the answer to that
    state,         \* UnreadState
    refresh,       \* the fetches, by request id
    read,          \* the mark-read requests
    counted,       \* history: the messages the tab has counted, and was not told
                   \* to forget by an answer without counts
    changes

server == <<total, cursor, ours>>
socket == <<events, identity, queue>>
vars == <<server, socket, state, refresh, read, counted, changes>>

NoOverride == [revision |-> 0, count |-> 0]

\* createUnreadState.  groups is empty until the first answer, loaded says which.
CreateUnreadState ==
    [loaded |-> FALSE, groups |-> {}, count |-> [g \in Groups |-> 0],
     revision |-> 0, groupRevision |-> [g \in Groups |-> 0],
     overrides |-> [g \in Groups |-> NoOverride], pending |-> [g \in Groups |-> 0]]

Init ==
    /\ total = [g \in Groups |-> 0] /\ cursor = [g \in Groups |-> 0]
    /\ \E S \in SUBSET Groups : ours = S
    /\ events = [g \in Groups |-> 0] /\ identity = "asked" /\ queue = <<>>
    /\ state = CreateUnreadState
    /\ refresh = <<>> /\ read = <<>>
    /\ counted = [g \in Groups |-> {}] /\ changes = 0

-----------------------------------------------------------------------------
(***************************************************************************)
(* unread.ts.                                                              *)
(***************************************************************************)
Overridden(s, g) == s.overrides[g].revision # 0
Known(s, g) == Overridden(s, g) \/ g \in s.groups
CountOf(s, g) == IF Overridden(s, g) THEN s.overrides[g].count ELSE s.count[g]

\* A local change: a new revision, which refreshes started before will respect.
Mutate(s, g, n) ==
    [s EXCEPT !.revision = @ + 1,
              !.groupRevision[g] = @ + 1,
              !.count[g] = n,
              !.overrides[g] = [revision |-> s.revision + 1, count |-> n]]

\* recordGroupMessage.
Record(s, g) ==
    IF Known(s, g) THEN Mutate(s, g, CountOf(s, g) + 1)
    ELSE IF s.loaded THEN s
    ELSE [s EXCEPT !.revision = @ + 1, !.groupRevision[g] = @ + 1, !.pending[g] = @ + 1]

\* applyGroupReadResult.
ApplyRead(s, g, n) == [Mutate(s, g, n) EXCEPT !.pending[g] = 0]

\* addGroupToUnreadState.
AddGroup(s, g) == [Mutate(s, g, 0) EXCEPT !.loaded = TRUE, !.groups = @ \cup {g}]

\* updateGroupPinnedInUnreadState keeps the count.
SetPinned(s, g) == Mutate(s, g, CountOf(s, g))

\* applyUnreadRefresh, for the newest request: local changes since it started
\* come before what it brings, and messages heard before any answer are added.
ApplyRefresh(s, r) ==
    LET stale == s.revision # r.revision
        local == {g \in Groups : s.overrides[g].revision > r.revision}
        groups == r.listed \cup local
        due == {g \in groups : s.pending[g] > 0}
        count == [g \in Groups |->
                    (IF g \in local THEN s.overrides[g].count ELSE r.count[g]) +
                    (IF g \in due THEN s.pending[g] ELSE 0)]
    IN  [s EXCEPT
           !.loaded = TRUE, !.groups = groups, !.count = count,
           !.overrides = [g \in Groups |->
              IF stale /\ g \in due THEN [revision |-> s.revision, count |-> count[g]]
              ELSE IF g \in local THEN s.overrides[g] ELSE NoOverride],
           !.pending = [g \in Groups |-> IF g \in due THEN 0 ELSE s.pending[g]]]

\* The events of q, one after the other.
RecordAll(s, q) ==
    LET after[n \in 0..Len(q)] ==
            IF n = 0 THEN s ELSE Record(after[n - 1], q[n][1])
    IN  after[Len(q)]

-----------------------------------------------------------------------------
(***************************************************************************)
(* The server, and what is done on other devices.                          *)
(***************************************************************************)
Say(g) ==
    /\ g \in ours /\ total[g] < MaxMessages
    /\ total' = [total EXCEPT ![g] = @ + 1]
    /\ UNCHANGED <<cursor, ours, socket, state, refresh, read, counted, changes>>

ReadElsewhere(g) ==
    /\ cursor[g] < total[g]
    /\ cursor' = [cursor EXCEPT ![g] = total[g]]
    /\ UNCHANGED <<total, ours, socket, state, refresh, read, counted, changes>>

\* attachUnreadCounts, which leaves the counts at zero when it fails.
Unseen(g, upTo, fails) == IF fails THEN 0 ELSE total[g] - upTo

CountsFail(fails) == IF fails THEN changes < MaxChanges /\ changes' = changes + 1
                     ELSE UNCHANGED changes

-----------------------------------------------------------------------------
(***************************************************************************)
(* Events.                                                                 *)
(***************************************************************************)
Count(g, m) ==
    /\ state' = Record(state, g)
    /\ counted' = [counted EXCEPT ![g] = IF state' = state THEN @ ELSE @ \cup {m}]

\* A message is heard, in the order of its group; those before it that were not
\* heard are lost, with a socket that was down or about to be rebuilt, or were
\* read in the open room.
Hear(g) ==
    /\ \E m \in events[g] + 1..total[g] :
          /\ events' = [events EXCEPT ![g] = m]
          /\ CASE identity = "known" -> Count(g, m) /\ UNCHANGED queue
               [] identity = "asked" -> /\ queue' = Append(queue, <<g, m>>)
                                        /\ UNCHANGED <<state, counted>>
               [] OTHER -> UNCHANGED <<queue, state, counted>>
    /\ UNCHANGED <<server, identity, refresh, read, changes>>

\* The user is known: what was queued is counted in one update.
Identify ==
    /\ identity = "asked"
    /\ identity' = "known" /\ queue' = <<>>
    /\ state' = RecordAll(state, queue)
    /\ counted' = [g \in Groups |-> counted[g] \cup
          {m \in 1..total[g] : <<g, m>> \in ToSet(queue) /\ (~state.loaded \/ Known(state, g))}]
    /\ UNCHANGED <<server, events, refresh, read, changes>>

IdentityFails ==
    /\ identity = "asked"
    /\ identity' = "failed" /\ queue' = <<>>
    /\ UNCHANGED <<server, events, state, refresh, read, counted, changes>>

-----------------------------------------------------------------------------
(***************************************************************************)
(* GET /groups.                                                            *)
(***************************************************************************)
Refresh ==
    /\ Len(refresh) < MaxRefreshes
    /\ refresh' = Append(refresh, [at |-> "asked", revision |-> state.revision,
                                   listed |-> {}, blind |-> FALSE,
                                   count |-> [g \in Groups |-> 0]])
    /\ UNCHANGED <<server, socket, state, read, counted, changes>>

ServeRefresh(i) ==
    /\ refresh[i].at = "asked"
    /\ \E fails \in BOOLEAN :
          /\ CountsFail(fails)
          /\ refresh' = [refresh EXCEPT
                ![i].at = "served", ![i].listed = ours, ![i].blind = fails,
                ![i].count = [g \in Groups |-> Unseen(g, cursor[g], fails)]]
    /\ UNCHANGED <<server, socket, state, read, counted>>

\* Any answer applied, in whatever order they come.
BuggyNewest(i) == TRUE

Newest(i) == i = Len(refresh)

\* An answer is applied, or is too old or none.
RefreshArrives(i) ==
    /\ refresh[i].at = "served"
    /\ refresh' = [refresh EXCEPT ![i].at = "done"]
    /\ state' = IF Newest(i) THEN ApplyRefresh(state, refresh[i]) ELSE state
    /\ counted' = [g \in Groups |->
          IF Newest(i) /\ refresh[i].blind /\ state'.count[g] = 0 THEN {} ELSE counted[g]]
    /\ UNCHANGED <<server, socket, read, changes>>

RefreshFails(i) ==
    /\ refresh[i].at \in {"asked", "served"}
    /\ refresh' = [refresh EXCEPT ![i].at = "done"]
    /\ UNCHANGED <<server, socket, state, read, counted, changes>>

-----------------------------------------------------------------------------
(***************************************************************************)
(* POST /groups/{id}/read.                                                 *)
(***************************************************************************)
\* markGroupRead, of a message the room shows.
MarkRead(g) ==
    /\ Len(read) < MaxReads
    /\ \E m \in 1..total[g] :
          read' = Append(read, [at |-> "asked", group |-> g, message |-> m, count |-> 0,
                                blind |-> FALSE,
                                revision |-> state.groupRevision[g]])
    /\ UNCHANGED <<server, socket, state, refresh, counted, changes>>

ServeRead(i) ==
    LET g == read[i].group
        m == read[i].message
    IN  /\ read[i].at = "asked"
        /\ cursor' = [cursor EXCEPT ![g] = IF m > @ THEN m ELSE @]
        /\ \E fails \in BOOLEAN :
              /\ CountsFail(fails)
              /\ read' = [read EXCEPT ![i].at = "served", ![i].blind = fails,
                                      ![i].count = Unseen(g, cursor'[g], fails)]
        /\ UNCHANGED <<total, ours, socket, state, refresh, counted>>

\* No later request for the group, and no change since this one started.
ReadIsCurrent(i) ==
    /\ \A j \in i + 1..Len(read) : read[j].group # read[i].group
    /\ state.groupRevision[read[i].group] = read[i].revision

ReadArrives(i) ==
    /\ read[i].at = "served"
    /\ read' = [read EXCEPT ![i].at = "done"]
    /\ state' = IF ReadIsCurrent(i) THEN ApplyRead(state, read[i].group, read[i].count)
                ELSE state
    /\ counted' = [counted EXCEPT ![read[i].group] =
          IF read[i].blind /\ ReadIsCurrent(i) THEN {} ELSE @]
    /\ UNCHANGED <<server, socket, refresh, changes>>

\* The room restores the badge, unless something newer has arrived.
ReadFails(i) ==
    /\ read[i].at \in {"asked", "served"}
    /\ read' = [read EXCEPT ![i].at = "done"]
    /\ Count(read[i].group, read[i].message) \/ UNCHANGED <<state, counted>>
    /\ UNCHANGED <<server, socket, refresh, changes>>

-----------------------------------------------------------------------------
\* A group is created, or joined, on this device.
Create(g) ==
    /\ g \notin ours /\ changes < MaxChanges
    /\ changes' = changes + 1
    /\ ours' = ours \cup {g}
    /\ state' = AddGroup(state, g)
    /\ UNCHANGED <<total, cursor, socket, refresh, read, counted>>

Pin(g) ==
    /\ Known(state, g) /\ changes < MaxChanges
    /\ changes' = changes + 1
    /\ state' = SetPinned(state, g)
    /\ UNCHANGED <<server, socket, refresh, read, counted>>

Next ==
    \/ Refresh \/ Identify \/ IdentityFails
    \/ \E g \in Groups : \/ Say(g) \/ ReadElsewhere(g) \/ Hear(g)
                         \/ MarkRead(g) \/ Create(g) \/ Pin(g)
    \/ \E i \in 1..Len(refresh) : ServeRefresh(i) \/ RefreshArrives(i) \/ RefreshFails(i)
    \/ \E i \in 1..Len(read) : ServeRead(i) \/ ReadArrives(i) \/ ReadFails(i)

Spec == Init /\ [][Next]_vars
=============================================================================
