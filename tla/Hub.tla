--------------------------------- MODULE Hub ---------------------------------
(***************************************************************************)
(* The in-process fan-out of apps/api/internal/chat/hub.go, with the read  *)
(* loop of the socket handlers that drain it.                              *)
(*                                                                         *)
(* Hub.mu is held for a whole Broadcast, but the channels are drained      *)
(* without it, so the loop over the subscriptions is modelled one          *)
(* subscription at a time and readers run between its iterations.          *)
(* Subscribe and Close hold the mutex for their whole body and are one     *)
(* step each, enabled while no broadcast holds it.                         *)
(*                                                                         *)
(* A Go channel is kept as everything ever sent on it plus the number of   *)
(* values received: its buffer is what lies between the two.  The i-th     *)
(* broadcast is known by i; log[i] is the group it was addressed to.       *)
(***************************************************************************)
EXTENDS Naturals, Sequences

CONSTANTS
    Groups,          \* the group ids events are broadcast to
    GroupSubs,       \* *Subscription values, each subscribed at most once
    UserSubs,        \* *UserSubscription values
    GroupOf,         \* Subscription.groupID, which never changes
    BufferSize,      \* subscriberBuffer
    MaxBroadcasts    \* bound on the number of Broadcast calls

Subs == GroupSubs \cup UserSubs

ASSUME HubAssumption ==
    /\ GroupSubs \cap UserSubs = {}
    /\ GroupOf \in [GroupSubs -> Groups]
    /\ BufferSize \in Nat \ {0}
    /\ MaxBroadcasts \in Nat

VARIABLES
    log,         \* the groups of the broadcasts that have taken the mutex
    fanning,     \* a Broadcast holds the mutex
    todo,        \* subscriptions its loops have still to visit
    registered,  \* members of Hub.groups and Hub.users
    from,        \* history: Len(log) when the subscription was made
    sent,        \* sent[s]: positions of the events sent on s.Events
    read,        \* read[s]: how many of them have been received
    closed,      \* s.Events has been closed
    reader,      \* the handler that owns s: "new", "reading", "closing", "gone"
    panicked     \* a send on, or a close of, a closed channel

vars == <<log, fanning, todo, registered, from, sent, read, closed, reader,
          panicked>>

-----------------------------------------------------------------------------
InScope(s, g) == s \in UserSubs \/ GroupOf[s] = g

\* The non-blocking send takes its default branch.
Full(s) == Len(sent[s]) - read[s] >= BufferSize

(***************************************************************************)
(* Definitions named Buggy... are plausible mistakes in the code that      *)
(* follows them.  They are no part of the specification: each shows which  *)
(* property would catch the mistake.                                       *)
(***************************************************************************)
BuggyRemoveLeavesEntry(s) ==
    /\ registered' = registered
    /\ closed' = [closed EXCEPT ![s] = TRUE]
    /\ panicked' = panicked

BuggyRemoveWithoutOnce(s) ==
    /\ registered' = registered \ {s}
    /\ closed' = [closed EXCEPT ![s] = TRUE]
    /\ panicked' = (panicked \/ closed[s])

\* removeLocked and removeUserLocked: drop the entry, then closeOnce.  The
\* Once runs its function the first time only, so no channel closes twice.
Remove(s) ==
    /\ registered' = registered \ {s}
    /\ closed' = [closed EXCEPT ![s] = TRUE]
    /\ panicked' = panicked

\* The channel send of Broadcast; Go panics if the channel is closed.
Send(s, i) ==
    /\ sent' = [sent EXCEPT ![s] = Append(@, i)]
    /\ panicked' = (panicked \/ closed[s])

Init ==
    /\ log = <<>>
    /\ fanning = FALSE
    /\ todo = {}
    /\ registered = {}
    /\ from = [s \in Subs |-> 0]
    /\ sent = [s \in Subs |-> <<>>]
    /\ read = [s \in Subs |-> 0]
    /\ closed = [s \in Subs |-> FALSE]
    /\ reader = [s \in Subs |-> "new"]
    /\ panicked = FALSE

\* Hub.Subscribe and Hub.SubscribeUser.
Subscribe(s) ==
    /\ ~fanning
    /\ reader[s] = "new"
    /\ registered' = registered \cup {s}
    /\ from' = [from EXCEPT ![s] = Len(log)]
    /\ reader' = [reader EXCEPT ![s] = "reading"]
    /\ UNCHANGED <<log, fanning, todo, sent, read, closed, panicked>>

BuggyAddresseesIgnoreGroup(g) == registered
BuggyAddresseesUnregistered(g) == {s \in Subs : InScope(s, g)}

\* The subscriptions the two loops of Broadcast range over.
Addressees(g) == {s \in registered : InScope(s, g)}

StartBroadcast(g) ==
    /\ ~fanning
    /\ Len(log) < MaxBroadcasts
    /\ fanning' = TRUE
    /\ log' = Append(log, g)
    /\ todo' = Addressees(g)
    /\ UNCHANGED <<registered, from, sent, read, closed, reader, panicked>>

\* A send that waits for room instead of dropping the connection.
BuggyOfferBlocks(s) ==
    /\ fanning
    /\ s \in todo
    /\ s \in UserSubs => todo \cap GroupSubs = {}
    /\ ~Full(s)
    /\ todo' = todo \ {s}
    /\ Send(s, Len(log))
    /\ UNCHANGED <<log, fanning, registered, from, read, closed, reader>>

\* A full channel loses the event and keeps the connection.
BuggyOfferSkips(s) ==
    /\ fanning
    /\ s \in todo
    /\ s \in UserSubs => todo \cap GroupSubs = {}
    /\ todo' = todo \ {s}
    /\ IF Full(s) THEN UNCHANGED <<sent, panicked>> ELSE Send(s, Len(log))
    /\ UNCHANGED <<log, fanning, registered, from, read, closed, reader>>

\* One iteration of Broadcast's loops: group subscriptions first, then user
\* subscriptions, each in the arbitrary order of a Go map.
Offer(s) ==
    /\ fanning
    /\ s \in todo
    /\ s \in UserSubs => todo \cap GroupSubs = {}
    /\ todo' = todo \ {s}
    /\ \/ /\ ~Full(s)
          /\ Send(s, Len(log))
          /\ UNCHANGED <<registered, closed>>
       \/ /\ Full(s)
          /\ Remove(s)
          /\ UNCHANGED sent
    /\ UNCHANGED <<log, fanning, from, read, reader>>

EndBroadcast ==
    /\ fanning
    /\ todo = {}
    /\ fanning' = FALSE
    /\ UNCHANGED <<log, todo, registered, from, sent, read, closed, reader,
                   panicked>>

-----------------------------------------------------------------------------
(***************************************************************************)
(* The handler's loop: receive and forward, or stop.  A closed channel is  *)
(* drained before the receive reports it closed.                           *)
(***************************************************************************)
Receive(s) ==
    /\ reader[s] = "reading"
    /\ read[s] < Len(sent[s])
    /\ read' = [read EXCEPT ![s] = @ + 1]
    /\ UNCHANGED <<log, fanning, todo, registered, from, sent, closed, reader,
                   panicked>>

SeeClosed(s) ==
    /\ reader[s] = "reading"
    /\ closed[s]
    /\ read[s] = Len(sent[s])
    /\ reader' = [reader EXCEPT ![s] = "closing"]
    /\ UNCHANGED <<log, fanning, todo, registered, from, sent, read, closed,
                   panicked>>

\* The request context ended, the membership re-check refused, or the write
\* failed: the handler returns with events possibly still buffered.
StopReading(s) ==
    /\ reader[s] = "reading"
    /\ reader' = [reader EXCEPT ![s] = "closing"]
    /\ UNCHANGED <<log, fanning, todo, registered, from, sent, read, closed,
                   panicked>>

\* The handler's deferred Close, which waits for the mutex and is the second
\* removal when the hub has already dropped the subscription.
Close(s) ==
    /\ ~fanning
    /\ reader[s] = "closing"
    /\ Remove(s)
    /\ reader' = [reader EXCEPT ![s] = "gone"]
    /\ UNCHANGED <<log, fanning, todo, from, sent, read>>

Next ==
    \/ \E g \in Groups : StartBroadcast(g)
    \/ EndBroadcast
    \/ \E s \in Subs :
          \/ Subscribe(s) \/ Offer(s) \/ Close(s)
          \/ Receive(s) \/ SeeClosed(s) \/ StopReading(s)

Spec == Init /\ [][Next]_vars

-----------------------------------------------------------------------------
(***************************************************************************)
(* Fairness.  The goroutine inside Broadcast never waits for anyone, so    *)
(* its loop goes on.  Nothing obliges a reader to receive: its goroutine   *)
(* may sit in a write to a stalled phone.                                  *)
(***************************************************************************)
FairSpec == Spec /\ WF_vars(EndBroadcast \/ \E s \in Subs : Offer(s))

\* The reader whose phone is not stalled: its goroutine keeps receiving and
\* runs its deferred Close.  The mutex it needs for that may be taken again and
\* again by broadcasts, hence strong fairness (Go's mutex hands the lock to a
\* waiter that has starved).
ReaderFairness(s) ==
    /\ WF_vars(Receive(s) \/ SeeClosed(s))
    /\ SF_vars(Close(s))
=============================================================================
