-------------------------------- MODULE Feed --------------------------------
(***************************************************************************)
(* What the chat hub promises to one connection, and nothing about how.    *)
(*                                                                         *)
(* The events a hub is asked to broadcast form one log.  A connection that *)
(* joins hears every later event of its scope, one after the other, in the *)
(* order of the log and without skipping any, until it leaves.  It may     *)
(* leave at any moment (it hung up, or it was too slow and was dropped),   *)
(* but while it is joined the only thing it can hear is the next event.    *)
(***************************************************************************)
EXTENDS Naturals, Sequences

CONSTANTS
    Groups,      \* the group ids events are broadcast to
    GroupSubs,   \* subscriptions to one group (chat.Subscription)
    UserSubs,    \* subscriptions to every group (chat.UserSubscription)
    GroupOf      \* the group of each member of GroupSubs

Subs == GroupSubs \cup UserSubs

VARIABLES
    log,     \* log[i] is the group the i-th broadcast was addressed to
    status,  \* status[s]: "new", "joined" or "left"
    heard    \* heard[s]: the position in log up to which s has been served

vars == <<log, status, heard>>

\* A group subscription is offered its own group's events, a user
\* subscription those of every group.
InScope(s, g) == s \in UserSubs \/ GroupOf[s] = g

\* Position i holds the first event of s's scope after position p.
IsNextFor(s, p, i) ==
    /\ i \in (p + 1)..Len(log)
    /\ InScope(s, log[i])
    /\ \A k \in (p + 1)..(i - 1) : ~InScope(s, log[k])

Init ==
    /\ log = <<>>
    /\ status = [s \in Subs |-> "new"]
    /\ heard = [s \in Subs |-> 0]

Publish(g) ==
    /\ log' = Append(log, g)
    /\ UNCHANGED <<status, heard>>

Join(s) ==
    /\ status[s] = "new"
    /\ status' = [status EXCEPT ![s] = "joined"]
    /\ heard' = [heard EXCEPT ![s] = Len(log)]
    /\ UNCHANGED log

Hear(s) ==
    /\ status[s] = "joined"
    /\ \E i \in (heard[s] + 1)..Len(log) :
          /\ IsNextFor(s, heard[s], i)
          /\ heard' = [heard EXCEPT ![s] = i]
    /\ UNCHANGED <<log, status>>

Leave(s) ==
    /\ status[s] = "joined"
    /\ status' = [status EXCEPT ![s] = "left"]
    /\ UNCHANGED <<log, heard>>

Next ==
    \/ \E g \in Groups : Publish(g)
    \/ \E s \in Subs : Join(s) \/ Hear(s) \/ Leave(s)

Spec == Init /\ [][Next]_vars
=============================================================================
