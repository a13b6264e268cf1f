-------------------------------- MODULE Push --------------------------------
(***************************************************************************)
(* Push notifications: push_subscriptions (push/store.go), the notifier    *)
(* with its pool of workers (push/service.go, push/notify.go) and the      *)
(* focus leases that spare a device which is looking (push/focus.go, and   *)
(* the reader of /ws/me in httpapi/ws_me.go).                              *)
(*                                                                         *)
(* The id of a subscription is the request that inserted it.  Time is a    *)
(* choice: a lease may expire, and the 15 seconds of a notification may    *)
(* be over, at any moment.                                                 *)
(***************************************************************************)
EXTENDS Naturals, FiniteSets, Sequences

CONSTANTS
    Users, Devices, Endpoints, Groups,
    MemberOf,      \* MemberOf[u]: the groups of u
    Requests,      \* HTTP requests and the notifications they set off
    MayAsk,        \* MayAsk[r]: the operations r may turn out to be
    Sockets,       \* connections to /ws/me
    Holder,        \* Holder[c]: the user and device at the other end of c
    Page,          \* Page[c]: the group shown by the page that opened c
    NoGroup,
    Slots,         \* the capacity of workerSem
    MaxFailures    \* bound on failed statements, failed sends, endpoints that
                   \* die and notifications that run out of time

Operations ==
    [kind : {"subscribe"}, user : Users, device : Devices, endpoint : Endpoints] \cup
    [kind : {"unsubscribe"}, user : Users, endpoint : Endpoints] \cup
    [kind : {"logout"}, user : Users, device : Devices] \cup
    [kind : {"message"}, user : Users, groups : {<<g>> : g \in Groups}] \cup
    [kind : {"share"}, user : Users, groups : Seq(Groups) \ {<<>>}]

NoOp == [kind |-> "none"]

Attempts == 3

ASSUME PushAssumption ==
    /\ MemberOf \in [Users -> SUBSET Groups]
    /\ MayAsk \in [Requests -> SUBSET Operations]
    /\ Holder \in [Sockets -> Users \X Devices] /\ Page \in [Sockets -> Groups]
    /\ NoGroup \notin Groups
    /\ Slots \in Nat \ {0}
    /\ MaxFailures \in Nat

VARIABLES
    op, pc, answer,
    rows,      \* push_subscriptions
    dead,      \* endpoints their push service has dropped
    group,     \* group[n]: the group n is at
    later,     \* later[n]: the groups after it
    todo,      \* todo[n]: the subscriptions listed and not yet looked at
    worker,    \* worker[n][q]: the goroutine that sends n to q
    tries,     \* tries[n][q]: its failed attempts
    reached,   \* reached[n]: the subscriptions whose push service was asked
    ended,     \* ended[n]: why the context of n is over, "no" while it is not
    lease,     \* the unexpired leases of FocusManager
    socket,    \* where the reader of a socket is
    held,      \* held[c]: lastDeviceID is set
    failures

vars == <<op, pc, answer, rows, dead, group, later, todo, worker, tries, reached,
          ended, lease, socket, held, failures>>
requests == <<op, answer>>
listing == <<group, later, todo>>
sending == <<worker, tries, reached>>
focus == <<lease, socket, held>>

\* The requests that may be notifications.
Notifications == {r \in Requests : \E o \in MayAsk[r] : o.kind \in {"message", "share"}}

Is(r, kind) == op[r].kind = kind
Notifies(r) == op[r].kind \in {"message", "share"}
Keys == Users \X Devices
Key(q) == <<op[q].user, op[q].device>>

Goto(r, label) == pc' = [pc EXCEPT ![r] = label]
Answer(r, a) == /\ Goto(r, "done")
                /\ answer' = [answer EXCEPT ![r] = a]

Fails == failures < MaxFailures /\ failures' = failures + 1

Init ==
    /\ op = [r \in Requests |-> NoOp]
    /\ pc = [r \in Requests |-> "idle"]
    /\ answer = [r \in Requests |-> "none"]
    /\ rows = {}
    /\ dead = {}
    /\ group = [r \in Requests |-> NoGroup]
    /\ later = [r \in Requests |-> <<>>]
    /\ todo = [r \in Requests |-> {}]
    /\ worker = [n \in Requests |-> [q \in Requests |-> "none"]]
    /\ tries = [n \in Requests |-> [q \in Requests |-> 0]]
    /\ reached = [r \in Requests |-> {}]
    /\ ended = [r \in Requests |-> "no"]
    /\ lease = [k \in Keys |-> NoGroup]
    /\ socket = [c \in Sockets |-> "new"]
    /\ held = [c \in Sockets |-> FALSE]
    /\ failures = 0

\* A notification's caller goes on at once; only its goroutine is left.
First(o) == CASE o.kind = "subscribe" -> "cleanup"
              [] o.kind \in {"unsubscribe", "logout"} -> "remove"
              [] OTHER -> "list"

Begin(r) ==
    /\ pc[r] = "idle"
    /\ \E o \in MayAsk[r] :
          /\ op' = [op EXCEPT ![r] = o]
          /\ Goto(r, First(o))
          /\ later' = [later EXCEPT ![r] =
                IF o.kind \in {"message", "share"} THEN o.groups ELSE <<>>]
    /\ UNCHANGED <<answer, rows, dead, group, todo, sending, ended, focus, failures>>

-----------------------------------------------------------------------------
(***************************************************************************)
(* Subscriptions.                                                          *)
(***************************************************************************)
\* The unique keys of the table: the endpoint, and the device of a user.
Conflicts(q, r) == op[q].endpoint = op[r].endpoint \/ Key(q) = Key(r)

\* Upsert: the DELETE ...
Cleanup(r) ==
    /\ pc[r] = "cleanup"
    /\ rows' = {q \in rows : ~Conflicts(q, r)}
    /\ Goto(r, "insert")
    /\ UNCHANGED <<requests, dead, listing, sending, ended, focus, failures>>

\* ... and the INSERT, a statement of its own.
Insert(r) ==
    /\ pc[r] = "insert"
    /\ IF \E q \in rows : Conflicts(q, r)
       THEN /\ Answer(r, "error") /\ UNCHANGED rows
       ELSE /\ Answer(r, "ok") /\ rows' = rows \cup {r}
    /\ UNCHANGED <<op, dead, listing, sending, ended, focus, failures>>

\* What DeleteByEndpoint and DeleteByDevice delete.
Asked(r, q) ==
    IF Is(r, "logout") THEN Key(q) = <<op[r].user, op[r].device>>
    ELSE op[q].user = op[r].user /\ op[q].endpoint = op[r].endpoint

Remove(r) ==
    /\ pc[r] = "remove"
    /\ rows' = {q \in rows : ~Asked(r, q)}
    /\ Answer(r, "ok")
    /\ UNCHANGED <<op, dead, listing, sending, ended, focus, failures>>

\* A statement fails or the client hangs up before it; logout goes on.
BreakOff(r) ==
    /\ pc[r] \in {"cleanup", "insert", "remove"}
    /\ Fails
    /\ Answer(r, IF Is(r, "logout") THEN "ok" ELSE "error")
    /\ UNCHANGED <<op, rows, dead, listing, sending, ended, focus>>

Die(e) ==
    /\ e \notin dead
    /\ Fails
    /\ dead' = dead \cup {e}
    /\ UNCHANGED <<requests, pc, rows, listing, sending, ended, focus>>

-----------------------------------------------------------------------------
(***************************************************************************)
(* The goroutine of NotifyGroup and of NotifyMealShare.                    *)
(***************************************************************************)
\* ListByGroupEligible for the next group.
List(n) ==
    /\ pc[n] = "list" /\ ended[n] = "no"
    /\ group' = [group EXCEPT ![n] = Head(later[n])]
    /\ later' = [later EXCEPT ![n] = Tail(later[n])]
    /\ todo' = [todo EXCEPT ![n] =
          {q \in rows : group'[n] \in MemberOf[op[q].user] /\ op[q].user # op[n].user}]
    /\ Goto(n, "consider")
    /\ UNCHANGED <<requests, rows, dead, sending, ended, focus, failures>>

\* A message is given up when its list fails, a share goes on with its next group.
ListFails(n) ==
    /\ pc[n] = "list"
    /\ IF ended[n] = "no" THEN Fails ELSE UNCHANGED failures
    /\ later' = [later EXCEPT ![n] = Tail(later[n])]
    /\ Goto(n, IF Is(n, "share") THEN "consider" ELSE "send")
    /\ UNCHANGED <<requests, rows, dead, group, todo, sending, ended, focus>>

\* The subscriptions n is sent to, or is going to be.
Targets(n) == {q \in Requests : worker[n][q] # "none"}

Focused(q, g) == lease[Key(q)] = g

\* Deduplicated by subscription instead of by device.
BuggySeen(n, q) == q \in Targets(n)

\* seenDevices.
Seen(n, q) == \E p \in Targets(n) : op[p].device = op[q].device

\* A subscription is skipped or gets its goroutine, or its place in targetSubs.
Consider(n, q) ==
    /\ pc[n] = "consider" /\ q \in todo[n]
    /\ todo' = [todo EXCEPT ![n] = @ \ {q}]
    /\ worker' = IF Focused(q, group[n]) \/ (Is(n, "share") /\ Seen(n, q)) THEN worker
                 ELSE [worker EXCEPT ![n][q] = "queued"]
    /\ UNCHANGED <<requests, pc, rows, dead, group, later, tries, reached, ended,
                   focus, failures>>

Considered(n) ==
    /\ pc[n] = "consider" /\ todo[n] = {}
    /\ Goto(n, IF later[n] = <<>> THEN "send" ELSE "list")
    /\ UNCHANGED <<requests, rows, dead, listing, sending, ended, focus, failures>>

\* The context cancelled by a goroutine that does not wait for its workers.
BuggyMayReturn(n) == \A q \in Targets(n) : worker[n][q] # "queued"

\* NotifyGroup waits for its workers.  NotifyMealShare returns when it has
\* started the last one.
MayReturn(n) ==
    \A q \in Targets(n) :
       worker[n][q] = "done" \/ (Is(n, "share") /\ worker[n][q] # "queued")

\* The deferred cancel ends the context.
Return(n) ==
    /\ pc[n] = "send" /\ MayReturn(n)
    /\ ended' = [ended EXCEPT ![n] = IF @ = "no" THEN "returned" ELSE @]
    /\ Answer(n, "ok")
    /\ UNCHANGED <<op, rows, dead, listing, sending, focus, failures>>

\* Its timeout does so earlier.
Timeout(n) ==
    /\ Notifies(n) /\ ended[n] = "no"
    /\ Fails
    /\ ended' = [ended EXCEPT ![n] = "timeout"]
    /\ UNCHANGED <<requests, pc, rows, dead, listing, sending, focus>>

-----------------------------------------------------------------------------
(***************************************************************************)
(* Workers and sendOne.                                                    *)
(***************************************************************************)
Busy == {x \in Requests \X Requests : worker[x[1]][x[2]] \in {"sending", "pruning"}}

\* The slot of a worker that prunes is not given back.
BuggyHasSlot ==
    Cardinality({x \in Requests \X Requests :
        \/ worker[x[1]][x[2]] \in {"sending", "pruning"}
        \/ worker[x[1]][x[2]] = "done" /\ op[x[2]].endpoint \in dead}) < Slots

HasSlot == Cardinality(Busy) < Slots

\* Workers started without the semaphore.
BuggyAcquire(n, q) ==
    /\ worker[n][q] = "queued"
    /\ Is(n, "share") => pc[n] = "send"
    /\ worker' = [worker EXCEPT ![n][q] = "sending"]
    /\ UNCHANGED <<requests, pc, rows, dead, listing, tries, reached, ended, focus, failures>>

\* A message's workers wait for a slot themselves; for a share's, its loop does.
Acquire(n, q) ==
    /\ worker[n][q] = "queued"
    /\ Is(n, "share") => pc[n] = "send"
    /\ HasSlot
    /\ worker' = [worker EXCEPT ![n][q] = "sending"]
    /\ UNCHANGED <<requests, pc, rows, dead, listing, tries, reached, ended, focus, failures>>

Retry(n, q) ==
    /\ tries' = [tries EXCEPT ![n][q] = @ + 1]
    /\ worker' = IF tries'[n][q] < Attempts THEN worker
                 ELSE [worker EXCEPT ![n][q] = "done"]

\* An attempt after the context ended reaches nobody.  One that reaches the
\* push service is over with any answer but 404 and 410, which lead to the
\* removal of the row, and 429 and 5xx, which are tried again, as is an attempt
\* whose answer does not come.
Attempt(n, q) ==
    /\ worker[n][q] = "sending"
    /\ IF ended[n] # "no"
       THEN Retry(n, q) /\ UNCHANGED <<reached, failures>>
       ELSE /\ reached' = [reached EXCEPT ![n] = @ \cup {q}]
            /\ \/ /\ worker' = [worker EXCEPT ![n][q] =
                        IF op[q].endpoint \in dead THEN "pruning" ELSE "done"]
                  /\ UNCHANGED <<tries, failures>>
               \/ Retry(n, q) /\ Fails
    /\ UNCHANGED <<requests, pc, rows, dead, listing, ended, focus>>

\* Deleted by user and device instead of by id.
BuggyPruned(q) == {p \in rows : Key(p) = Key(q)}

Pruned(q) == {q}

\* DeleteByID, with the context of the notification; nobody looks whether it fails.
Prune(n, q) ==
    /\ worker[n][q] = "pruning"
    /\ rows' = rows \/ (ended[n] = "no" /\ rows' = rows \ Pruned(q))
    /\ worker' = [worker EXCEPT ![n][q] = "done"]
    /\ UNCHANGED <<requests, pc, dead, listing, tries, reached, ended, focus, failures>>

-----------------------------------------------------------------------------
(***************************************************************************)
(* Focus leases and the readers of the sockets.                            *)
(***************************************************************************)
Open(c) ==
    /\ socket[c] = "new"
    /\ socket' = [socket EXCEPT ![c] = "reading"]
    /\ UNCHANGED <<requests, pc, rows, dead, listing, sending, ended, lease, held, failures>>

\* "focus": the device is remembered and the membership looked up, which may fail ...
Focus(c) ==
    /\ socket[c] = "reading"
    /\ held' = [held EXCEPT ![c] = TRUE]
    /\ \/ Page[c] \in MemberOf[Holder[c][1]] /\ socket' = [socket EXCEPT ![c] = "renewing"]
       \/ UNCHANGED socket
    /\ UNCHANGED <<requests, pc, rows, dead, listing, sending, ended, lease, failures>>

\* ... before RenewLease.
Renew(c) ==
    /\ socket[c] = "renewing"
    /\ lease' = [lease EXCEPT ![Holder[c]] = Page[c]]
    /\ socket' = [socket EXCEPT ![c] = "reading"]
    /\ UNCHANGED <<requests, pc, rows, dead, listing, sending, ended, held, failures>>

Blur(c) ==
    /\ socket[c] = "reading"
    /\ lease' = [lease EXCEPT ![Holder[c]] = NoGroup]
    /\ UNCHANGED <<requests, pc, rows, dead, listing, sending, ended, socket, held, failures>>

\* The lease left to expire.
BuggyHangUp(c) ==
    /\ socket[c] = "reading"
    /\ socket' = [socket EXCEPT ![c] = "closed"]
    /\ UNCHANGED <<requests, pc, rows, dead, listing, sending, ended, lease, held, failures>>

\* The read fails: the lease of the socket's device goes, whoever renewed it.
HangUp(c) ==
    /\ socket[c] = "reading"
    /\ socket' = [socket EXCEPT ![c] = "closed"]
    /\ lease' = IF held[c] THEN [lease EXCEPT ![Holder[c]] = NoGroup] ELSE lease
    /\ UNCHANGED <<requests, pc, rows, dead, listing, sending, ended, held, failures>>

Expire(k) ==
    /\ lease[k] # NoGroup
    /\ lease' = [lease EXCEPT ![k] = NoGroup]
    /\ UNCHANGED <<requests, pc, rows, dead, listing, sending, ended, socket, held, failures>>

-----------------------------------------------------------------------------
Notifier(n) == List(n) \/ ListFails(n) \/ Considered(n) \/ Return(n)
               \/ \E q \in Requests : Consider(n, q)

Send(n) == \E q \in Requests : Attempt(n, q) \/ Prune(n, q)

Next ==
    \/ \E r \in Requests : Begin(r) \/ Cleanup(r) \/ Insert(r) \/ Remove(r) \/ BreakOff(r)
    \/ \E n \in Requests : Notifier(n) \/ Timeout(n) \/ Send(n)
    \/ \E n, q \in Requests : Acquire(n, q)
    \/ \E e \in Endpoints : Die(e)
    \/ \E c \in Sockets : Open(c) \/ Focus(c) \/ Renew(c) \/ Blur(c) \/ HangUp(c)
    \/ \E k \in Keys : Expire(k)

Spec == Init /\ [][Next]_vars

\* Goroutines run on, a request to a push service ends within the client's 10
\* seconds, and a semaphore's channel serves those who wait for it in turn.
FairSpec ==
    /\ Spec
    /\ \A n \in Notifications :
          WF_vars(Notifier(n)) /\ WF_vars(Send(n)) /\ SF_vars(\E q \in Requests : Acquire(n, q))
=============================================================================
