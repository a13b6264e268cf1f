-------------------------------- MODULE Chat --------------------------------
(***************************************************************************)
(* The chat service of apps/api/internal/chat (chat.go and store.go): what *)
(* concurrent HTTP requests do to the message and reaction tables and what *)
(* they hand to the hub, the read cursors and push.                        *)
(*                                                                         *)
(* A request is a process that runs one service call as the sequence of    *)
(* its SQL statements and calls; everything else may happen between two of *)
(* them.  PostgreSQL runs each statement of its own (READ COMMITTED, no    *)
(* transaction around them).  A statement that only inserts or updates one *)
(* row is one step.  The two statements that read one table to write       *)
(* another are two steps, the snapshot they read and their effect: the row *)
(* locks they take do not conflict (FOR KEY SHARE of the foreign key,      *)
(* FOR NO KEY UPDATE of the tombstone), so they do overlap.                *)
(*                                                                         *)
(* A message row is known by the request that inserted it, and its columns *)
(* are that request's fields; the same for a reaction row.  One reaction   *)
(* type stands for all: the primary key keeps types apart.                 *)
(***************************************************************************)
EXTENDS Naturals, Sequences

CONSTANTS
    Users,
    Groups,
    Keys,          \* values of client_message_id
    Meals,
    Requests,      \* the service calls of a run
    MayAsk,        \* MayAsk[r]: the operations request r may turn out to be
    FirstMembers,  \* <<user, group>> pairs that belong at the start
    Leavers,       \* those of them that may leave
    MaxFailures    \* bound on the number of statements that fail

\* Service.Send, AnnounceMeal, Delete, React and Unreact with their arguments.
Operations ==
    [kind : {"send"}, user : Users, group : Groups, key : Keys] \cup
    [kind : {"meal"}, user : Users, group : Groups, meal : Meals] \cup
    [kind : {"delete", "react", "unreact"}, user : Users, target : Requests]

ASSUME ChatAssumption ==
    /\ MayAsk \in [Requests -> SUBSET Operations]
    /\ FirstMembers \subseteq Users \X Groups
    /\ Leavers \subseteq FirstMembers
    /\ MaxFailures \in Nat

NoOp == [kind |-> "none"]

VARIABLES
    members,    \* group_members, which the group domain owns
    op,         \* op[r]: what r was asked, NoOp before it starts
    pc,         \* what r does next
    row,        \* row[r]: the message r inserted: "none", "live", "deleted"
    reactions,  \* the react requests whose row is in message_reactions
    found,      \* found[r]: the message id r's insert or its fallback returned
    seen,       \* seen[r]: the state of its message as r last read it
    snap,       \* snap[r]: the reaction rows visible to r's delete statement
    log,        \* the events handed to Hub.Broadcast, in that order
    advanced,   \* messages whose sender's own read cursor was advanced
    pushed,     \* messages handed to the push notifier
    answer,     \* what r's caller was told: "none", "ok", "refused", "error"
    outsiders,  \* history: requests begun by a user outside the group
    failures

tables == <<members, row, reactions>>
locals == <<found, seen, snap>>
outputs == <<log, advanced, pushed>>
vars == <<members, op, pc, row, reactions, found, seen, snap, log, advanced,
          pushed, answer, outsiders, failures>>

-----------------------------------------------------------------------------
Is(r, kind) == op[r].kind = kind

Stored(m) == row[m] # "none"

\* The unique constraint (user_id, client_message_id).
SameKey(q, r) == Is(q, "send") /\ op[q].user = op[r].user /\ op[q].key = op[r].key

\* The partial unique index on live meal cards of a group.
SameCard(q, r) ==
    Is(q, "meal") /\ op[q].group = op[r].group /\ op[q].meal = op[r].meal

\* The primary key of message_reactions.
SameReaction(q, r) == op[q].target = op[r].target /\ op[q].user = op[r].user

Goto(r, label) ==
    /\ pc' = [pc EXCEPT ![r] = label]
    /\ UNCHANGED answer

Return(r, a) ==
    /\ pc' = [pc EXCEPT ![r] = "done"]
    /\ answer' = [answer EXCEPT ![r] = a]

(***************************************************************************)
(* Definitions named Buggy... are plausible mistakes in the code that      *)
(* follows them.  They are no part of the specification: each shows which  *)
(* property would catch the mistake.                                       *)
(***************************************************************************)
BuggyEvent(kind, m, shows) == [kind |-> kind, id |-> shows, shows |-> m]

Event(kind, m, shows) == [kind |-> kind, id |-> m, shows |-> shows]

Broadcast(e) == log' = Append(log, e)

Init ==
    /\ members = FirstMembers
    /\ op = [r \in Requests |-> NoOp]
    /\ pc = [r \in Requests |-> "idle"]
    /\ row = [r \in Requests |-> "none"]
    /\ reactions = {}
    /\ found = [r \in Requests |-> r]
    /\ seen = [r \in Requests |-> "none"]
    /\ snap = [r \in Requests |-> {}]
    /\ log = <<>>
    /\ advanced = {}
    /\ pushed = {}
    /\ answer = [r \in Requests |-> "none"]
    /\ outsiders = {}
    /\ failures = 0

\* o acts on a group its user does not belong to.
Outside(o) ==
    CASE o.kind = "send" -> <<o.user, o.group>> \notin members
      [] o.kind = "meal" -> FALSE
      [] OTHER -> /\ op[o.target] # NoOp
                  /\ op[o.target].kind \in {"send", "meal"}
                  /\ <<o.user, op[o.target].group>> \notin members

\* The handler calls the service.
Begin(r) ==
    /\ pc[r] = "idle"
    /\ \E o \in MayAsk[r] :
          /\ op' = [op EXCEPT ![r] = o]
          /\ outsiders' = IF Outside(o) THEN outsiders \cup {r} ELSE outsiders
          /\ Goto(r, IF o.kind = "meal" THEN "insert" ELSE "check")
    /\ UNCHANGED <<tables, locals, outputs, failures>>

\* Leaving the group, in the group domain.
Leave(u, g) ==
    /\ members' = members \ {<<u, g>>}
    /\ UNCHANGED <<op, pc, row, reactions, locals, outputs, answer, outsiders,
                   failures>>

-----------------------------------------------------------------------------
(***************************************************************************)
(* Send.  The check is membership and then the validation of the content,  *)
(* the attachment and the parent, none of which writes anything: any of    *)
(* them may refuse.                                                        *)
(***************************************************************************)
BuggySendCheck(r) ==
    /\ Is(r, "send") /\ pc[r] = "check"
    /\ \/ /\ <<op[r].user, op[r].group>> \in members
          /\ Goto(r, "announce")
       \/ Return(r, "refused")
    /\ UNCHANGED <<op, tables, locals, outputs, outsiders, failures>>

SendCheck(r) ==
    /\ Is(r, "send") /\ pc[r] = "check"
    /\ \/ /\ <<op[r].user, op[r].group>> \in members
          /\ Goto(r, "insert")
       \/ Return(r, "refused")
    /\ UNCHANGED <<op, tables, locals, outputs, outsiders, failures>>

BuggyKeyTaken(r) == FALSE

\* insertOrGet's ON CONFLICT (user_id, client_message_id).
KeyTaken(r) == \E q \in Requests : Stored(q) /\ SameKey(q, r)

BuggyCardTaken(r) == \E q \in Requests : row[q] = "deleted" /\ SameCard(q, r)

\* insertMeal's ON CONFLICT, whose index covers live cards only.
CardTaken(r) == \E q \in Requests : row[q] = "live" /\ SameCard(q, r)

\* The INSERT of insertOrGet or insertMeal: a new row with an id of its own,
\* or DO NOTHING.
Insert(r) ==
    /\ pc[r] = "insert"
    /\ LET taken == IF Is(r, "send") THEN KeyTaken(r) ELSE CardTaken(r) IN
       \/ /\ ~taken
          /\ row' = [row EXCEPT ![r] = "live"]
          /\ found' = [found EXCEPT ![r] = r]
          /\ Goto(r, "get")
       \/ /\ taken
          /\ Goto(r, "find")
          /\ UNCHANGED <<row, found>>
    /\ UNCHANGED <<op, members, reactions, seen, snap, outputs, outsiders, failures>>

\* The SELECT by client_message_id when the insert did nothing.
Find(r) ==
    /\ Is(r, "send") /\ pc[r] = "find"
    /\ \E q \in Requests :
          /\ Stored(q) /\ SameKey(q, r)
          /\ found' = [found EXCEPT ![r] = q]
    /\ Goto(r, "get")
    /\ UNCHANGED <<op, tables, seen, snap, outputs, outsiders, failures>>

\* insertMeal's SELECT of the live card.  The card may have been deleted since
\* the insert met it, and then there is none: an error.
FindCard(r) ==
    /\ Is(r, "meal") /\ pc[r] = "find"
    /\ \/ \E q \in Requests :
             /\ row[q] = "live" /\ SameCard(q, r)
             /\ found' = [found EXCEPT ![r] = q]
             /\ Return(r, "ok")
       \/ /\ ~CardTaken(r)
          /\ Return(r, "error")
          /\ UNCHANGED found
    /\ UNCHANGED <<op, tables, seen, snap, outputs, outsiders, failures>>

BuggyIsNew(r) == op[found[r]].group = op[r].group

\* Only the request whose insert made the row announces it.
IsNew(r) == found[r] = r

\* A tombstone read as "not found".
BuggyGet(r) ==
    /\ pc[r] = "get"
    /\ seen' = [seen EXCEPT ![r] = row[found[r]]]
    /\ IF row[found[r]] = "deleted" THEN Return(r, "refused")
       ELSE IF op[found[r]].group # op[r].group THEN Return(r, "refused")
       ELSE IF IsNew(r) THEN Goto(r, "announce")
       ELSE Return(r, "ok")
    /\ UNCHANGED <<op, tables, found, snap, outputs, outsiders, failures>>

\* store.get: the row as it is now, joined with its parent.  A client id used
\* before in another group is refused.
Get(r) ==
    /\ pc[r] = "get"
    /\ seen' = [seen EXCEPT ![r] = row[found[r]]]
    /\ IF op[found[r]].group # op[r].group THEN Return(r, "refused")
       ELSE IF IsNew(r) THEN Goto(r, "announce")
       ELSE Return(r, "ok")
    /\ UNCHANGED <<op, tables, found, snap, outputs, outsiders, failures>>

\* Hub.Broadcast of the row that was read.
Announce(r) ==
    /\ Is(r, "send") \/ Is(r, "meal")
    /\ pc[r] = "announce"
    /\ Broadcast(Event("message", found[r], seen[r]))
    /\ Goto(r, "finish")
    /\ UNCHANGED <<op, tables, locals, advanced, pushed, outsiders, failures>>

\* markSenderRead, whose failure is ignored, and for a sent message push.
Finish(r) ==
    /\ pc[r] = "finish"
    /\ \/ /\ advanced' = advanced \cup {found[r]}
          /\ UNCHANGED failures
       \/ /\ failures < MaxFailures
          /\ failures' = failures + 1
          /\ UNCHANGED advanced
    /\ pushed' = IF Is(r, "send") THEN pushed \cup {found[r]} ELSE pushed
    /\ Return(r, "ok")
    /\ UNCHANGED <<op, tables, locals, log, outsiders>>

-----------------------------------------------------------------------------
(***************************************************************************)
(* Delete, React and Unreact read the message before anything else.        *)
(***************************************************************************)
Target(r) == op[r].target

IsMemberOfTarget(r) == <<op[r].user, op[Target(r)].group>> \in members

BuggyMayChange(r) ==
    /\ Stored(Target(r))
    /\ Is(r, "delete") => op[Target(r)].user = op[r].user
    /\ ~Is(r, "delete") => IsMemberOfTarget(r)
    /\ Is(r, "react") => row[Target(r)] = "live"

\* Found, by a member, by its author if it is to be deleted, and not deleted
\* if it is to be reacted to.
MayChange(r) ==
    /\ Stored(Target(r))
    /\ IsMemberOfTarget(r)
    /\ Is(r, "delete") => op[Target(r)].user = op[r].user
    /\ Is(r, "react") => row[Target(r)] = "live"

ChangeCheck(r) ==
    /\ op[r].kind \in {"delete", "react", "unreact"} /\ pc[r] = "check"
    /\ IF MayChange(r) THEN Goto(r, "write") ELSE Return(r, "refused")
    /\ UNCHANGED <<op, tables, locals, outputs, outsiders, failures>>

\* softDelete's statement takes its snapshot of the reactions ...
DeleteSnapshot(r) ==
    /\ Is(r, "delete") /\ pc[r] = "write"
    /\ snap' = [snap EXCEPT ![r] = {q \in reactions : Target(q) = Target(r)}]
    /\ Goto(r, "commit")
    /\ UNCHANGED <<op, tables, found, seen, outputs, outsiders, failures>>

\* The WHERE of softDelete, re-evaluated once a concurrent delete commits.
Tombstones(r) == row[Target(r)] = "live"

\* ... and tombstones the message and removes the rows of that snapshot, if
\* no other delete came first.
DeleteCommit(r) ==
    /\ Is(r, "delete") /\ pc[r] = "commit"
    /\ \/ /\ Tombstones(r)
          /\ row' = [row EXCEPT ![Target(r)] = "deleted"]
          /\ reactions' = reactions \ snap[r]
          /\ Goto(r, "announce")
       \/ /\ ~Tombstones(r)
          /\ Return(r, "ok")
          /\ UNCHANGED <<row, reactions>>
    /\ UNCHANGED <<op, members, locals, outputs, outsiders, failures>>

\* addReaction's statement evaluates its EXISTS on its snapshot ...
ReactSnapshot(r) ==
    /\ Is(r, "react") /\ pc[r] = "write"
    /\ seen' = [seen EXCEPT ![r] = row[Target(r)]]
    /\ Goto(r, "commit")
    /\ UNCHANGED <<op, tables, found, snap, outputs, outsiders, failures>>

\* The row is inserted if the message was live then and the key is free now.
Lands(r) == seen[r] = "live" /\ \A q \in reactions : ~SameReaction(q, r)

ReactCommit(r) ==
    /\ Is(r, "react") /\ pc[r] = "commit"
    /\ \/ /\ Lands(r)
          /\ reactions' = reactions \cup {r}
          /\ Goto(r, "announce")
       \/ /\ ~Lands(r)
          /\ Goto(r, "recheck")
          /\ UNCHANGED reactions
    /\ UNCHANGED <<op, members, row, locals, outputs, outsiders, failures>>

BuggyRecheckAnswer(r) == "ok"

RecheckAnswer(r) == IF row[Target(r)] = "deleted" THEN "refused" ELSE "ok"

\* Nothing was inserted: the message is read again to tell why.
Recheck(r) ==
    /\ Is(r, "react") /\ pc[r] = "recheck"
    /\ Return(r, RecheckAnswer(r))
    /\ UNCHANGED <<op, tables, locals, outputs, outsiders, failures>>

BuggyRemoves(r) == TRUE

\* removeReaction affected a row.
Removes(r) == \E q \in reactions : SameReaction(q, r)

\* removeReaction's DELETE, scoped to the caller's own row.
Unreact(r) ==
    /\ Is(r, "unreact") /\ pc[r] = "write"
    /\ reactions' = {q \in reactions : ~SameReaction(q, r)}
    /\ IF Removes(r) THEN Goto(r, "announce") ELSE Return(r, "ok")
    /\ UNCHANGED <<op, members, row, locals, outputs, outsiders, failures>>

Announcement(r) ==
    CASE Is(r, "delete") -> Event("deleted", Target(r), "deleted")
      [] Is(r, "react") -> Event("added", Target(r), op[r].user)
      [] OTHER -> Event("removed", Target(r), op[r].user)

\* Hub.Broadcast of a change that happened.
AnnounceChange(r) ==
    /\ op[r].kind \in {"delete", "react", "unreact"} /\ pc[r] = "announce"
    /\ Broadcast(Announcement(r))
    /\ Return(r, "ok")
    /\ UNCHANGED <<op, tables, locals, advanced, pushed, outsiders, failures>>

-----------------------------------------------------------------------------
\* The client hangs up, which cancels the request's context and fails its next
\* statement, the database reports an error, or the process ends.  What the
\* statements before did stays.
BreakOff(r) ==
    /\ pc[r] \notin {"idle", "done"}
    /\ failures < MaxFailures
    /\ failures' = failures + 1
    /\ Return(r, "error")
    /\ UNCHANGED <<op, tables, locals, outputs, outsiders>>

Step(r) ==
    \/ SendCheck(r) \/ Insert(r) \/ Find(r) \/ FindCard(r) \/ Get(r)
    \/ Announce(r) \/ Finish(r)
    \/ ChangeCheck(r) \/ DeleteSnapshot(r) \/ DeleteCommit(r)
    \/ ReactSnapshot(r) \/ ReactCommit(r) \/ Recheck(r) \/ Unreact(r)
    \/ AnnounceChange(r)

Next ==
    \/ \E r \in Requests : Begin(r) \/ Step(r) \/ BreakOff(r)
    \/ \E x \in Leavers \cap members : Leave(x[1], x[2])

Spec == Init /\ [][Next]_vars
=============================================================================
