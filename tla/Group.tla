-------------------------------- MODULE Group --------------------------------
(***************************************************************************)
(* The group service of apps/api/internal/group (group.go and store.go):   *)
(* what concurrent HTTP requests do to one group's owner, members, invites *)
(* and pins.  Every statement is scoped by group_id, so one group stands   *)
(* for all.                                                                *)
(*                                                                         *)
(* As in Chat a request runs one service call statement by statement.      *)
(* Join is a transaction: it holds the row lock on its invite and its own  *)
(* uncommitted membership row from one statement to the next, and both end *)
(* with it, committed or not.                                              *)
(***************************************************************************)
EXTENDS Naturals

CONSTANTS
    Users,
    Nobody,        \* the owner of a group that does not exist yet
    Invites,
    Requests,      \* the service calls of a run
    MayAsk,        \* MayAsk[r]: the operations request r may turn out to be
    MaxFailures    \* bound on the number of statements that fail

\* Service.Create, CreateInvite, RevokeInvite, Join, Leave, Pin and Unpin.
Operations ==
    [kind : {"create", "leave", "pin", "unpin"}, user : Users] \cup
    [kind : {"invite", "revoke", "join"}, user : Users, invite : Invites]

ASSUME GroupAssumption ==
    /\ Nobody \notin Users
    /\ MayAsk \in [Requests -> SUBSET Operations]
    /\ MaxFailures \in Nat

NoOp == [kind |-> "none"]

VARIABLES
    op,        \* op[r]: what r was asked, NoOp before it starts
    pc,        \* what r does next
    owner,     \* groups.owner_id
    role,      \* role[u]: the row of u in group_members, "none" without one
    pinned,    \* the users with a row in group_pins
    issued,    \* the rows of group_invites,
    expired,   \* those whose expires_at has passed
    revoked,   \* and those with a revoked_at
    timely,    \* timely[r]: the invite had not expired at the time r compares
    pending,   \* pending[r]: r's transaction has inserted a membership row
    answer,    \* what r's caller was told: "none", "ok", "refused", "error"
    failures

tables == <<owner, role, pinned, issued, revoked>>
locals == <<op, timely>>
vars == <<op, pc, owner, role, pinned, issued, expired, revoked, timely,
          pending, answer, failures>>

-----------------------------------------------------------------------------
Is(r, kind) == op[r].kind = kind
User(r) == op[r].user
Invite(r) == op[r].invite

Goto(r, label) ==
    /\ pc' = [pc EXCEPT ![r] = label]
    /\ UNCHANGED answer

Return(r, a) ==
    /\ pc' = [pc EXCEPT ![r] = "done"]
    /\ answer' = [answer EXCEPT ![r] = a]

Init ==
    /\ op = [r \in Requests |-> NoOp]
    /\ pc = [r \in Requests |-> "idle"]
    /\ owner = Nobody
    /\ role = [u \in Users |-> "none"]
    /\ pinned = {}
    /\ issued = {}
    /\ expired = {}
    /\ revoked = {}
    /\ timely = [r \in Requests |-> FALSE]
    /\ pending = [r \in Requests |-> FALSE]
    /\ answer = [r \in Requests |-> "none"]
    /\ failures = 0

\* Where a service call starts.
First(kind) ==
    CASE kind = "create" -> "create"
      [] kind = "join" -> "lock"
      [] kind = "unpin" -> "write"
      [] OTHER -> "find"

\* The handler calls the service.  The group and each of its invites come into
\* being with one call: their ids and codes are new.  Join reads the clock
\* before it asks for the invite.
Begin(r) ==
    /\ pc[r] = "idle"
    /\ \E o \in MayAsk[r] :
          /\ o.kind = "create" => \A q \in Requests : ~Is(q, "create")
          /\ o.kind = "invite" =>
                \A q \in Requests : Is(q, "invite") => Invite(q) # o.invite
          /\ op' = [op EXCEPT ![r] = o]
          /\ timely' = [timely EXCEPT ![r] = o.kind = "join" /\ o.invite \notin expired]
          /\ Goto(r, First(o.kind))
    /\ UNCHANGED <<tables, expired, pending, failures>>

\* An invite's expires_at passes.
Expire(i) ==
    /\ i \in issued \ expired
    /\ expired' = expired \cup {i}
    /\ UNCHANGED <<op, pc, tables, timely, pending, answer, failures>>

-----------------------------------------------------------------------------
(***************************************************************************)
(* Definitions named Buggy... are plausible mistakes in the code that      *)
(* follows them.  They are no part of the specification: each shows which  *)
(* property would catch the mistake.                                       *)
(***************************************************************************)

\* The owner's membership forgotten.
BuggyCreate(r) ==
    /\ Is(r, "create") /\ pc[r] = "create"
    /\ owner' = User(r)
    /\ Return(r, "ok")
    /\ UNCHANGED <<locals, role, pinned, issued, expired, revoked, pending, failures>>

\* The group and its owner's membership, in one transaction.
Create(r) ==
    /\ Is(r, "create") /\ pc[r] = "create"
    /\ owner' = User(r)
    /\ role' = [role EXCEPT ![User(r)] = "owner"]
    /\ Return(r, "ok")
    /\ UNCHANGED <<locals, pinned, issued, expired, revoked, pending, failures>>

IsMember(u) == role[u] # "none"

\* The owner not told from the other members.
BuggyMayWrite(r) == IsMember(User(r))

\* Only the owner revokes, and everyone but the owner may leave.
MayWrite(r) ==
    /\ IsMember(User(r))
    /\ Is(r, "revoke") => User(r) = owner
    /\ Is(r, "leave") => User(r) # owner

\* findForMember, the authorization check of every operation but Join and Unpin.
Find(r) ==
    /\ pc[r] = "find"
    /\ IF MayWrite(r) THEN Goto(r, "write") ELSE Return(r, "refused")
    /\ UNCHANGED <<locals, tables, expired, pending, failures>>

CreateInvite(r) ==
    /\ Is(r, "invite") /\ pc[r] = "write"
    /\ issued' = issued \cup {Invite(r)}
    /\ Return(r, "ok")
    /\ UNCHANGED <<locals, owner, role, pinned, expired, revoked, pending, failures>>

\* The SELECT without FOR UPDATE.
BuggyLocked(i) == FALSE

\* A transaction that has read invite i FOR UPDATE is still open.
Locked(i) ==
    \E q \in Requests : Is(q, "join") /\ pc[q] \in {"add", "commit"} /\ Invite(q) = i

\* The number of affected rows left unread.
BuggyRevokeInvite(r) ==
    /\ Is(r, "revoke") /\ pc[r] = "write"
    /\ ~Locked(Invite(r))
    /\ revoked' = revoked \cup {Invite(r)}
    /\ Return(r, "ok")
    /\ UNCHANGED <<locals, owner, role, pinned, issued, expired, pending, failures>>

\* revokeInvite, which waits for the row lock of a join.
RevokeInvite(r) ==
    /\ Is(r, "revoke") /\ pc[r] = "write"
    /\ ~Locked(Invite(r))
    /\ IF Invite(r) \in issued \ revoked
       THEN revoked' = revoked \cup {Invite(r)} /\ Return(r, "ok")
       ELSE UNCHANGED revoked /\ Return(r, "refused")
    /\ UNCHANGED <<locals, owner, role, pinned, issued, expired, pending, failures>>

-----------------------------------------------------------------------------
(***************************************************************************)
(* Join: lock a usable invite, insert the membership, commit, read back.   *)
(***************************************************************************)
FindUsableInvite(r) ==
    /\ Is(r, "join") /\ pc[r] = "lock"
    /\ ~Locked(Invite(r))
    /\ IF Invite(r) \in issued \ revoked /\ timely[r]
       THEN Goto(r, "add")
       ELSE Return(r, "refused")
    /\ UNCHANGED <<locals, tables, expired, pending, failures>>

\* The unique index makes an insert wait for another transaction's uncommitted
\* row with the same key.
Waits(r) == \E q \in Requests : pending[q] /\ User(q) = User(r)

\* An upsert that overwrites the role of a member who follows the link.
BuggyAddMember(r) ==
    /\ Is(r, "join") /\ pc[r] = "add"
    /\ ~Waits(r)
    /\ pending' = [pending EXCEPT ![r] = TRUE]
    /\ Goto(r, "commit")
    /\ UNCHANGED <<locals, tables, expired, failures>>

\* addMember's INSERT ... ON CONFLICT DO NOTHING, not yet committed.
AddMember(r) ==
    /\ Is(r, "join") /\ pc[r] = "add"
    /\ ~Waits(r)
    /\ pending' = [pending EXCEPT ![r] = ~IsMember(User(r))]
    /\ Goto(r, "commit")
    /\ UNCHANGED <<locals, tables, expired, failures>>

\* The transaction rolled back by its deferred Rollback although all went well.
BuggyCommitJoin(r) ==
    /\ Is(r, "join") /\ pc[r] = "commit"
    /\ pending' = [pending EXCEPT ![r] = FALSE]
    /\ Return(r, "ok")
    /\ UNCHANGED <<locals, tables, expired, failures>>

CommitJoin(r) ==
    /\ Is(r, "join") /\ pc[r] = "commit"
    /\ role' = IF pending[r] THEN [role EXCEPT ![User(r)] = "member"] ELSE role
    /\ pending' = [pending EXCEPT ![r] = FALSE]
    /\ Goto(r, "reread")
    /\ UNCHANGED <<locals, owner, pinned, issued, expired, revoked, failures>>

\* The answer is read back outside the transaction.
Reread(r) ==
    /\ Is(r, "join") /\ pc[r] = "reread"
    /\ Return(r, IF IsMember(User(r)) THEN "ok" ELSE "refused")
    /\ UNCHANGED <<locals, tables, expired, pending, failures>>

-----------------------------------------------------------------------------
(***************************************************************************)
(* Leave, two statements without a transaction, and the pins.              *)
(***************************************************************************)
ClearPin(r) ==
    /\ Is(r, "leave") /\ pc[r] = "write"
    /\ pinned' = pinned \ {User(r)}
    /\ Goto(r, "remove")
    /\ UNCHANGED <<locals, owner, role, issued, expired, revoked, pending, failures>>

RemoveMember(r) ==
    /\ Is(r, "leave") /\ pc[r] = "remove"
    /\ role' = [role EXCEPT ![User(r)] = "none"]
    /\ Return(r, "ok")
    /\ UNCHANGED <<locals, owner, pinned, issued, expired, revoked, pending, failures>>

Pin(r) ==
    /\ Is(r, "pin") /\ pc[r] = "write"
    /\ pinned' = pinned \cup {User(r)}
    /\ Return(r, "ok")
    /\ UNCHANGED <<locals, owner, role, issued, expired, revoked, pending, failures>>

Unpin(r) ==
    /\ Is(r, "unpin") /\ pc[r] = "write"
    /\ pinned' = pinned \ {User(r)}
    /\ Return(r, "ok")
    /\ UNCHANGED <<locals, owner, role, issued, expired, revoked, pending, failures>>

-----------------------------------------------------------------------------
\* No Rollback deferred: the row of the failed transaction stays uncommitted.
BuggyBreakOff(r) ==
    /\ pc[r] \notin {"idle", "done"}
    /\ failures < MaxFailures
    /\ failures' = failures + 1
    /\ Return(r, "error")
    /\ UNCHANGED <<locals, tables, expired, pending>>

\* The request's context ends, the database reports an error, or the process
\* ends.  What committed stays; an open transaction is rolled back.
BreakOff(r) ==
    /\ pc[r] \notin {"idle", "done"}
    /\ failures < MaxFailures
    /\ failures' = failures + 1
    /\ pending' = [pending EXCEPT ![r] = FALSE]
    /\ Return(r, "error")
    /\ UNCHANGED <<locals, tables, expired>>

Step(r) ==
    \/ Create(r) \/ Find(r) \/ CreateInvite(r) \/ RevokeInvite(r)
    \/ FindUsableInvite(r) \/ AddMember(r) \/ CommitJoin(r) \/ Reread(r)
    \/ ClearPin(r) \/ RemoveMember(r) \/ Pin(r) \/ Unpin(r)

Next ==
    \/ \E r \in Requests : Begin(r) \/ Step(r) \/ BreakOff(r)
    \/ \E i \in Invites : Expire(i)

Spec == Init /\ [][Next]_vars

\* The goroutine of a request that has begun runs on.  A lock is granted to a
\* waiter in the end although others keep taking it: PostgreSQL queues them.
FairSpec == Spec /\ \A r \in Requests : SF_vars(Step(r))
=============================================================================
