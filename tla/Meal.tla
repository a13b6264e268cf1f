--------------------------------- MODULE Meal ---------------------------------
(***************************************************************************)
(* Meals after their creation, which is a request of Media: editing,       *)
(* deleting, sharing into groups and reading (meal/meal.go, meal/store.go, *)
(* httpapi/meal.go).  Every statement is a step; what comes between two    *)
(* may be another request, a member leaving or the card being deleted.     *)
(*                                                                         *)
(* A meal is the request that created it.  A share and the value of a      *)
(* field are the request that wrote them.                                  *)
(***************************************************************************)
EXTENDS Media, Sequences

CONSTANTS
    Groups,
    Fields,        \* meal_type, eaten_at and description
    Requests,
    MayAsk,        \* MayAsk[r]: the operations r may turn out to be
    MemberOf,      \* user_groups at first
    MayLeave,      \* bound: the members who may leave
    NoRequest

Operations ==
    [kind : {"update"}, user : Users, meal : Uploads, fields : SUBSET Fields] \cup
    [kind : {"delete", "shares", "read"}, user : Users, meal : Uploads] \cup
    [kind : {"share"}, user : Users, meal : Uploads, groups : Seq(Groups)] \cup
    [kind : {"unshare"}, user : Users, meal : Uploads, group : Groups] \cup
    [kind : {"photo"}, user : Users, meal : Uploads, photo : 1..MaxPhotos]

NoOp == [kind |-> "none"]

ASSUME MealAssumption ==
    /\ MayAsk \in [Requests -> SUBSET Operations]
    /\ MemberOf \subseteq Users \X Groups
    /\ MayLeave \subseteq Users \X Groups
    /\ NoRequest \notin Requests

VARIABLES
    members,       \* user_groups, as pairs of a user and a group
    op, pc, answer,
    joined,        \* history: the groups of r's user when r began
    before,        \* history: the requests answered when r began
    mine,          \* mine[r]: what GroupIDsFor answered r
    later,         \* later[r]: the groups a share has not come to
    share,         \* share[m][g]: who wrote the row last
    revoked,       \* revoked[m][g]: who took the share back
    card,          \* card[m][g]: the meal's message in the chat
    deleted,       \* deleted[m]: who deleted the meal
    text,          \* text[m][f]
    read           \* read[r]: the fields as findOwned found them

requests == <<op, joined, before>>
sharing == <<share, revoked, card>>
fields == <<deleted, text>>
mealVars == <<members, op, pc, answer, joined, before, mine, later, share, revoked, card,
              deleted, text, read>>
vars == <<mediaVars, mealVars>>

Is(r, kind) == op[r].kind = kind
User(r) == op[r].user
Target(r) == op[r].meal
Goto(r, label) == pc' = [pc EXCEPT ![r] = label]
Answer(r, a) == /\ Goto(r, "done")
                /\ answer' = [answer EXCEPT ![r] = a]

Blank == [f \in Fields |-> NoRequest]

\* The users of those rows instead of their groups.
BuggyGroupsOf(u) == {p[1] : p \in {q \in members : q[1] = u}}

GroupsOf(u) == {g \in Groups : <<u, g>> \in members}

Init ==
    /\ MediaInit
    /\ members = MemberOf
    /\ op = [r \in Requests |-> NoOp]
    /\ pc = [r \in Requests |-> "idle"]
    /\ answer = [r \in Requests |-> "none"]
    /\ joined = [r \in Requests |-> {}]
    /\ before = [r \in Requests |-> {}]
    /\ mine = [r \in Requests |-> {}]
    /\ later = [r \in Requests |-> <<>>]
    /\ share = [m \in Uploads |-> [g \in Groups |-> NoRequest]]
    /\ revoked = [m \in Uploads |-> [g \in Groups |-> NoRequest]]
    /\ card = [m \in Uploads |-> [g \in Groups |-> "none"]]
    /\ deleted = [m \in Uploads |-> NoRequest]
    /\ text = [m \in Uploads |-> Blank]
    /\ read = [r \in Requests |-> Blank]

\* The operation r turns out to be, where it starts and the groups it will visit.
Accept(r, o, label, groups) ==
    /\ pc[r] = "idle"
    /\ op' = [op EXCEPT ![r] = o]
    /\ joined' = [joined EXCEPT ![r] = GroupsOf(o.user)]
    /\ before' = [before EXCEPT ![r] = {p \in Requests : pc[p] = "done"}]
    /\ later' = [later EXCEPT ![r] = groups]
    /\ Goto(r, label)
    /\ UNCHANGED <<mediaVars, members, answer, mine, sharing, fields, read>>

Begin(r, kind, label) ==
    \E o \in MayAsk[r] : o.kind = kind /\ Accept(r, o, label, <<>>)

PatchMeal(r) == Begin(r, "update", "own")
DeleteMeal(r) == Begin(r, "delete", "own")
UnshareMeal(r) == Begin(r, "unshare", "own")
ListMealShares(r) == Begin(r, "shares", "own")
GetMeal(r) == Begin(r, "read", "groups")
GetMealImage(r) == Begin(r, "photo", "groups")

ShareMeal(r) ==
    \E o \in MayAsk[r] : o.kind = "share" /\ Accept(r, o, "own", o.groups)

-----------------------------------------------------------------------------
\* meal_records: the meals whose row is committed and not deleted.
Meals == {q \in kept : Asks(q, "meal") /\ deleted[q] = NoRequest}
Owns(u, m) == m \in Meals /\ Person(m) = u

\* findOwned.
Own(r) ==
    /\ pc[r] = "own"
    /\ IF Owns(User(r), Target(r))
       THEN /\ read' = [read EXCEPT ![r] = text[Target(r)]]
            /\ Goto(r, IF Is(r, "share") THEN "groups"
                       ELSE IF Is(r, "shares") THEN "list" ELSE "write")
            /\ UNCHANGED answer
       ELSE Answer(r, "missing") /\ UNCHANGED read
    /\ UNCHANGED <<mediaVars, members, requests, mine, later, sharing, fields>>

\* All fields are written, those not asked for as they were read.
Merged(r) == [f \in Fields |-> IF f \in op[r].fields THEN r ELSE read[r][f]]

Update(r) ==
    /\ pc[r] = "write" /\ Is(r, "update")
    /\ IF Owns(User(r), Target(r))
       THEN /\ text' = [text EXCEPT ![Target(r)] = Merged(r)]
            /\ Answer(r, "ok")
       ELSE Answer(r, "missing") /\ UNCHANGED text
    /\ UNCHANGED <<mediaVars, members, requests, mine, later, sharing, deleted, read>>

Delete(r) ==
    /\ pc[r] = "write" /\ Is(r, "delete")
    /\ deleted' = [deleted EXCEPT ![Target(r)] = IF @ = NoRequest THEN r ELSE @]
    /\ Answer(r, "ok")
    /\ UNCHANGED <<mediaVars, members, requests, mine, later, sharing, text, read>>

-----------------------------------------------------------------------------
(***************************************************************************)
(* Sharing.                                                                *)
(***************************************************************************)
IsShared(m, g) == share[m][g] # NoRequest /\ revoked[m][g] = NoRequest

Wanted(r) == {op[r].groups[i] : i \in 1..Len(op[r].groups)}

\* Only the first group is checked before the loop begins.
BuggyAllowed(r) == op[r].groups = <<>> \/ Head(op[r].groups) \in mine'[r]

Allowed(r) == Wanted(r) \subseteq mine'[r]

\* GroupIDsFor, and for a share the check of all its groups.
LookUpGroups(r) ==
    /\ pc[r] = "groups"
    /\ mine' = [mine EXCEPT ![r] = GroupsOf(User(r))]
    /\ IF Is(r, "share")
       THEN IF Allowed(r) THEN Goto(r, IF later[r] = <<>> THEN "confirm" ELSE "share")
                               /\ UNCHANGED answer
                          ELSE Answer(r, "refused")
       ELSE Goto(r, "find") /\ UNCHANGED answer
    /\ UNCHANGED <<mediaVars, members, requests, later, sharing, fields, read>>

\* ON CONFLICT DO NOTHING: a share taken back stays so.
BuggyShare(r) ==
    /\ pc[r] = "share"
    /\ share' = [share EXCEPT ![Target(r)][Head(later[r])] =
          IF @ = NoRequest THEN r ELSE @]
    /\ Goto(r, "announce")
    /\ UNCHANGED <<mediaVars, members, requests, answer, mine, later, revoked, card,
                   fields, read>>

Share(r) ==
    /\ pc[r] = "share"
    /\ share' = [share EXCEPT ![Target(r)][Head(later[r])] = r]
    /\ revoked' = [revoked EXCEPT ![Target(r)][Head(later[r])] = NoRequest]
    /\ Goto(r, "announce")
    /\ UNCHANGED <<mediaVars, members, requests, answer, mine, later, card, fields, read>>

NextGroup(r) ==
    /\ later' = [later EXCEPT ![r] = Tail(@)]
    /\ Goto(r, IF Tail(later[r]) = <<>> THEN "confirm" ELSE "share")
    /\ UNCHANGED answer

\* AnnounceMeal posts the card unless a live one is there ...
Announce(r) ==
    /\ pc[r] = "announce"
    /\ IF card[Target(r)][Head(later[r])] = "live"
       THEN Goto(r, "lookup") /\ UNCHANGED <<answer, later, card>>
       ELSE /\ card' = [card EXCEPT ![Target(r)][Head(later[r])] = "live"]
            /\ NextGroup(r)
    /\ UNCHANGED <<mediaVars, members, requests, mine, share, revoked, fields, read>>

\* ... which it looks up, and may find deleted.
LookUpCard(r) ==
    /\ pc[r] = "lookup"
    /\ IF card[Target(r)][Head(later[r])] = "live" THEN NextGroup(r)
       ELSE Answer(r, "error") /\ UNCHANGED later
    /\ UNCHANGED <<mediaVars, members, requests, mine, sharing, fields, read>>

\* The answer of a share is that of SharedWith, which asks for the meal again.
Confirm(r) ==
    /\ pc[r] = "confirm"
    /\ IF Owns(User(r), Target(r)) THEN Goto(r, "list") /\ UNCHANGED answer
       ELSE Answer(r, "missing")
    /\ UNCHANGED <<mediaVars, members, requests, mine, later, sharing, fields, read>>

ListShares(r) ==
    /\ pc[r] = "list"
    /\ Answer(r, "ok")
    /\ UNCHANGED <<mediaVars, members, requests, mine, later, sharing, fields, read>>

Unshare(r) ==
    /\ pc[r] = "write" /\ Is(r, "unshare")
    /\ revoked' = [revoked EXCEPT ![Target(r)][op[r].group] =
          IF IsShared(Target(r), op[r].group) THEN r ELSE @]
    /\ Answer(r, "ok")
    /\ UNCHANGED <<mediaVars, members, requests, mine, later, share, card, fields, read>>

-----------------------------------------------------------------------------
(***************************************************************************)
(* Reading.                                                                *)
(***************************************************************************)
\* readableMealsCTE.
Readable(r) ==
    /\ Target(r) \in Meals
    /\ \/ Person(Target(r)) = User(r)
       \/ \E g \in mine[r] : IsShared(Target(r), g)

\* findForReader, findPhotoForReader.
FindMeal(r) ==
    /\ pc[r] = "find"
    /\ IF ~Readable(r) THEN Answer(r, "missing")
       ELSE IF Is(r, "read") THEN Answer(r, "ok")
       ELSE Goto(r, "open") /\ UNCHANGED answer
    /\ UNCHANGED <<mediaVars, members, requests, mine, later, sharing, fields, read>>

OpenPhoto(r) ==
    /\ pc[r] = "open"
    /\ Answer(r, IF <<Target(r), op[r].photo>> \in objects THEN "ok" ELSE "gone")
    /\ UNCHANGED <<mediaVars, members, requests, mine, later, sharing, fields, read>>

-----------------------------------------------------------------------------
\* A statement fails or the client hangs up; what is written stays.
GoWrong(r) ==
    /\ pc[r] \notin {"idle", "done"}
    /\ Fails
    /\ Answer(r, "error")
    /\ UNCHANGED <<wish, step, reply, held, objects, kept, avatar, locked, prior,
                   doubtful, strays, members, requests, mine, later, sharing, fields, read>>

\* Group.Leave and DeleteMessage, while requests run.
Leave(u, g) ==
    /\ <<u, g>> \in members \cap MayLeave
    /\ members' = members \ {<<u, g>>}
    /\ UNCHANGED <<mediaVars, requests, pc, answer, mine, later, sharing, fields, read>>

DeleteCard(m, g) ==
    /\ card[m][g] = "live"
    /\ card' = [card EXCEPT ![m][g] = "deleted"]
    /\ UNCHANGED <<mediaVars, members, requests, pc, answer, mine, later, share,
                   revoked, fields, read>>

\* A restart ends these requests too.
RestartAll ==
    /\ Restart
    /\ pc' = [r \in Requests |-> IF pc[r] = "idle" THEN "idle" ELSE "done"]
    /\ UNCHANGED <<members, requests, answer, mine, later, sharing, fields, read>>

MealStep(r) ==
    \/ PatchMeal(r) \/ DeleteMeal(r) \/ ShareMeal(r) \/ UnshareMeal(r)
    \/ ListMealShares(r) \/ GetMeal(r) \/ GetMealImage(r)
    \/ Own(r) \/ Update(r) \/ Delete(r)
    \/ LookUpGroups(r) \/ Share(r) \/ Announce(r) \/ LookUpCard(r) \/ Confirm(r)
    \/ ListShares(r) \/ Unshare(r) \/ FindMeal(r) \/ OpenPhoto(r) \/ GoWrong(r)

Next ==
    \/ RestartAll
    \/ \E q \in Uploads : MediaStep(q) /\ UNCHANGED mealVars
    \/ \E r \in Requests : MealStep(r)
    \/ \E u \in Users, g \in Groups : Leave(u, g)
    \/ \E m \in Uploads, g \in Groups : DeleteCard(m, g)

Spec == Init /\ [][Next]_vars
=============================================================================
