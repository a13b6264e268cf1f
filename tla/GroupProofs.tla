----------------------------- MODULE GroupProofs -----------------------------
(***************************************************************************)
(* Proofs about the group service for any number of requests, users,       *)
(* invites and failures.                                                   *)
(***************************************************************************)
EXTENDS GroupProperties, TLAPS

\* What a request's position says about its operation and about the group.
Position ==
    \A r \in Requests :
       /\ pc[r] = "idle" <=> op[r] = NoOp
       /\ answer[r] = "ok" => pc[r] = "done"
       /\ pc[r] \in {"lock", "add", "commit", "reread"} => Is(r, "join")
       /\ pc[r] = "write" /\ ~Is(r, "unpin") => owner # Nobody
       /\ pc[r] = "remove" => Is(r, "leave") /\ owner # Nobody
       /\ Is(r, "leave") /\ pc[r] \in {"write", "remove"} => User(r) # owner

\* The group comes into being once.
OneCreation ==
    /\ \A q, r \in Requests : Is(q, "create") /\ Is(r, "create") => q = r
    /\ \A r \in Requests : Is(r, "create") /\ pc[r] # "done" => owner = Nobody
    /\ owner # Nobody => \E r \in Requests : Is(r, "create")
    /\ issued # {} => owner # Nobody

\* The row lock of an open join keeps its invite usable.
HeldInvites ==
    \A r \in Requests :
       Is(r, "join") /\ pc[r] \in {"add", "commit"} => Invite(r) \in issued \ revoked

\* An uncommitted membership is a user's only one.
OneUncommitted ==
    /\ \A r \in Requests : pending[r] =>
          Is(r, "join") /\ pc[r] = "commit" /\ role[User(r)] = "none"
    /\ \A q, r \in Requests : pending[q] /\ pending[r] /\ User(q) = User(r) => q = r

GroupInv ==
    /\ TypeOK
    /\ Position
    /\ OneCreation
    /\ HeldInvites
    /\ OneUncommitted
    /\ OwnerBelongs
    /\ JoinedUnlessLeft

USE GroupAssumption

-----------------------------------------------------------------------------
(***************************************************************************)
(* Facts about the definitions the actions are built from.                 *)
(***************************************************************************)

\* No operation is the placeholder of a request that has not begun.
LEMMA OperationFields ==
    ASSUME NEW o \in Operations
    PROVE  /\ o # NoOp
           /\ o.kind \in {"create", "leave", "pin", "unpin", "invite", "revoke", "join"}
           /\ o.user \in Users
           /\ o.kind \in {"invite", "revoke", "join"} => o.invite \in Invites
BY DEF Operations, NoOp

\* What a request that has begun was asked.
LEMMA RequestFields ==
    ASSUME TypeOK, Position, NEW r \in Requests
    PROVE  /\ pc[r] # "idle" => op[r] \in Operations /\ User(r) \in Users
           /\ pc[r] # "idle" /\ op[r].kind \in {"invite", "revoke", "join"} => Invite(r) \in Invites
           /\ pc[r] = "idle" => op[r].kind = "none"
<1>1. pc[r] # "idle" => op[r] \in Operations
  BY DEF TypeOK, Position
<1>2. NoOp.kind = "none"
  BY DEF NoOp
<1> QED  BY <1>1, <1>2, OperationFields DEF Position, User, Invite

\* The initial state satisfies the invariant.
LEMMA InitInv == Init => GroupInv
<1> SUFFICES ASSUME Init PROVE GroupInv
  OBVIOUS
<1>1. \A r \in Requests : op[r].kind = "none"
  BY DEF Init, NoOp
<1>2. TypeOK
  BY DEF Init, TypeOK, Labels
<1> QED  BY <1>1, <1>2 DEF Init, GroupInv, Position, OneCreation, HeldInvites,
            OneUncommitted, OwnerBelongs, JoinedUnlessLeft, Is

-----------------------------------------------------------------------------
(***************************************************************************)
(* Every step preserves the invariant: one lemma per action.               *)
(***************************************************************************)

\* A request begins.
LEMMA BeginInv ==
    ASSUME GroupInv, NEW r \in Requests, Begin(r)
    PROVE  GroupInv'
<1> USE DEF GroupInv, Begin, First, Goto, Return, Is, User, Invite, tables, locals
<1>1. TypeOK'
  BY DEF TypeOK, Labels
<1>2. Position'
  BY OperationFields DEF TypeOK, Position
<1>3. OneCreation'
  BY DEF TypeOK, OneCreation
<1>4. HeldInvites'
  BY DEF TypeOK, HeldInvites
<1>5. OneUncommitted'
  BY DEF TypeOK, OneUncommitted
<1>6. OwnerBelongs'
  BY DEF TypeOK, OwnerBelongs
<1>7. JoinedUnlessLeft'
  BY DEF TypeOK, Position, JoinedUnlessLeft, Leaving, IsMember
<1> QED  BY <1>1, <1>2, <1>3, <1>4, <1>5, <1>6, <1>7

\* The group and its owner's membership appear together.
LEMMA CreateInv ==
    ASSUME GroupInv, NEW r \in Requests, Create(r)
    PROVE  GroupInv'
<1> USE DEF GroupInv, Create, Goto, Return, Is, User, Invite, tables, locals
<1>1. TypeOK'
  BY RequestFields DEF TypeOK, Labels
<1>2. Position'
  BY DEF TypeOK, Position, OneCreation
<1>3. OneCreation'
  BY DEF TypeOK, OneCreation
<1>4. HeldInvites'
  BY DEF TypeOK, HeldInvites
<1>5. OneUncommitted'
  BY DEF TypeOK, OneCreation, HeldInvites, OneUncommitted
<1>6. OwnerBelongs'
  BY DEF TypeOK, OneCreation, OwnerBelongs
<1>7. JoinedUnlessLeft'
  BY DEF TypeOK, JoinedUnlessLeft, Leaving, IsMember
<1> QED  BY <1>1, <1>2, <1>3, <1>4, <1>5, <1>6, <1>7

\* The membership check.
LEMMA FindInv ==
    ASSUME GroupInv, NEW r \in Requests, Find(r)
    PROVE  GroupInv'
<1> USE DEF GroupInv, Find, MayWrite, IsMember, Goto, Return, Is, User, Invite, tables, locals
<1>1. TypeOK'
  BY DEF TypeOK, Labels
<1>2. Position'
  BY RequestFields DEF TypeOK, Position, OwnerBelongs
<1>3. OneCreation'
  BY DEF TypeOK, OneCreation
<1>4. HeldInvites'
  BY DEF TypeOK, HeldInvites
<1>5. OneUncommitted'
  BY DEF TypeOK, OneUncommitted
<1>6. OwnerBelongs'
  BY DEF TypeOK, OwnerBelongs
<1>7. JoinedUnlessLeft'
  BY DEF TypeOK, JoinedUnlessLeft, Leaving
<1> QED  BY <1>1, <1>2, <1>3, <1>4, <1>5, <1>6, <1>7

\* An invite is issued by a member.
LEMMA CreateInviteInv ==
    ASSUME GroupInv, NEW r \in Requests, CreateInvite(r)
    PROVE  GroupInv'
<1> USE DEF GroupInv, CreateInvite, Goto, Return, Is, User, Invite, tables, locals
<1>0. Invite(r) \in Invites
  BY RequestFields
<1>1. TypeOK'
  BY <1>0 DEF TypeOK, Labels
<1>2. Position'
  BY <1>0 DEF TypeOK, Position
<1>3. OneCreation'
  BY <1>0 DEF TypeOK, Position, OneCreation
<1>4. HeldInvites'
  BY <1>0 DEF TypeOK, HeldInvites
<1>5. OneUncommitted'
  BY <1>0 DEF TypeOK, OneUncommitted
<1>6. OwnerBelongs'
  BY <1>0 DEF TypeOK, OwnerBelongs
<1>7. JoinedUnlessLeft'
  BY <1>0 DEF TypeOK, JoinedUnlessLeft, Leaving, IsMember
<1> QED  BY <1>1, <1>2, <1>3, <1>4, <1>5, <1>6, <1>7

\* A revocation waits for the joins that hold its invite.
LEMMA RevokeInviteInv ==
    ASSUME GroupInv, NEW r \in Requests, RevokeInvite(r)
    PROVE  GroupInv'
<1> USE DEF GroupInv, RevokeInvite, Locked, Goto, Return, Is, User, Invite, tables, locals
<1>1. TypeOK'
  BY DEF TypeOK, Labels
<1>2. Position'
  BY DEF TypeOK, Position
<1>3. OneCreation'
  BY DEF TypeOK, OneCreation
<1>4. HeldInvites'
  BY DEF TypeOK, HeldInvites
<1>5. OneUncommitted'
  BY DEF TypeOK, OneUncommitted
<1>6. OwnerBelongs'
  BY DEF TypeOK, OwnerBelongs
<1>7. JoinedUnlessLeft'
  BY DEF TypeOK, JoinedUnlessLeft, Leaving, IsMember
<1> QED  BY <1>1, <1>2, <1>3, <1>4, <1>5, <1>6, <1>7

\* A join takes the lock of a usable invite.
LEMMA FindUsableInviteInv ==
    ASSUME GroupInv, NEW r \in Requests, FindUsableInvite(r)
    PROVE  GroupInv'
<1> USE DEF GroupInv, FindUsableInvite, Goto, Return, Is, User, Invite, tables, locals
<1>1. TypeOK'
  BY DEF TypeOK, Labels
<1>2. Position'
  BY DEF TypeOK, Position
<1>3. OneCreation'
  BY DEF TypeOK, OneCreation
<1>4. HeldInvites'
  BY DEF TypeOK, HeldInvites
<1>5. OneUncommitted'
  BY DEF TypeOK, OneUncommitted
<1>6. OwnerBelongs'
  BY DEF TypeOK, OwnerBelongs
<1>7. JoinedUnlessLeft'
  BY DEF TypeOK, JoinedUnlessLeft, Leaving, IsMember
<1> QED  BY <1>1, <1>2, <1>3, <1>4, <1>5, <1>6, <1>7

\* A join inserts a membership nobody has or is inserting.
LEMMA AddMemberInv ==
    ASSUME GroupInv, NEW r \in Requests, AddMember(r)
    PROVE  GroupInv'
<1> USE DEF GroupInv, AddMember, Waits, IsMember, Goto, Return, Is, User, Invite, tables, locals
<1>1. TypeOK'
  BY DEF TypeOK, Labels
<1>2. Position'
  BY DEF TypeOK, Position
<1>3. OneCreation'
  BY DEF TypeOK, OneCreation
<1>4. HeldInvites'
  BY DEF TypeOK, HeldInvites
<1>5. OneUncommitted'
  BY DEF TypeOK, OneUncommitted
<1>6. OwnerBelongs'
  BY DEF TypeOK, OwnerBelongs
<1>7. JoinedUnlessLeft'
  BY DEF TypeOK, JoinedUnlessLeft, Leaving
<1> QED  BY <1>1, <1>2, <1>3, <1>4, <1>5, <1>6, <1>7

\* A join commits.
LEMMA CommitJoinInv ==
    ASSUME GroupInv, NEW r \in Requests, CommitJoin(r)
    PROVE  GroupInv'
<1> USE DEF GroupInv, CommitJoin, IsMember, Goto, Return, Is, User, Invite, tables, locals
<1>1. TypeOK'
  BY DEF TypeOK, Labels
<1>2. Position'
  BY DEF TypeOK, Position
<1>3. OneCreation'
  BY DEF TypeOK, OneCreation
<1>4. HeldInvites'
  BY DEF TypeOK, HeldInvites
<1>5. OneUncommitted'
  BY DEF TypeOK, OneUncommitted
<1>6. OwnerBelongs'
  BY DEF TypeOK, OneCreation, HeldInvites, OneUncommitted, OwnerBelongs
<1>7. JoinedUnlessLeft'
  BY DEF TypeOK, JoinedUnlessLeft, Leaving
<1> QED  BY <1>1, <1>2, <1>3, <1>4, <1>5, <1>6, <1>7

\* A join reads its answer back.
LEMMA RereadInv ==
    ASSUME GroupInv, NEW r \in Requests, Reread(r)
    PROVE  GroupInv'
<1> USE DEF GroupInv, Reread, IsMember, Goto, Return, Is, User, Invite, tables, locals
<1>1. TypeOK'
  BY DEF TypeOK, Labels
<1>2. Position'
  BY DEF TypeOK, Position
<1>3. OneCreation'
  BY DEF TypeOK, OneCreation
<1>4. HeldInvites'
  BY DEF TypeOK, HeldInvites
<1>5. OneUncommitted'
  BY DEF TypeOK, OneUncommitted
<1>6. OwnerBelongs'
  BY DEF TypeOK, OwnerBelongs
<1>7. JoinedUnlessLeft'
  BY DEF TypeOK, JoinedUnlessLeft, Leaving
<1> QED  BY <1>1, <1>2, <1>3, <1>4, <1>5, <1>6, <1>7

\* A leave clears the pin.
LEMMA ClearPinInv ==
    ASSUME GroupInv, NEW r \in Requests, ClearPin(r)
    PROVE  GroupInv'
<1> USE DEF GroupInv, ClearPin, Goto, Return, Is, User, Invite, tables, locals
<1>1. TypeOK'
  BY DEF TypeOK, Labels
<1>2. Position'
  BY DEF TypeOK, Position
<1>3. OneCreation'
  BY DEF TypeOK, OneCreation
<1>4. HeldInvites'
  BY DEF TypeOK, HeldInvites
<1>5. OneUncommitted'
  BY DEF TypeOK, OneUncommitted
<1>6. OwnerBelongs'
  BY DEF TypeOK, OwnerBelongs
<1>7. JoinedUnlessLeft'
  BY DEF TypeOK, JoinedUnlessLeft, Leaving, IsMember
<1> QED  BY <1>1, <1>2, <1>3, <1>4, <1>5, <1>6, <1>7

\* A leave removes a member who is not the owner.
LEMMA RemoveMemberInv ==
    ASSUME GroupInv, NEW r \in Requests, RemoveMember(r)
    PROVE  GroupInv'
<1> USE DEF GroupInv, RemoveMember, IsMember, Goto, Return, Is, User, Invite, tables, locals
<1>1. TypeOK'
  BY DEF TypeOK, Labels
<1>2. Position'
  BY DEF TypeOK, Position
<1>3. OneCreation'
  BY DEF TypeOK, OneCreation
<1>4. HeldInvites'
  BY DEF TypeOK, HeldInvites
<1>5. OneUncommitted'
  BY DEF TypeOK, OneUncommitted
<1>6. OwnerBelongs'
  BY DEF TypeOK, Position, OwnerBelongs
<1>7. JoinedUnlessLeft'
  BY DEF TypeOK, JoinedUnlessLeft, Leaving
<1> QED  BY <1>1, <1>2, <1>3, <1>4, <1>5, <1>6, <1>7

\* A pin.
LEMMA PinInv ==
    ASSUME GroupInv, NEW r \in Requests, Pin(r)
    PROVE  GroupInv'
<1> USE DEF GroupInv, Pin, Goto, Return, Is, User, Invite, tables, locals
<1>1. TypeOK'
  BY RequestFields DEF TypeOK, Labels
<1>2. Position'
  BY DEF TypeOK, Position
<1>3. OneCreation'
  BY DEF TypeOK, OneCreation
<1>4. HeldInvites'
  BY DEF TypeOK, HeldInvites
<1>5. OneUncommitted'
  BY DEF TypeOK, OneUncommitted
<1>6. OwnerBelongs'
  BY DEF TypeOK, OwnerBelongs
<1>7. JoinedUnlessLeft'
  BY DEF TypeOK, JoinedUnlessLeft, Leaving, IsMember
<1> QED  BY <1>1, <1>2, <1>3, <1>4, <1>5, <1>6, <1>7

\* An unpin.
LEMMA UnpinInv ==
    ASSUME GroupInv, NEW r \in Requests, Unpin(r)
    PROVE  GroupInv'
<1> USE DEF GroupInv, Unpin, Goto, Return, Is, User, Invite, tables, locals
<1>1. TypeOK'
  BY DEF TypeOK, Labels
<1>2. Position'
  BY DEF TypeOK, Position
<1>3. OneCreation'
  BY DEF TypeOK, OneCreation
<1>4. HeldInvites'
  BY DEF TypeOK, HeldInvites
<1>5. OneUncommitted'
  BY DEF TypeOK, OneUncommitted
<1>6. OwnerBelongs'
  BY DEF TypeOK, OwnerBelongs
<1>7. JoinedUnlessLeft'
  BY DEF TypeOK, JoinedUnlessLeft, Leaving, IsMember
<1> QED  BY <1>1, <1>2, <1>3, <1>4, <1>5, <1>6, <1>7

\* A request breaks off.
LEMMA BreakOffInv ==
    ASSUME GroupInv, NEW r \in Requests, BreakOff(r)
    PROVE  GroupInv'
<1> USE DEF GroupInv, BreakOff, Goto, Return, Is, User, Invite, tables, locals
<1>1. TypeOK'
  BY DEF TypeOK, Labels
<1>2. Position'
  BY DEF TypeOK, Position
<1>3. OneCreation'
  BY DEF TypeOK, OneCreation
<1>4. HeldInvites'
  BY DEF TypeOK, HeldInvites
<1>5. OneUncommitted'
  BY DEF TypeOK, OneUncommitted
<1>6. OwnerBelongs'
  BY DEF TypeOK, OwnerBelongs
<1>7. JoinedUnlessLeft'
  BY DEF TypeOK, JoinedUnlessLeft, Leaving, IsMember
<1> QED  BY <1>1, <1>2, <1>3, <1>4, <1>5, <1>6, <1>7

\* The next-state relation preserves the invariant.
LEMMA NextInv ==
    ASSUME GroupInv, [Next]_vars
    PROVE  GroupInv'
<1>1. CASE UNCHANGED vars
  BY <1>1 DEF vars, GroupInv, TypeOK, Position, OneCreation, HeldInvites,
     OneUncommitted, OwnerBelongs, JoinedUnlessLeft, Leaving, Is, User, Invite,
     IsMember
<1>2. ASSUME NEW r \in Requests, Step(r) PROVE GroupInv'
  BY <1>2, CreateInv, FindInv, CreateInviteInv, RevokeInviteInv,
     FindUsableInviteInv, AddMemberInv, CommitJoinInv, RereadInv, ClearPinInv,
     RemoveMemberInv, PinInv, UnpinInv DEF Step
<1>3. ASSUME NEW i \in Invites, Expire(i) PROVE GroupInv'
  <2>1. TypeOK'
    BY <1>3 DEF GroupInv, Expire, TypeOK, tables
  <2> QED
    BY <1>3, <2>1 DEF Expire, tables, GroupInv, Position, OneCreation,
       HeldInvites, OneUncommitted, OwnerBelongs, JoinedUnlessLeft, Leaving, Is,
       User, Invite, IsMember
<1> QED  BY <1>1, <1>2, <1>3, BeginInv, BreakOffInv DEF Next

\* Whatever requests run side by side and wherever they break off, the tables
\* are well formed, a group always has an owner who belongs to it, and a user
\* told that they joined is a member until they leave.
THEOREM GroupCorrect == Spec => [](TypeOK /\ OwnerBelongs /\ JoinedUnlessLeft)
<1>1. Init => GroupInv
  BY InitInv
<1>2. GroupInv /\ [Next]_vars => GroupInv'
  BY NextInv
<1>3. GroupInv => TypeOK /\ OwnerBelongs /\ JoinedUnlessLeft
  BY DEF GroupInv
<1> QED  BY <1>1, <1>2, <1>3, PTL DEF Spec

\* A new member has come in by a join that held, up to that moment, an invite
\* nobody had revoked: a revocation takes effect before the join or after it.
THEOREM GroupJoins == Spec => JoinsNeedLiveInvite
<1> DEFINE Joins ==
       \A u \in Users : role[u] = "none" /\ role'[u] = "member" =>
          \E r \in Requests : /\ Is(r, "join") /\ User(r) = u /\ pc[r] = "commit"
                              /\ Invite(r) \in issued' \ revoked'
<1>1. ASSUME GroupInv, [Next]_vars PROVE Joins
  <2> USE <1>1 DEF GroupInv
  <2>1. ASSUME NEW r \in Requests, CommitJoin(r) PROVE Joins
    BY <2>1 DEF CommitJoin, HeldInvites, TypeOK
  <2>2. ASSUME NEW r \in Requests, Create(r) PROVE Joins
    BY <2>2 DEF Create, TypeOK
  <2>3. ASSUME NEW r \in Requests, RemoveMember(r) PROVE Joins
    BY <2>3 DEF RemoveMember, TypeOK
  <2>4. ASSUME UNCHANGED role PROVE Joins
    BY <2>4
  <2> QED
    BY <2>1, <2>2, <2>3, <2>4 DEF Next, Step, vars, Begin, Find, CreateInvite,
       RevokeInvite, FindUsableInvite, AddMember, Reread, ClearPin, Pin, Unpin,
       BreakOff, Expire, tables
<1>2. Init => GroupInv
  BY InitInv
<1>3. GroupInv /\ [Next]_vars => GroupInv'
  BY NextInv
<1>4. GroupInv /\ [Next]_vars => [Joins]_vars
  BY <1>1
<1> QED  BY <1>2, <1>3, <1>4, PTL DEF Spec, JoinsNeedLiveInvite
\* The tables of a group are well formed whatever breaks off; an invite is
\* revoked or expires only after it was issued.
THEOREM GroupTyped == Spec => []TypeOK
  BY GroupCorrect, PTL

\* No order of joins and leaves takes the owner's membership away, gives it to
\* another or turns the owner into a plain member.
THEOREM OwnerStays == Spec => []OwnerBelongs
  BY GroupCorrect, PTL

\* A user who was told that they joined is a member until they leave, even if
\* the row was another join's.
THEOREM ToldMeansJoined == Spec => []JoinedUnlessLeft
  BY GroupCorrect, PTL
=============================================================================
