--------------------------- MODULE GroupProperties ---------------------------
(***************************************************************************)
(* What makes the group service correct, stated over the variables of      *)
(* Group.                                                                  *)
(***************************************************************************)
EXTENDS Group

Labels == {"idle", "create", "find", "write", "lock", "add", "commit",
           "reread", "remove", "done"}

TypeOK ==
    /\ op \in [Requests -> Operations \cup {NoOp}]
    /\ pc \in [Requests -> Labels]
    /\ owner \in Users \cup {Nobody}
    /\ role \in [Users -> {"none", "member", "owner"}]
    /\ pinned \in SUBSET Users
    /\ issued \in SUBSET Invites
    /\ expired \in SUBSET issued
    /\ revoked \in SUBSET issued
    /\ timely \in [Requests -> BOOLEAN]
    /\ pending \in [Requests -> BOOLEAN]
    /\ answer \in [Requests -> {"none", "ok", "refused", "error"}]
    /\ failures \in Nat

\* "A group always has an owner": whatever joins, leaves and failures happen,
\* the user in groups.owner_id has the owner's membership and nobody else does,
\* even when the owner follows an invite link to the group.
OwnerBelongs ==
    /\ owner = Nobody => \A u \in Users : role[u] = "none"
    /\ owner # Nobody => \A u \in Users : role[u] = "owner" <=> u = owner

\* "A revoke arriving between this check and the membership insert has to
\* wait": the moment a user becomes a member there is a join of that user whose
\* invite is not revoked.
JoinsNeedLiveInvite ==
    [][\A u \in Users : role[u] = "none" /\ role'[u] = "member" =>
          \E r \in Requests : /\ Is(r, "join") /\ User(r) = u /\ pc[r] = "commit"
                              /\ Invite(r) \in issued' \ revoked']_vars

\* A leave of u that may have removed the membership.
Leaving(u) ==
    \E r \in Requests : Is(r, "leave") /\ User(r) = u /\ pc[r] \in {"remove", "done"}

\* A user told that they joined is a member, whichever of several joins put the
\* row there, unless they left themselves.
JoinedUnlessLeft ==
    \A r \in Requests : Is(r, "join") /\ answer[r] = "ok" =>
       IsMember(User(r)) \/ Leaving(User(r))

\* "It has no meaning once they are no longer in it, and leaving-then-rejoining
\* should not silently resurrect a stale pin": only members have a pin.
NoPinOutlivesMembership == \A u \in pinned : IsMember(u)

\* Nobody waits forever for the row locks of joins, which may break off.
RequestsFinish == \A r \in Requests : pc[r] # "idle" ~> pc[r] = "done"
=============================================================================
