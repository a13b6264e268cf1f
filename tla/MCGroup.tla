------------------------------- MODULE MCGroup -------------------------------
(***************************************************************************)
(* Small instances of Group: an owner, one other user, one invite, five    *)
(* requests that are given a few operations each to turn out to be.        *)
(***************************************************************************)
EXTENDS GroupProperties, TLC

CONSTANTS o, a, i1, r1, r2, r3, r4, r5

OwnerAndGuest == {o, a}
OneInvite == {i1}
FiveRequests == {r1, r2, r3, r4, r5}

Asks(k, u) == [kind |-> k, user |-> u]
AsksWith(k, u) == [kind |-> k, user |-> u, invite |-> i1]

\* The owner creates the group and an invite, which is used twice and revoked
\* while a member leaves or pins.
Membership ==
    r1 :> {Asks("create", o)} @@
    r2 :> {AsksWith("invite", o)} @@
    r3 :> {AsksWith("join", a), AsksWith("join", o)} @@
    r4 :> {AsksWith("join", a), AsksWith("revoke", a), Asks("leave", o), Asks("pin", a)} @@
    r5 :> {AsksWith("revoke", o), Asks("leave", a), Asks("unpin", a)}

\* A member who pins the group and leaves it at the same time.
Pinning ==
    r1 :> {Asks("create", o)} @@
    r2 :> {AsksWith("invite", o)} @@
    r3 :> {AsksWith("join", a)} @@
    r4 :> {Asks("pin", a)} @@
    r5 :> {Asks("leave", a)}
=============================================================================
