------------------------------- MODULE MCChat -------------------------------
(***************************************************************************)
(* Small instances of Chat: two users, two groups, and four requests       *)
(* that are given a few operations each to turn out to be.                 *)
(***************************************************************************)
EXTENDS ChatProperties, TLC

CONSTANTS u1, u2, g1, g2, k1, m1, r1, r2, r3, r4

TwoUsers == {u1, u2}
TwoGroups == {g1, g2}
OneKey == {k1}
OneMeal == {m1}
Everyone == TwoUsers \X TwoGroups
Nobody == {}
U1LeavesG1 == {<<u1, g1>>}

Sending(u, g) == [kind |-> "send", user |-> u, group |-> g, key |-> k1]
Sharing(u, g) == [kind |-> "meal", user |-> u, group |-> g, meal |-> m1]
Doing(k, u, t) == [kind |-> k, user |-> u, target |-> t]

\* Retries of one message, one of them perhaps by another user or in another
\* group; a meal shared several times; reactions and deletions meanwhile.
FourRequests == {r1, r2, r3, r4}
Mixed ==
    r1 :> {Sending(u1, g1), Sharing(u1, g1)} @@
    r2 :> {Sending(u1, g1), Sharing(u1, g1), Doing("react", u2, r1)} @@
    r3 :> {Sending(u1, g2), Sending(u2, g1), Sharing(u1, g1),
           Doing("react", u2, r1), Doing("unreact", u2, r1)} @@
    r4 :> {Doing("delete", u1, r1), Doing("delete", u2, r1)}
=============================================================================
