-------------------------------- MODULE MCPush --------------------------------
(***************************************************************************)
(* Small instances of Push: a sender and a receiver who share two groups,  *)
(* and three requests that are given a few operations each.                 *)
(***************************************************************************)
EXTENDS PushProperties, TLC

CONSTANTS a, b, d1, d2, e1, e2, g1, g2, r1, r2, r3, c1, c2, None

TwoUsers == {a, b}
TwoDevices == {d1, d2}
TwoEndpoints == {e1, e2}
TwoGroups == {g1, g2}
InBoth == [u \in TwoUsers |-> TwoGroups]
ThreeRequests == {r1, r2, r3}
TwoSockets == {c1, c2}
SamePhone == [c \in TwoSockets |-> <<b, d1>>]
SameGroup == [c \in TwoSockets |-> g1]

Registering(d, e) == [kind |-> "subscribe", user |-> b, device |-> d, endpoint |-> e]
Messaging(g) == [kind |-> "message", user |-> a, groups |-> <<g>>]
Sharing == [kind |-> "share", user |-> a, groups |-> <<g1, g2>>]

\* The receiver registers one device twice, or two devices, or goes again, while
\* a message or a meal is on its way.
Mixed ==
    r1 :> {Registering(d1, e1)} @@
    r2 :> {Registering(d1, e2), Registering(d2, e2),
           [kind |-> "unsubscribe", user |-> b, endpoint |-> e1],
           [kind |-> "logout", user |-> b, device |-> d1]} @@
    r3 :> {Messaging(g1), Sharing}
=============================================================================
