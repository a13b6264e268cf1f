-------------------------------- MODULE MCMeal --------------------------------
(***************************************************************************)
(* A small instance of Meal: two users, of whom one shares a meal of two   *)
(* photos in two groups, while avatars are replaced and others uploaded.   *)
(***************************************************************************)
EXTENDS MealProperties, TLC

CONSTANTS a, b, g1, g2, g3, u1, u2, u3, r1, r2, r3, None

TwoUsers == {a, b}
ThreeGroups == {g1, g2, g3}
TwoFields == {"eaten_at", "description"}
ThreeUploads == {u1, u2, u3}
ThreeRequests == {r1, r2, r3}

Picture(kind) == [kind |-> kind, user |-> a, photos |-> 1]

Pictures ==
    u1 :> {[kind |-> "meal", user |-> a, photos |-> 2], Picture("avatar")} @@
    u2 :> {Picture("avatar"), Picture("sticker")} @@
    u3 :> {Picture("avatar"), Picture("media"), [kind |-> "open", user |-> b, picture |-> u2]}

Ask4(kind, u) == [kind |-> kind, user |-> u, meal |-> u1]
Sharing(groups) == [kind |-> "share", user |-> a, meal |-> u1, groups |-> groups]
Editing(field) == [kind |-> "update", user |-> a, meal |-> u1, fields |-> {field}]
Unsharing == [kind |-> "unshare", user |-> a, meal |-> u1, group |-> g1]

\* The meal is shared, and taken back, edited or deleted meanwhile, and asked for.
Mixed ==
    r1 :> {Sharing(<<g1, g2>>), Sharing(<<g1, g3>>)} @@
    r2 :> {Unsharing, Ask4("delete", a)} @@
    r3 :> {Sharing(<<g1>>), Ask4("shares", a), Editing("eaten_at"), Ask4("read", b),
           [kind |-> "photo", user |-> b, meal |-> u1, photo |-> 2]}

\* g3 is the group of strangers; b may leave g1.
Memberships == {<<a, g1>>, <<a, g2>>, <<b, g1>>}
OutOfG1 == {<<b, g1>>}

\* Nobody can ask for a meal before its creation has answered, and who looks at
\* meals and who looks at avatars and stickers do not meet: the instance takes one
\* after the other, not their product.  Only the card in g1 is deleted.
Apart ==
    \/ (\A r \in Requests : pc[r] = "idle") /\ members = Memberships
    \/ /\ u1 \in kept \ doubtful /\ Asks(u1, "meal") /\ step[u1] = "done"
       /\ step[u2] = "idle" /\ step[u3] = "idle"
       /\ card[u1][g2] # "deleted"
=============================================================================
