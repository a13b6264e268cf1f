---------------------------- MODULE MealProperties ----------------------------
(***************************************************************************)
(* What makes the sharing of meals correct, stated over the variables of   *)
(* Meal.                                                                   *)
(***************************************************************************)
EXTENDS Meal, MediaProperties

TypeOK ==
    /\ PicturesTypeOK
    /\ members \in SUBSET (Users \X Groups)
    /\ op \in [Requests -> {NoOp} \cup UNION {MayAsk[r] : r \in Requests}]
    /\ pc \in [Requests -> {"idle", "own", "write", "groups", "share", "announce",
                            "lookup", "confirm", "list", "find", "open", "done"}]
    /\ answer \in [Requests -> {"none", "ok", "refused", "missing", "gone", "error"}]
    /\ joined \in [Requests -> SUBSET Groups]
    /\ before \in [Requests -> SUBSET Requests]
    /\ mine \in [Requests -> SUBSET Groups]
    /\ later \in [Requests -> Seq(Groups)]
    /\ share \in [Uploads -> [Groups -> Requests \cup {NoRequest}]]
    /\ revoked \in [Uploads -> [Groups -> Requests \cup {NoRequest}]]
    /\ card \in [Uploads -> [Groups -> {"none", "live", "deleted"}]]
    /\ deleted \in [Uploads -> Requests \cup {NoRequest}]
    /\ text \in [Uploads -> [Fields -> Requests \cup {NoRequest}]]
    /\ read \in [Requests -> [Fields -> Requests \cup {NoRequest}]]

\* "A message that arrived before the share existed would show a card nobody
\* could open": no card without a share; and a share answered as done has its
\* card and its share in every group it was asked for, unless another request
\* took the share back that had not ended when this one began.
CardsCanBeOpened ==
    /\ \A m \in Uploads, g \in Groups : card[m][g] # "none" => share[m][g] # NoRequest
    /\ \A r \in Requests : Is(r, "share") /\ answer[r] = "ok" =>
          \A g \in Wanted(r) :
             /\ card[Target(r)][g] # "none"
             /\ revoked[Target(r)][g] \notin before[r]

\* Open to r: its groups, when r began, whose share nobody had taken back by then.
OpenTo(r) ==
    {g \in joined[r] : /\ share[Target(r)][g] # NoRequest
                       /\ revoked[Target(r)][g] \notin before[r]}

\* "Sharing into a group you are not in would hand your meal to strangers, and
\* refusing halfway would leave the earlier groups already shared": a share is
\* its owner's, into a group he was in, and a refused request wrote none.  A card
\* "cannot outlive the share": what a request shows is its user's own or open to
\* him, and of no meal that was deleted before it began.
OutsidersNeitherShareNorSee ==
    /\ \A m \in Uploads, g \in Groups : share[m][g] # NoRequest =>
          LET r == share[m][g]
          IN  User(r) = Person(m) /\ g \in joined[r] /\ answer[r] # "refused"
    /\ \A r \in Requests : op[r].kind \in {"read", "photo"} /\ answer[r] = "ok" =>
          /\ User(r) = Person(Target(r)) \/ OpenTo(r) # {}
          /\ deleted[Target(r)] \notin before[r]
=============================================================================
