--------------------------- MODULE ChatProperties ---------------------------
(***************************************************************************)
(* What makes the chat service correct, stated over the variables of Chat. *)
(***************************************************************************)
EXTENDS Chat, FiniteSets

Labels == {"idle", "check", "insert", "find", "get", "announce", "finish",
           "write", "commit", "recheck", "done"}

RowStates == {"none", "live", "deleted"}

Events == [kind : {"message", "deleted"}, id : Requests, shows : RowStates] \cup
          [kind : {"added", "removed"}, id : Requests, shows : Users]

TypeOK ==
    /\ members \in SUBSET (Users \X Groups)
    /\ op \in [Requests -> Operations \cup {NoOp}]
    /\ pc \in [Requests -> Labels]
    /\ row \in [Requests -> RowStates]
    /\ reactions \in SUBSET Requests
    /\ found \in [Requests -> Requests]
    /\ seen \in [Requests -> RowStates]
    /\ snap \in [Requests -> SUBSET Requests]
    /\ log \in Seq(Events)
    /\ advanced \in SUBSET Requests
    /\ pushed \in SUBSET Requests
    /\ answer \in [Requests -> {"none", "ok", "refused", "error"}]
    /\ outsiders \in SUBSET Requests
    /\ failures \in Nat

Happened(e) == \E i \in 1..Len(log) : log[i] = e

Announced(m) ==
    \E i \in 1..Len(log) : log[i].kind = "message" /\ log[i].id = m

-----------------------------------------------------------------------------
(***************************************************************************)
(* Sending.                                                                *)
(***************************************************************************)

\* Retrying is safe: however many requests carry one client_message_id, racing
\* or breaking off, there is one row for it, and every one of them that is
\* answered is answered with that row, in the group it asked about.
ExactlyOnce ==
    /\ \A q, r \in Requests :
          Is(r, "send") /\ Stored(q) /\ Stored(r) /\ SameKey(q, r) => q = r
    /\ \A r \in Requests :
          Is(r, "send") /\ answer[r] = "ok" =>
             /\ Stored(found[r])
             /\ SameKey(found[r], r)
             /\ op[found[r]].group = op[r].group

\* A message is announced at most once and its deletion at most once, although
\* several requests meet the same row; push is told only of what was announced.
ToldOnce ==
    /\ \A i, j \in 1..Len(log) :
          /\ log[i].kind \in {"message", "deleted"}
          /\ log[i].kind = log[j].kind
          /\ log[i].id = log[j].id
          => i = j
    /\ \A m \in pushed : Announced(m)

\* Persisted before broadcast: the hub is never told of a message that is not
\* stored or of a deletion that has not happened.
PersistedBeforeBroadcast ==
    \A i \in 1..Len(log) :
       /\ Stored(log[i].id)
       /\ log[i].kind = "deleted" => row[log[i].id] = "deleted"

\* Leaving takes effect at once: a request begun after its user left stores
\* nothing, changes nothing and is never answered as done.
OutsidersChangeNothing ==
    \A r \in outsiders : ~Stored(r) /\ r \notin reactions /\ answer[r] # "ok"

Settled == \A r \in Requests : pc[r] \in {"idle", "done"}

\* "Send stores a message and then hands the stored row to everyone connected":
\* once no request is running, each message a sender was told is sent has been
\* announced.
AcknowledgedIsAnnounced ==
    Settled => \A r \in Requests :
       Is(r, "send") /\ answer[r] = "ok" => Announced(found[r])

\* A stored message goes unannounced only if the very request that stored it
\* broke off: nothing else that happens to the row, a deletion or a retry,
\* keeps it from the others.
UnannouncedOnlyIfCutOff ==
    \A m \in Requests :
       Stored(m) /\ pc[m] = "done" => Announced(m) \/ answer[m] = "error"

-----------------------------------------------------------------------------
(***************************************************************************)
(* Meal cards.                                                             *)
(***************************************************************************)

\* A meal has at most one live card in a group, whoever shares and deletes at
\* the same time, and a share answered as done left a card in the table.
OneLiveCard ==
    /\ \A q, r \in Requests :
          /\ Is(r, "meal") /\ row[q] = "live" /\ row[r] = "live"
          /\ SameCard(q, r)
          => q = r
    /\ \A r \in Requests :
          Is(r, "meal") /\ answer[r] = "ok" =>
             Stored(found[r]) /\ SameCard(found[r], r)

-----------------------------------------------------------------------------
(***************************************************************************)
(* Reactions.                                                              *)
(***************************************************************************)

\* The events of kind about u's reaction to m that were or will be broadcast.
Told(kind, m, u) ==
    Cardinality({i \in 1..Len(log) : log[i] = Event(kind, m, u)}) +
    Cardinality({r \in Requests :
        /\ pc[r] = "announce"
        /\ op[r].kind \in {"react", "unreact"}
        /\ Announcement(r) = Event(kind, m, u)})

\* A request about u's reaction to m broke off, perhaps before its broadcast.
CutOff(m, u) ==
    \E r \in Requests :
       /\ answer[r] = "error"
       /\ op[r].kind \in {"react", "unreact"}
       /\ Target(r) = m /\ op[r].user = u

\* Nothing a watcher is told about reactions is lost or invented: for a live
\* message, and unless a request broke off, the additions less the removals of
\* a user's reaction, announced or about to be, are the rows in the table, in
\* whatever order they arrive.
ReactionLedger ==
    \A m \in Requests, u \in Users : row[m] = "live" /\ ~CutOff(m, u) =>
       Told("added", m, u) =
          Told("removed", m, u) +
          Cardinality({q \in reactions : Target(q) = m /\ op[q].user = u})

\* A caller is told its reaction is there only if it landed, then or before: a
\* deletion that comes between the check and the insert is reported.
DoneMeansLanded ==
    \A r \in Requests : Is(r, "react") /\ answer[r] = "ok" =>
       Told("added", Target(r), op[r].user) > 0 \/ CutOff(Target(r), op[r].user)

\* "A reaction that outlives its message is exactly what the tombstone is meant
\* to prevent": no row of message_reactions belongs to a deleted message.
NoReactionOutlivesMessage == \A q \in reactions : row[Target(q)] = "live"
-----------------------------------------------------------------------------
(***************************************************************************)
(* The chat service implements Conversation.  An insert, a tombstone, a    *)
(* reaction's insert or removal is the effect of its request, the insert   *)
(* or statement that finds it there its meeting; checks, snapshots and     *)
(* reads stutter.                                                          *)
(***************************************************************************)
Stage(r) ==
    CASE pc[r] = "idle" -> "new"
      [] pc[r] = "announce" \/ (pc[r] = "get" /\ IsNew(r)) -> "owing"
      [] pc[r] = "finish" -> "told"
      [] \/ pc[r] = "get" /\ ~IsNew(r) /\ op[found[r]].group = op[r].group
         \/ pc[r] = "recheck" /\ seen[r] = "live" -> "met"
      [] pc[r] = "done" -> "over"
      [] OTHER -> "asked"

Stages == [r \in Requests |-> Stage(r)]

C == INSTANCE Conversation WITH stage <- Stages

\* Whatever overlaps, is tried again or breaks off, the statements of a request
\* come to one step: every behaviour of the service, seen by its callers, its
\* tables and its watchers, is one Conversation allows.
ImplementsConversation == C!Spec
=============================================================================
