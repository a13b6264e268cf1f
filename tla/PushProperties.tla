---------------------------- MODULE PushProperties ----------------------------
(***************************************************************************)
(* What makes push notifications correct, stated over the variables of     *)
(* Push.                                                                   *)
(***************************************************************************)
EXTENDS Push

TypeOK ==
    /\ op \in [Requests -> {NoOp} \cup UNION {MayAsk[r] : r \in Requests}]
    /\ pc \in [Requests -> {"idle", "cleanup", "insert", "remove", "list",
                            "consider", "send", "done"}]
    /\ answer \in [Requests -> {"none", "ok", "error"}]
    /\ rows \in SUBSET {r \in Requests : Is(r, "subscribe")}
    /\ dead \in SUBSET Endpoints
    /\ group \in [Requests -> Groups \cup {NoGroup}]
    /\ todo \in [Requests -> SUBSET Requests]
    /\ worker \in [Requests -> [Requests ->
                     {"none", "queued", "sending", "pruning", "done"}]]
    /\ tries \in [Requests -> [Requests -> 0..Attempts]]
    /\ reached \in [Requests -> SUBSET Requests]
    /\ ended \in [Requests -> {"no", "timeout", "returned"}]
    /\ lease \in [Keys -> Groups \cup {NoGroup}]
    /\ socket \in [Sockets -> {"new", "reading", "renewing", "closed"}]
    /\ held \in [Sockets -> BOOLEAN]
    /\ Cardinality(Busy) <= Slots

\* A live subscription is lost only by what its own device or user asks: a
\* notification that works on a row listed long ago, and finds its endpoint
\* gone, never takes the row with which the device has registered since.
LiveRowsStay ==
    [][\A q \in rows \ rows' :
          \/ op[q].endpoint \in dead
          \/ \E r \in Requests :
                /\ pc[r] \in {"cleanup", "remove"} /\ pc'[r] # pc[r]
                /\ IF Is(r, "subscribe") THEN Conflicts(q, r) ELSE Asked(r, q)]_vars

\* "At most one push notification per user device": a meal shared into several
\* groups of one member, and a device that registers again while it is being
\* notified, give each device at most one worker.
OncePerDevice ==
    \A n \in Requests : \A p, q \in Targets(n) : Key(p) = Key(q) => p = q

\* A notification's worker ends without having asked the push service only if
\* the notification ran out of time.
Tried(n) ==
    \A q \in Requests :
       worker[n][q] = "done" => q \in reached[n] \/ ended[n] = "timeout"

\* "Detach context so caller cancellation does not terminate in-flight push
\* delivery": nothing but its own timeout keeps a message from the devices it
\* was meant for.
MessagesAreTried == \A n \in Requests : Is(n, "message") => Tried(n)

\* "Detached context so share completion returns immediately": the same for a
\* shared meal.
SharesAreTried == \A n \in Requests : Is(n, "share") => Tried(n)

\* A device whose connections are closed is spared no notification: its lease
\* went with the last of them, however their readers overlapped.
LeaseNeedsSocket ==
    \A k \in Keys : lease[k] # NoGroup =>
       \E c \in Sockets : Holder[c] = k /\ held[c] /\ socket[c] # "closed"

\* Every notification ends and gives back its slots, whatever endpoints do and
\* however many wait for a slot.
NotificationsEnd ==
    \A n \in Notifications :
       (pc[n] = "list") ~>
          (pc[n] = "done" /\ \A q \in Requests : worker[n][q] \in {"none", "done"})
=============================================================================
