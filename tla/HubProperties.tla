---------------------------- MODULE HubProperties ----------------------------
(***************************************************************************)
(* What makes the hub correct, stated over the variables of Hub.           *)
(***************************************************************************)
EXTENDS Hub

TypeOK ==
    /\ log \in Seq(Groups)
    /\ fanning \in BOOLEAN
    /\ todo \in SUBSET registered
    /\ registered \in SUBSET Subs
    /\ from \in [Subs -> Nat]
    /\ sent \in [Subs -> Seq(Nat)]
    /\ read \in [Subs -> Nat]
    /\ closed \in [Subs -> BOOLEAN]
    /\ reader \in [Subs -> {"new", "reading", "closing", "gone"}]
    /\ panicked \in BOOLEAN

\* No interleaving of Broadcast, a drop and the handler's deferred Close sends
\* on a closed channel or closes one twice: either would bring the API down.
NoPanic == ~panicked

\* Event i has been put on s's channel.
WasSent(s, i) == \E j \in 1..Len(sent[s]) : sent[s][j] = i

\* A connection that was not told otherwise has been given everything: as long
\* as its channel is open, each event broadcast in its scope since it
\* subscribed, but for the one the hub is about to offer it, was sent to it.
NoSilentLoss ==
    \A s \in Subs : reader[s] # "new" /\ ~closed[s] =>
       \A i \in (from[s] + 1)..Len(log) :
          InScope(s, log[i]) =>
             WasSent(s, i) \/ (s \in todo /\ i = Len(log))

\* Where s stood when the j-th event was put on its channel.
Before(s, j) == IF j = 1 THEN from[s] ELSE sent[s][j - 1]

\* A connection, dropped or not, holds an unbroken run of its scope's events in
\* the order of the broadcasts: none is skipped, repeated, reordered or from
\* another group, so the place where history must take over is the end.
UnbrokenRun ==
    \A s \in Subs : \A j \in 1..Len(sent[s]) :
       /\ sent[s][j] \in (Before(s, j) + 1)..Len(log)
       /\ InScope(s, log[sent[s][j]])
       /\ \A k \in (Before(s, j) + 1)..(sent[s][j] - 1) : ~InScope(s, log[k])

-----------------------------------------------------------------------------
\* "One stalled phone must not hold up the broadcast to everyone else": every
\* Broadcast returns although no reader is ever obliged to receive.
BroadcastReturns == fanning ~> ~fanning

\* An event broadcast to a connection that stays, and whose own phone is not
\* stalled, is received, or the connection learns that it was dropped and ends.
DeliveredOrDropped ==
    \A s \in Subs : ReaderFairness(s) =>
       \A i \in 1..MaxBroadcasts :
          (s \in todo /\ fanning /\ Len(log) = i) ~>
             (reader[s] # "reading" \/ \E j \in 1..read[s] : sent[s][j] = i)

\* A connection that was dropped, or whose handler returned, leaves the hub for
\* good although broadcasts keep taking the mutex its Close waits for.
StoppedReaderIsRemoved ==
    \A s \in Subs : ReaderFairness(s) =>
       (closed[s] \/ reader[s] = "closing") ~>
          (reader[s] = "gone" /\ s \notin registered)

-----------------------------------------------------------------------------
(***************************************************************************)
(* The hub implements Feed.  A connection is joined while its handler      *)
(* reads, and has heard up to the last event it received.                  *)
(***************************************************************************)
Heard == [s \in Subs |-> IF read[s] = 0 THEN from[s] ELSE sent[s][read[s]]]

Status == [s \in Subs |-> IF reader[s] = "new" THEN "new"
                          ELSE IF reader[s] = "reading" THEN "joined" ELSE "left"]

F == INSTANCE Feed WITH heard <- Heard, status <- Status

\* Every behaviour of the hub, seen by its readers, is one Feed allows.
ImplementsFeed == F!Spec
=============================================================================
