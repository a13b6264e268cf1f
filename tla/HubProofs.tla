------------------------------ MODULE HubProofs ------------------------------
(***************************************************************************)
(* Proofs that the hub keeps its promises for every set of groups and      *)
(* subscriptions, every buffer size and any number of broadcasts.          *)
(***************************************************************************)
EXTENDS HubProperties, TLAPS

\* Where a subscription is in its life: registered exactly between its
\* creation and the closing of its channel, and empty before it is created.
Lifecycle ==
    /\ \A s \in Subs : s \in registered <=> reader[s] # "new" /\ ~closed[s]
    /\ \A s \in Subs : reader[s] = "new" =>
          ~closed[s] /\ sent[s] = <<>> /\ read[s] = 0
    /\ \A s \in Subs : read[s] <= Len(sent[s]) /\ from[s] <= Len(log)

\* What a broadcast in progress still owes: the event just logged, to
\* subscriptions of its scope that have been given nothing as late.
Owed ==
    /\ ~fanning => todo = {}
    /\ fanning => log # <<>>
    /\ \A s \in todo :
          /\ InScope(s, log[Len(log)])
          /\ from[s] < Len(log)
          /\ \A j \in 1..Len(sent[s]) : sent[s][j] < Len(log)

\* The positions sent to a subscription grow, whatever the distance.
Increasing ==
    \A s \in Subs : \A j \in 1..Len(sent[s]) :
       /\ sent[s][j] \in (from[s] + 1)..Len(log)
       /\ \A k \in 1..(j - 1) : sent[s][k] < sent[s][j]

HubInv ==
    /\ TypeOK
    /\ Lifecycle
    /\ Owed
    /\ Increasing
    /\ NoSilentLoss
    /\ UnbrokenRun
    /\ NoPanic

USE HubAssumption

\* The hub's invariant holds before any connection exists.
LEMMA InitHubInv == Init => HubInv
<1> SUFFICES ASSUME Init PROVE HubInv
  OBVIOUS
<1> USE DEF Init
<1>1. TypeOK
  <2>1. <<>> \in Seq(Groups) /\ <<>> \in Seq(Nat)
    OBVIOUS
  <2>2. sent \in [Subs -> Seq(Nat)] /\ log \in Seq(Groups)
    BY <2>1
  <2>3. reader \in [Subs -> {"new", "reading", "closing", "gone"}]
    OBVIOUS
  <2> QED BY <2>2, <2>3 DEF TypeOK
<1>2. Lifecycle
  BY DEF Lifecycle
<1>3. Owed
  BY DEF Owed
<1>4. Increasing /\ UnbrokenRun
  BY DEF Increasing, UnbrokenRun
<1>5. NoSilentLoss /\ NoPanic
  BY DEF NoSilentLoss, NoPanic
<1> QED BY <1>1, <1>2, <1>3, <1>4, <1>5 DEF HubInv

\* A new subscription starts at the end of the log and has missed nothing.
LEMMA SubscribeHubInv ==
    ASSUME HubInv, NEW s \in Subs, Subscribe(s)
    PROVE  HubInv'
<1> USE DEF HubInv, Subscribe
<1>1. TypeOK'
  BY DEF TypeOK
<1>2. Lifecycle'
  BY DEF TypeOK, Lifecycle
<1>3. Owed'
  BY DEF TypeOK, Owed
<1>4. \A t \in Subs : \A j \in 1..Len(sent[t]) : t # s /\ from'[t] = from[t]
  BY DEF TypeOK, Lifecycle
<1>7. Increasing'
  BY <1>4 DEF Increasing
<1>8. UnbrokenRun'
  BY <1>4 DEF UnbrokenRun, Before, InScope
<1>5. NoSilentLoss'
  BY DEF TypeOK, NoSilentLoss, WasSent
<1>6. NoPanic'
  BY DEF NoPanic
<1> QED BY <1>1, <1>2, <1>3, <1>5, <1>6, <1>7, <1>8

\* Logging an event makes it owed to exactly the open subscriptions in scope.
LEMMA StartBroadcastHubInv ==
    ASSUME HubInv, NEW g \in Groups, StartBroadcast(g)
    PROVE  HubInv'
<1> USE DEF HubInv, StartBroadcast, Addressees
<1>1. TypeOK'
  BY DEF TypeOK
<1>2. /\ Len(log') = Len(log) + 1
      /\ \A i \in 1..Len(log) : log'[i] = log[i]
      /\ log'[Len(log')] = g
      /\ Len(log) \in Nat
  BY DEF TypeOK
<1>3. Lifecycle'
  BY <1>2 DEF TypeOK, Lifecycle
<1>4. Owed'
  <2>1. log' # <<>> /\ fanning'
    BY <1>2
  <2>2. ASSUME NEW t \in todo'
        PROVE  /\ InScope(t, log'[Len(log')])
               /\ from[t] < Len(log')
               /\ \A j \in 1..Len(sent[t]) : sent[t][j] < Len(log')
    <3>1. t \in Subs /\ InScope(t, g) /\ from[t] \in Nat
      BY <2>2 DEF TypeOK
    <3>2. from[t] < Len(log')
      BY <1>2, <3>1 DEF Lifecycle
    <3>3. \A j \in 1..Len(sent[t]) : sent[t][j] < Len(log')
      BY <1>2, <3>1 DEF Increasing
    <3> QED BY <1>2, <3>1, <3>2, <3>3
  <2> QED BY <2>1, <2>2 DEF Owed, InScope
<1>5. Increasing'
  BY <1>2 DEF TypeOK, Increasing
<1>6. UnbrokenRun'
  <2>1. ASSUME NEW t \in Subs, NEW j \in 1..Len(sent[t])
        PROVE  /\ sent[t][j] \in (Before(t, j) + 1)..Len(log')
               /\ InScope(t, log'[sent[t][j]])
               /\ \A k \in (Before(t, j) + 1)..(sent[t][j] - 1) :
                     ~InScope(t, log'[k])
    <3>1. Before(t, j) \in Nat
      BY DEF TypeOK, Before
    <3>2. /\ sent[t][j] \in (Before(t, j) + 1)..Len(log)
          /\ InScope(t, log[sent[t][j]])
          /\ \A k \in (Before(t, j) + 1)..(sent[t][j] - 1) : ~InScope(t, log[k])
      BY DEF UnbrokenRun
    <3> QED BY <1>2, <3>1, <3>2
  <2>2. sent' = sent /\ from' = from
    OBVIOUS
  <2> HIDE DEF HubInv, StartBroadcast
  <2> QED BY <2>1, <2>2 DEF UnbrokenRun, Before, InScope
<1>7. NoSilentLoss'
  <2> SUFFICES ASSUME NEW t \in Subs, reader[t] # "new", ~closed[t],
                      NEW i \in (from[t] + 1)..Len(log'), InScope(t, log'[i])
               PROVE  WasSent(t, i) \/ (t \in todo' /\ i = Len(log'))
    BY DEF NoSilentLoss, WasSent, InScope
  <2>1. CASE i = Len(log')
    BY <1>2, <2>1 DEF Lifecycle
  <2>2. CASE i # Len(log')
    <3>1. i \in (from[t] + 1)..Len(log) /\ InScope(t, log[i])
      BY <1>2, <2>2 DEF TypeOK
    <3>2. t \notin todo
      BY DEF Owed
    <3> QED BY <3>1, <3>2 DEF NoSilentLoss
  <2> QED BY <2>1, <2>2
<1>8. NoPanic'
  BY DEF NoPanic
<1> QED BY <1>1, <1>3, <1>4, <1>5, <1>6, <1>7, <1>8

\* The event goes to the end of the channel, or the subscription is dropped.
LEMMA OfferHubInv ==
    ASSUME HubInv, NEW s \in Subs, Offer(s)
    PROVE  HubInv'
<1> USE DEF HubInv
<1>1. s \in registered /\ ~closed[s] /\ reader[s] # "new"
  BY DEF Offer, TypeOK, Lifecycle
<1>2. CASE ~Full(s) /\ Send(s, Len(log)) /\ UNCHANGED <<registered, closed>>
  <2> USE <1>2 DEF Offer, Send
  <2>1. /\ Len(sent[s]) \in Nat /\ sent[s] \in Seq(Nat)
        /\ Len(sent'[s]) = Len(sent[s]) + 1
        /\ \A j \in 1..Len(sent[s]) : sent'[s][j] = sent[s][j]
        /\ sent'[s][Len(sent[s]) + 1] = Len(log)
        /\ \A t \in Subs \ {s} : sent'[t] = sent[t]
        /\ Len(log) \in Nat
    BY DEF TypeOK
  <2>2. TypeOK'
    BY DEF TypeOK
  <2>3. Lifecycle'
    BY <1>1, <2>1 DEF TypeOK, Lifecycle
  <2>4. Owed'
    BY <2>1 DEF TypeOK, Owed
  <2>5. from[s] < Len(log) /\ InScope(s, log[Len(log)])
        /\ \A j \in 1..Len(sent[s]) : sent[s][j] < Len(log)
    BY DEF Owed
  <2>6. Increasing'
    <3> SUFFICES ASSUME NEW t \in Subs, NEW j \in 1..Len(sent'[t])
                 PROVE  /\ sent'[t][j] \in (from[t] + 1)..Len(log)
                        /\ \A k \in 1..(j - 1) : sent'[t][k] < sent'[t][j]
      BY DEF Increasing
    <3>1. CASE t # s
      <4>1. sent'[t] = sent[t]
        BY <2>1, <3>1
      <4> QED BY <4>1 DEF Increasing
    <3>2. CASE t = s /\ j # Len(sent[s]) + 1
      <4>1. /\ j \in 1..Len(sent[s])
            /\ \A k \in 1..j : sent'[s][k] = sent[s][k]
        BY <2>1, <3>2
      <4> QED BY <3>2, <4>1 DEF Increasing
    <3>3. CASE t = s /\ j = Len(sent[s]) + 1
      <4>1. \A k \in 1..(j - 1) : sent'[s][k] = sent[s][k]
        BY <2>1, <3>3
      <4>2. from[s] \in Nat
        BY DEF TypeOK
      <4>3. sent'[t][j] = Len(log) /\ Len(log) \in (from[s] + 1)..Len(log)
        BY <2>1, <2>5, <3>3, <4>2
      <4>4. \A k \in 1..(j - 1) : sent[s][k] < Len(log)
        BY <2>1, <2>5, <3>3
      <4> QED BY <3>3, <4>1, <4>3, <4>4
    <3> QED BY <3>1, <3>2, <3>3
  <2>7. NoSilentLoss'
    <3> SUFFICES ASSUME NEW t \in Subs, reader[t] # "new", ~closed[t],
                        NEW i \in (from[t] + 1)..Len(log), InScope(t, log[i])
                 PROVE  WasSent(t, i)' \/ (t \in todo' /\ i = Len(log))
      BY DEF NoSilentLoss, InScope
    <3>1. WasSent(t, i) => WasSent(t, i)'
      BY <2>1 DEF WasSent, TypeOK
    <3>2. CASE t = s /\ i = Len(log)
      BY <3>2, <2>1 DEF WasSent
    <3>3. CASE t # s \/ i # Len(log)
      BY <3>1, <3>3 DEF NoSilentLoss
    <3> QED BY <3>2, <3>3
  <2>8. UnbrokenRun'
    <3> SUFFICES ASSUME NEW t \in Subs, NEW j \in 1..Len(sent'[t])
                 PROVE  /\ sent'[t][j] \in (Before(t, j)' + 1)..Len(log)
                        /\ InScope(t, log[sent'[t][j]])
                        /\ \A k \in (Before(t, j)' + 1)..(sent'[t][j] - 1) :
                              ~InScope(t, log[k])
      BY DEF UnbrokenRun, InScope
    <3>1. CASE t # s \/ j # Len(sent[s]) + 1
      <4>1. /\ j \in 1..Len(sent[t])
            /\ sent'[t][j] = sent[t][j]
            /\ j # 1 => sent'[t][j - 1] = sent[t][j - 1]
        BY <2>1, <3>1 DEF TypeOK
      <4>2. Before(t, j)' = Before(t, j)
        BY <4>1 DEF Before
      <4> QED BY <4>1, <4>2 DEF UnbrokenRun
    <3>2. CASE t = s /\ j = Len(sent[s]) + 1
      <4> DEFINE prev == Before(s, j)'
      <4>1. prev = IF Len(sent[s]) = 0 THEN from[s] ELSE sent[s][Len(sent[s])]
        BY <2>1, <3>2 DEF Before
      <4>2. prev \in Nat /\ prev < Len(log)
        BY <2>1, <2>5, <4>1 DEF TypeOK
      <4> HIDE DEF prev
      <4>3. ASSUME NEW k \in (prev + 1)..(Len(log) - 1), InScope(s, log[k])
            PROVE  FALSE
        <5>1. from[s] <= prev
          <6>1. CASE Len(sent[s]) = 0
            BY <4>1, <6>1 DEF TypeOK
          <6>2. CASE Len(sent[s]) # 0
            <7>1. Len(sent[s]) \in 1..Len(sent[s])
              BY <2>1, <6>2
            <7>2. sent[s][Len(sent[s])] \in (from[s] + 1)..Len(log)
              BY <7>1 DEF Increasing
            <7>3. from[s] \in Nat
              BY DEF TypeOK
            <7> QED BY <2>1, <4>1, <6>2, <7>2, <7>3
          <6> QED BY <6>1, <6>2
        <5>2. k \in (from[s] + 1)..Len(log) /\ k # Len(log)
          BY <2>1, <4>2, <5>1 DEF TypeOK
        <5>3. PICK m \in 1..Len(sent[s]) : sent[s][m] = k
          BY <1>1, <4>3, <5>2 DEF NoSilentLoss, WasSent
        <5>4. m = Len(sent[s]) \/ sent[s][m] < sent[s][Len(sent[s])]
          BY <2>1, <5>3 DEF Increasing
        <5>5. k <= prev
          BY <2>1, <4>1, <4>2, <5>3, <5>4
        <5> QED BY <4>2, <5>5
      <4>4. sent'[t][j] = Len(log) /\ Before(t, j)' = prev
        BY <2>1, <3>2 DEF prev
      <4> QED BY <2>1, <2>5, <3>2, <4>2, <4>3, <4>4
    <3> QED BY <3>1, <3>2
  <2>9. NoPanic'
    BY <1>1 DEF NoPanic
  <2> QED BY <2>2, <2>3, <2>4, <2>6, <2>7, <2>8, <2>9
<1>3. CASE Full(s) /\ Remove(s) /\ UNCHANGED sent
  <2> USE <1>3 DEF Offer, Remove
  <2>1. TypeOK'
    BY DEF TypeOK
  <2>2. Lifecycle'
    BY <1>1 DEF TypeOK, Lifecycle
  <2>3. Owed'
    BY DEF TypeOK, Owed
  <2>4. Increasing' /\ UnbrokenRun'
    BY DEF Increasing, UnbrokenRun, Before, InScope
  <2>5. NoSilentLoss'
    BY DEF TypeOK, NoSilentLoss, WasSent, InScope
  <2>6. NoPanic'
    BY DEF NoPanic
  <2> QED BY <2>1, <2>2, <2>3, <2>4, <2>5, <2>6
<1> QED BY <1>2, <1>3 DEF Offer

\* Closing frees the entry; a second close of the channel does not happen.
LEMMA CloseHubInv ==
    ASSUME HubInv, NEW s \in Subs, Close(s)
    PROVE  HubInv'
<1> USE DEF HubInv, Close, Remove
<1>1. TypeOK'
  BY DEF TypeOK, Owed
<1>2. Lifecycle'
  BY DEF TypeOK, Lifecycle
<1>3. Owed'
  BY DEF TypeOK, Owed
<1>4. Increasing' /\ UnbrokenRun'
  BY DEF Increasing, UnbrokenRun, Before, InScope
<1>5. NoSilentLoss'
  BY DEF TypeOK, NoSilentLoss, WasSent, InScope
<1>6. NoPanic'
  BY DEF NoPanic
<1> QED BY <1>1, <1>2, <1>3, <1>4, <1>5, <1>6

\* The remaining steps touch neither the log nor what was sent.
LEMMA ReaderHubInv ==
    ASSUME HubInv,
           \/ EndBroadcast
           \/ \E s \in Subs : Receive(s) \/ SeeClosed(s) \/ StopReading(s)
           \/ UNCHANGED vars
    PROVE  HubInv'
<1> USE DEF HubInv
<1>1. TypeOK' /\ Lifecycle'
  <2>1. CASE EndBroadcast \/ UNCHANGED vars
    BY <2>1 DEF TypeOK, Lifecycle, EndBroadcast, vars
  <2>2. ASSUME NEW s \in Subs, Receive(s)
        PROVE  TypeOK' /\ Lifecycle'
    BY <2>2 DEF TypeOK, Lifecycle, Receive
  <2>3. ASSUME NEW s \in Subs, SeeClosed(s) \/ StopReading(s)
        PROVE  TypeOK' /\ Lifecycle'
    BY <2>3 DEF TypeOK, Lifecycle, SeeClosed, StopReading
  <2> QED BY <2>1, <2>2, <2>3
<1>3. Owed'
  BY DEF TypeOK, Owed, EndBroadcast, Receive, SeeClosed, StopReading, vars
<1>4. UNCHANGED <<log, from, sent, closed, todo, panicked>>
  BY DEF EndBroadcast, Receive, SeeClosed, StopReading, vars
<1>5. Increasing' /\ UnbrokenRun'
  BY <1>4 DEF Increasing, UnbrokenRun, Before, InScope
<1>6. \A t \in Subs : reader'[t] # "new" => reader[t] # "new"
  BY DEF TypeOK, EndBroadcast, Receive, SeeClosed, StopReading, vars
<1>7. NoSilentLoss'
  BY <1>4, <1>6 DEF NoSilentLoss, WasSent, InScope
<1>8. NoPanic'
  BY <1>4 DEF NoPanic
<1> QED BY <1>1, <1>3, <1>5, <1>7, <1>8

LEMMA NextHubInv == HubInv /\ [Next]_vars => HubInv'
BY SubscribeHubInv, StartBroadcastHubInv, OfferHubInv, CloseHubInv,
   ReaderHubInv DEF Next

\* In every reachable state the hub's variables have their types, no channel
\* operation has panicked, and what each connection holds is complete up to
\* the point where it was told otherwise.
THEOREM HubCorrect == Spec => [](TypeOK /\ NoPanic /\ NoSilentLoss /\ UnbrokenRun)
<1>1. HubInv => TypeOK /\ NoPanic /\ NoSilentLoss /\ UnbrokenRun
  BY DEF HubInv
<1> QED BY InitHubInv, NextHubInv, <1>1, PTL DEF Spec

-----------------------------------------------------------------------------
(***************************************************************************)
(* The hub implements Feed: the mutex, the loop and the buffers stutter,   *)
(* logging an event publishes it, and a receive hears the next one.        *)
(***************************************************************************)
LEMMA InitFeed == Init => F!Init
<1> SUFFICES ASSUME Init PROVE F!Init
  OBVIOUS
<1>1. log = <<>>
  BY DEF Init
<1>2. Status = [s \in Subs |-> "new"]
  BY DEF Init, Status
<1>3. Heard = [s \in Subs |-> 0]
  BY DEF Init, Heard
<1> QED BY <1>1, <1>2, <1>3 DEF F!Init, Subs, F!Subs

\* A receive takes the head of the channel, which is the next event in scope.
LEMMA ReceiveHears ==
    ASSUME HubInv, NEW s \in Subs, Receive(s)
    PROVE  F!Hear(s)
<1> DEFINE i == sent[s][read[s] + 1]
<1>1. read[s] + 1 \in 1..Len(sent[s]) /\ read[s] \in Nat
  BY DEF HubInv, TypeOK, Receive
<1>2. Heard[s] = Before(s, read[s] + 1)
  BY <1>1 DEF Heard, Before
<1>3. i \in (Heard[s] + 1)..Len(log) /\ F!IsNextFor(s, Heard[s], i)
  BY <1>1, <1>2 DEF HubInv, UnbrokenRun, F!IsNextFor, F!InScope, InScope
<1>4. Heard' = [Heard EXCEPT ![s] = i]
  <2>1. read' = [read EXCEPT ![s] = @ + 1] /\ sent' = sent /\ from' = from
    BY DEF Receive
  <2>2. read'[s] = read[s] + 1 /\ \A t \in Subs \ {s} : read'[t] = read[t]
    BY <2>1 DEF HubInv, TypeOK
  <2>3. ASSUME NEW t \in Subs
        PROVE  Heard'[t] = IF t = s THEN i ELSE Heard[t]
    <3>1. CASE t = s
      BY <1>1, <2>1, <2>2, <3>1 DEF Heard
    <3>2. CASE t # s
      BY <2>1, <2>2, <3>2 DEF Heard
    <3> QED BY <3>1, <3>2
  <2>4. Heard' = [t \in Subs |-> Heard'[t]] /\ Heard = [t \in Subs |-> Heard[t]]
    BY DEF Heard
  <2> HIDE DEF i
  <2> QED BY <2>3, <2>4
<1>5. Status[s] = "joined" /\ Status' = Status /\ log' = log
  BY DEF Receive, Status
<1> QED BY <1>3, <1>4, <1>5 DEF F!Hear

\* Putting an event on a channel changes nothing a reader has heard.
LEMMA OfferStutters ==
    ASSUME HubInv, NEW s \in Subs, Offer(s)
    PROVE  UNCHANGED F!vars
<1>1. log' = log /\ Status' = Status
  BY DEF Offer, Status
<1>2. ASSUME NEW t \in Subs
      PROVE  read[t] = 0 \/ sent'[t][read[t]] = sent[t][read[t]]
  <2>1. read[t] \in 0..Len(sent[t]) /\ sent[t] \in Seq(Nat)
    BY DEF HubInv, TypeOK, Lifecycle
  <2>2. CASE sent' = sent
    BY <2>2
  <2>3. CASE Send(s, Len(log))
    BY <2>1, <2>3 DEF Send, HubInv, TypeOK
  <2> QED BY <2>2, <2>3 DEF Offer
<1>3. Heard' = Heard
  BY <1>2 DEF Heard, Offer
<1> QED BY <1>1, <1>3 DEF F!vars

\* A new subscription joins at the end of the log.
LEMMA SubscribeJoins ==
    ASSUME HubInv, NEW s \in Subs, Subscribe(s)
    PROVE  F!Join(s)
<1>1. log' = log /\ Status[s] = "new"
  BY DEF Subscribe, Status
<1>2. Status' = [Status EXCEPT ![s] = "joined"]
  BY DEF Subscribe, Status, HubInv, TypeOK
<1>3. read[s] = 0
  BY DEF Subscribe, HubInv, Lifecycle
<1>4. Heard' = [Heard EXCEPT ![s] = Len(log)]
  BY <1>3 DEF Subscribe, Heard, HubInv, TypeOK
<1> QED BY <1>1, <1>2, <1>4 DEF F!Join

\* Each step of the hub is a step of the feed or leaves it unchanged.
LEMMA NextFeed == HubInv /\ [Next]_vars => [F!Next]_(F!vars)
<1> SUFFICES ASSUME HubInv, [Next]_vars PROVE [F!Next]_(F!vars)
  OBVIOUS
<1>1. ASSUME NEW g \in Groups, StartBroadcast(g) PROVE F!Next
  <2>1. F!Publish(g)
    BY <1>1 DEF StartBroadcast, F!Publish, Heard, Status
  <2> QED BY <2>1 DEF F!Next
<1>2. CASE EndBroadcast \/ UNCHANGED vars
  BY <1>2 DEF EndBroadcast, vars, F!vars, Heard, Status
<1>3. ASSUME NEW s \in Subs, Subscribe(s) PROVE F!Next
  BY <1>3, SubscribeJoins DEF F!Next, F!Subs, Subs
<1>4. ASSUME NEW s \in Subs, Offer(s) PROVE UNCHANGED F!vars
  BY <1>4, OfferStutters
<1>5. ASSUME NEW s \in Subs, Close(s) PROVE UNCHANGED F!vars
  <2>1. Status' = Status
    BY <1>5 DEF Close, Status, HubInv, TypeOK
  <2>2. Heard' = Heard /\ log' = log
    BY <1>5 DEF Close, Heard
  <2> QED BY <2>1, <2>2 DEF F!vars
<1>6. ASSUME NEW s \in Subs, Receive(s) PROVE F!Next
  BY <1>6, ReceiveHears DEF F!Next, F!Subs, Subs
<1>7. ASSUME NEW s \in Subs, SeeClosed(s) \/ StopReading(s) PROVE F!Next
  <2>1. Status' = [Status EXCEPT ![s] = "left"] /\ Status[s] = "joined"
    BY <1>7 DEF SeeClosed, StopReading, Status, HubInv, TypeOK
  <2>2. Heard' = Heard /\ log' = log
    BY <1>7 DEF SeeClosed, StopReading, Heard
  <2>3. F!Leave(s)
    BY <2>1, <2>2 DEF F!Leave
  <2> QED BY <2>3 DEF F!Next, F!Subs, Subs
<1> QED BY <1>1, <1>2, <1>3, <1>4, <1>5, <1>6, <1>7 DEF Next

\* Whatever the interleaving of broadcasts, drops and readers, what readers
\* see is a behaviour of Feed: each hears every event of its scope in order
\* from where it joined to where it left.
THEOREM HubImplementsFeed == Spec => ImplementsFeed
<1>1. Spec => []HubInv
  BY InitHubInv, NextHubInv, PTL DEF Spec
<1> QED BY <1>1, InitFeed, NextFeed, PTL DEF Spec, ImplementsFeed, F!Spec
\* The maps, channels and readers of the hub stay well formed; a broadcast has
\* only registered connections left to serve.
THEOREM HubTyped == Spec => []TypeOK
  BY HubCorrect, PTL

\* No order of broadcasts, drops and closes sends on a closed channel or closes
\* one twice.
THEOREM NeverPanics == Spec => []NoPanic
  BY HubCorrect, PTL

\* As long as its channel is open, a connection was sent every event of its
\* scope since it subscribed.
THEOREM LossIsTold == Spec => []NoSilentLoss
  BY HubCorrect, PTL

\* What was put on a channel is its scope's events in order without a gap.
THEOREM RunsAreUnbroken == Spec => []UnbrokenRun
  BY HubCorrect, PTL
=============================================================================
