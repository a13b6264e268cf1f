------------------------------ MODULE PushProofs ------------------------------
(***************************************************************************)
(* Proofs about Push for any users, devices, requests, sockets, slots and  *)
(* failures.                                                               *)
(***************************************************************************)
EXTENDS PushProperties, TLAPS, FiniteSetTheorems

\* Types of what the proofs speak of.
Types ==
    /\ op \in [Requests -> Operations \cup {NoOp}]
    /\ pc \in [Requests -> {"idle", "cleanup", "insert", "remove", "list",
                            "consider", "send", "done"}]
    /\ rows \in SUBSET Requests
    /\ dead \in SUBSET Endpoints
    /\ later \in [Requests -> Seq(Groups)]
    /\ todo \in [Requests -> SUBSET Requests]
    /\ worker \in [Requests -> [Requests ->
                     {"none", "queued", "sending", "pruning", "done"}]]
    /\ reached \in [Requests -> SUBSET Requests]
    /\ ended \in [Requests -> {"no", "timeout", "returned"}]

USE PushAssumption

-----------------------------------------------------------------------------
(***************************************************************************)
(* Leases.  Every step but those of the sockets leaves them alone.         *)
(***************************************************************************)
LeaseInv ==
    /\ lease \in [Keys -> Groups \cup {NoGroup}]
    /\ socket \in [Sockets -> {"new", "reading", "renewing", "closed"}]
    /\ held \in [Sockets -> BOOLEAN]
    /\ \A c \in Sockets : socket[c] = "renewing" => held[c]
    /\ LeaseNeedsSocket

LEMMA InitLease == Init => LeaseInv
  BY DEF Init, LeaseInv, LeaseNeedsSocket, Keys

LEMMA NextLease == LeaseInv /\ [Next]_vars => LeaseInv'
<1> SUFFICES ASSUME LeaseInv, [Next]_vars PROVE LeaseInv'
  OBVIOUS
<1> USE DEF LeaseInv, LeaseNeedsSocket, Keys
<1>1. CASE UNCHANGED focus
  BY <1>1 DEF focus
<1>2. ASSUME NEW c \in Sockets, Open(c) PROVE LeaseInv'
  BY <1>2 DEF Open
<1>3. ASSUME NEW c \in Sockets, Focus(c) PROVE LeaseInv'
  BY <1>3 DEF Focus
<1>4. ASSUME NEW c \in Sockets, Renew(c) PROVE LeaseInv'
  BY <1>4 DEF Renew
<1>5. ASSUME NEW c \in Sockets, Blur(c) PROVE LeaseInv'
  BY <1>5 DEF Blur
<1>6. ASSUME NEW c \in Sockets, HangUp(c) PROVE LeaseInv'
  BY <1>6 DEF HangUp
<1>7. ASSUME NEW k \in Keys, Expire(k) PROVE LeaseInv'
  BY <1>7 DEF Expire
<1>8. ASSUME NEW r \in Requests,
             Begin(r) \/ Cleanup(r) \/ Insert(r) \/ Remove(r) \/ BreakOff(r)
      PROVE  UNCHANGED focus
  BY <1>8 DEF Begin, Cleanup, Insert, Remove, BreakOff
<1>9. ASSUME NEW n \in Requests, Notifier(n) \/ Timeout(n) \/ Send(n)
      PROVE  UNCHANGED focus
  BY <1>9 DEF Notifier, List, ListFails, Considered, Return, Consider, Timeout,
              Send, Attempt, Prune
<1>10. ASSUME NEW n \in Requests, NEW q \in Requests, Acquire(n, q)
       PROVE  UNCHANGED focus
  BY <1>10 DEF Acquire
<1>11. ASSUME NEW e \in Endpoints, Die(e) PROVE UNCHANGED focus
  BY <1>11 DEF Die
<1>12. CASE UNCHANGED vars
  BY <1>1, <1>12 DEF vars, focus
<1> QED
  BY <1>1, <1>2, <1>3, <1>4, <1>5, <1>6, <1>7, <1>8, <1>9, <1>10, <1>11, <1>12
     DEF Next

\* For any users, devices and sockets: a device whose connections are closed
\* holds no lease, and so is spared no notification.
THEOREM ClosedIsUnfocused == Spec => []LeaseNeedsSocket
<1>1. LeaseInv => LeaseNeedsSocket
  BY DEF LeaseInv
<1> QED BY <1>1, InitLease, NextLease, PTL DEF Spec

-----------------------------------------------------------------------------
(***************************************************************************)
(* Notifications.                                                          *)
(***************************************************************************)

\* How a request goes on: a message lists one group, a share at least one.
Flow ==
    \A n \in Requests :
       /\ pc[n] = "idle" <=> op[n] = NoOp
       /\ pc[n] \in {"cleanup", "insert"} => Is(n, "subscribe")
       /\ pc[n] = "remove" => Is(n, "unsubscribe") \/ Is(n, "logout")
       /\ pc[n] \in {"list", "consider", "send"} => Notifies(n)
       /\ pc[n] = "list" => later[n] # <<>>
       /\ Is(n, "message") /\ pc[n] = "list" => Len(later[n]) = 1
       /\ Is(n, "message") /\ pc[n] = "consider" => later[n] = <<>>
       /\ Targets(n) # {} \/ todo[n] # {} => Notifies(n) /\ pc[n] # "idle"
       /\ Is(n, "message") /\ pc[n] = "list" => Targets(n) = {} /\ todo[n] = {}
       /\ ended[n] # "no" => Notifies(n)
       /\ ended[n] = "returned" => pc[n] = "done"
       /\ Is(n, "message") /\ pc[n] = "done" =>
             \A q \in Requests : worker[n][q] \in {"none", "done"}

\* A subscription that is stored, listed or sent to is one whose request ended.
Settled ==
    /\ \A q \in rows : pc[q] = "done" /\ Is(q, "subscribe")
    /\ \A n \in Requests : \A q \in todo[n] \cup Targets(n) :
          pc[q] = "done" /\ Is(q, "subscribe")

\* The table has one row for a device, so a message finds one.
OneRowEach ==
    /\ \A p, q \in rows : Key(p) = Key(q) => p = q
    /\ \A n \in Requests : Is(n, "message") =>
          \A p, q \in todo[n] \cup Targets(n) : Key(p) = Key(q) => p = q

SendInv ==
    /\ Types
    /\ Flow
    /\ Settled
    /\ OneRowEach
    /\ OncePerDevice
    /\ MessagesAreTried
    /\ \A n, q \in Requests :
          worker[n][q] = "pruning" => op[q].endpoint \in dead /\ q \in reached[n]

LEMMA InitSend == Init => SendInv
  BY DEF Init, SendInv, Types, Flow, Settled, OneRowEach, OncePerDevice,
         MessagesAreTried, Tried, Targets, Is, Notifies, NoOp

\* An operation has one of five kinds, none of them that of a request not begun.
LEMMA OperationKinds ==
    ASSUME NEW o \in Operations
    PROVE  /\ o # NoOp
           /\ o.kind \in {"subscribe", "unsubscribe", "logout", "message", "share"}
           /\ o.kind \in {"message", "share"} => o.groups \in Seq(Groups) /\ o.groups # <<>>
           /\ o.kind = "message" => Len(o.groups) = 1
<1>1. o # NoOp /\ o.kind \in {"subscribe", "unsubscribe", "logout", "message", "share"}
  BY DEF Operations, NoOp
<1>2. CASE o.kind = "message"
  <2>1. PICK g \in Groups : o.groups = <<g>>
    BY <1>2 DEF Operations
  <2> QED BY <1>1, <1>2, <2>1
<1>3. CASE o.kind = "share"
  <2>1. o.groups \in Seq(Groups) \ {<<>>}
    BY <1>3 DEF Operations
  <2> QED BY <1>1, <1>3, <2>1
<1> QED BY <1>1, <1>2, <1>3

\* A request begins: nothing is stored, listed or sent for it yet.
LEMMA BeginSend ==
    ASSUME SendInv, NEW r \in Requests, Begin(r)
    PROVE  SendInv'
<1>1. PICK o \in MayAsk[r] :
         /\ op' = [op EXCEPT ![r] = o]
         /\ pc' = [pc EXCEPT ![r] = First(o)]
         /\ later' = [later EXCEPT ![r] =
               IF o.kind \in {"message", "share"} THEN o.groups ELSE <<>>]
  BY DEF Begin, Goto
<1>2. /\ pc[r] = "idle"
      /\ UNCHANGED <<answer, rows, dead, group, todo, sending, ended, focus, failures>>
  BY DEF Begin
<1>3. o \in Operations
  OBVIOUS
<1>4. /\ First(o) \in {"cleanup", "remove", "list"}
      /\ First(o) = "list" => o.kind \in {"message", "share"}
      /\ First(o) = "cleanup" => o.kind = "subscribe"
      /\ First(o) = "remove" => o.kind \in {"unsubscribe", "logout"}
  BY <1>3, OperationKinds DEF First
<1> USE <1>1, <1>2, <1>3, <1>4, OperationKinds DEF SendInv
<1>5. Types'
  BY DEF Types, sending
<1>6. \A q \in Requests \ {r} : op'[q] = op[q] /\ pc'[q] = pc[q] /\ later'[q] = later[q]
  BY DEF Types
<1>7. op'[r] = o /\ pc'[r] = First(o) /\ op[r] = NoOp
      /\ (o.kind \in {"message", "share"} => later'[r] = o.groups)
  BY DEF Types, Flow
<1>8. \A q \in Requests : Targets(q)' = Targets(q)
  BY DEF Targets, sending
<1>9. Targets(r) = {} /\ todo[r] = {} /\ ended[r] = "no"
  <2>1. ~Notifies(r)
    BY <1>7 DEF Notifies, NoOp
  <2> QED BY <2>1 DEF Flow, Types
<1>10. Flow'
  BY <1>6, <1>7, <1>8, <1>9 DEF Flow, Notifies, Is, sending, Types
<1>11. \A q \in rows : q # r
  BY DEF Settled
<1>12. \A n \in Requests : \A q \in todo[n] \cup Targets(n) : q # r
  BY DEF Settled
<1>13. Settled'
  BY <1>6, <1>8, <1>11, <1>12 DEF Settled, Is, Types, Targets
<1>14. OneRowEach' /\ OncePerDevice'
  <2>1. \A q \in Requests \ {r} : Key(q)' = Key(q)
    BY <1>6 DEF Key
  <2>2. \A n \in Requests : \A q \in Targets(n) : q \in Requests \ {r}
    BY <1>12 DEF Targets
  <2>3. OncePerDevice'
    BY <1>8, <2>1, <2>2 DEF OncePerDevice
  <2>4. \A n \in Requests : \A q \in todo[n] : q \in Requests \ {r}
    BY <1>12 DEF Types
  <2>5. \A n \in Requests : Is(n, "message")' => Is(n, "message") \/ n = r
    BY <1>6 DEF Is
  <2>6. \A q \in rows : q \in Requests \ {r}
    BY <1>11 DEF Types
  <2> QED BY <1>8, <1>9, <2>1, <2>2, <2>3, <2>4, <2>5, <2>6 DEF OneRowEach
<1>15. MessagesAreTried'
  BY <1>6, <1>9 DEF MessagesAreTried, Tried, Is, Targets, sending
<1>16. (\A n, q \in Requests :
          worker[n][q] = "pruning" => op[q].endpoint \in dead /\ q \in reached[n])'
  BY <1>6, <1>12 DEF Targets, sending
<1> QED BY <1>5, <1>10, <1>13, <1>14, <1>15, <1>16

\* A request about subscriptions, which is no notification, goes on.
LEMMA RequestSend ==
    ASSUME SendInv, NEW r \in Requests,
           Cleanup(r) \/ Insert(r) \/ Remove(r) \/ BreakOff(r)
    PROVE  SendInv'
<1> USE DEF SendInv
<1>1. /\ UNCHANGED <<op, dead, group, later, todo, worker, tries, reached, ended>>
      /\ pc[r] \in {"cleanup", "insert", "remove"}
      /\ \A q \in Requests \ {r} : pc'[q] = pc[q]
      /\ pc'[r] \in {"insert", "done"}
      /\ pc'[r] = "insert" => pc[r] = "cleanup"
      /\ pc' \in [Requests -> {"idle", "cleanup", "insert", "remove", "list",
                               "consider", "send", "done"}]
  <2>1. CASE Cleanup(r)
    BY <2>1 DEF Cleanup, Goto, requests, listing, sending, Types
  <2>2. CASE Insert(r)
    BY <2>2 DEF Insert, Goto, Answer, listing, sending, Types
  <2>3. CASE Remove(r)
    BY <2>3 DEF Remove, Goto, Answer, listing, sending, Types
  <2>4. CASE BreakOff(r)
    BY <2>4 DEF BreakOff, Goto, Answer, listing, sending, Types
  <2> QED BY <2>1, <2>2, <2>3, <2>4
<1>2. /\ rows' \subseteq rows \cup {r}
      /\ r \in rows' => /\ \A q \in rows : ~Conflicts(q, r)
                        /\ pc[r] = "insert" /\ pc'[r] = "done"
  <2>1. r \notin rows
    BY <1>1 DEF Settled
  <2>2. CASE Cleanup(r)
    BY <2>1, <2>2 DEF Cleanup
  <2>3. CASE Insert(r)
    BY <2>1, <2>3 DEF Insert, Answer, Goto, Types
  <2>4. CASE Remove(r)
    BY <2>1, <2>4 DEF Remove
  <2>5. CASE BreakOff(r)
    BY <2>1, <2>5 DEF BreakOff
  <2> QED BY <2>2, <2>3, <2>4, <2>5
<1>3. ~Notifies(r) /\ op[r] # NoOp
  BY <1>1 DEF Flow, Notifies, Is
<1>4. Types'
  BY <1>1, <1>2 DEF Types
<1>5. Flow'
  BY <1>1, <1>3 DEF Flow, Targets, Is, Notifies
<1>6. Settled'
  <2>1. \A n \in Requests : \A q \in todo[n] \cup Targets(n) : q \in Requests \ {r}
    BY <1>1 DEF Settled, Targets, Types
  <2>2. \A q \in rows : q \in Requests \ {r}
    BY <1>1 DEF Settled, Types
  <2>3. r \in rows' => Is(r, "subscribe")
    BY <1>2 DEF Flow
  <2> QED BY <1>1, <1>2, <2>1, <2>2, <2>3 DEF Settled, Is, Targets
<1>7. OneRowEach'
  <2>1. \A q \in Requests : Key(q)' = Key(q) /\ Targets(q)' = Targets(q)
    BY <1>1 DEF Key, Targets
  <2>2. \A q \in rows : r \in rows' => Key(q) # Key(r)
    BY <1>2 DEF Conflicts
  <2>3. \A q \in rows' : q \in Requests /\ (q \in rows \/ q = r)
    BY <1>2 DEF Types
  <2>4. \A p, q \in rows' : Key(p)' = Key(q)' => p = q
    BY <2>1, <2>2, <2>3 DEF OneRowEach
  <2>5. \A m \in Requests : \A q \in todo[m] \cup Targets(m) : q \in Requests
    BY DEF Types, Targets
  <2>6. \A m \in Requests : Is(m, "message")' => Is(m, "message")
    BY <1>1 DEF Is
  <2> QED BY <1>1, <2>1, <2>4, <2>5, <2>6 DEF OneRowEach
<1>8. OncePerDevice' /\ MessagesAreTried'
  BY <1>1 DEF OncePerDevice, MessagesAreTried, Tried, Targets, Key, Is
<1> QED BY <1>1, <1>4, <1>5, <1>6, <1>7, <1>8

\* The notifier's own steps, before its workers end.
LEMMA ListSend ==
    ASSUME SendInv, NEW n \in Requests, List(n)
    PROVE  SendInv'
<1> USE DEF SendInv
<1>1. /\ UNCHANGED <<op, rows, dead, worker, tries, reached, ended>>
      /\ pc[n] = "list" /\ pc' = [pc EXCEPT ![n] = "consider"]
      /\ later' = [later EXCEPT ![n] = Tail(later[n])]
      /\ \A m \in Requests \ {n} : todo'[m] = todo[m]
      /\ todo' \in [Requests -> SUBSET Requests]
      /\ todo'[n] \subseteq rows
  BY DEF List, Goto, requests, sending, Types
<1>2. Types'
  BY <1>1 DEF Types, Flow
<1>3. \A m \in Requests : Targets(m)' = Targets(m)
  BY <1>1 DEF Targets
<1>4. Flow'
  <2>1. Is(n, "message") => later'[n] = <<>>
    BY <1>1 DEF Flow, Types
  <2> QED BY <1>1, <1>3, <2>1 DEF Flow, Types, Is, Notifies
<1>5. Settled'
  <2>1. \A q \in Requests : pc[q] = "done" => pc'[q] = "done"
    BY <1>1 DEF Types
  <2>2. \A m \in Requests : \A q \in todo'[m] \cup Targets(m) :
           q \in rows \cup todo[m] \cup Targets(m)
    BY <1>1 DEF Types
  <2>3. \A q \in Requests : Is(q, "subscribe")' <=> Is(q, "subscribe")
    BY <1>1 DEF Is
  <2>4. rows \subseteq Requests
        /\ \A m \in Requests : todo[m] \cup Targets(m) \subseteq Requests
    BY DEF Types, Targets
  <2> QED BY <1>1, <1>3, <2>1, <2>2, <2>3, <2>4 DEF Settled
<1>6. OneRowEach'
  <2>1. Is(n, "message") => Targets(n) = {}
    BY <1>1 DEF Flow
  <2> QED BY <1>1, <1>3, <2>1 DEF OneRowEach, Key, Is
<1>7. OncePerDevice' /\ MessagesAreTried'
  BY <1>1, <1>3 DEF OncePerDevice, MessagesAreTried, Tried, Key, Is
<1> QED BY <1>1, <1>2, <1>4, <1>5, <1>6, <1>7

LEMMA MovesOnSend ==
    ASSUME SendInv, NEW n \in Requests, ListFails(n) \/ Considered(n)
    PROVE  SendInv'
<1> USE DEF SendInv
<1>1. /\ UNCHANGED <<op, rows, dead, todo, worker, tries, reached, ended>>
      /\ pc[n] \in {"list", "consider"} /\ Notifies(n)
      /\ \A m \in Requests \ {n} : pc'[m] = pc[m] /\ later'[m] = later[m]
      /\ \/ pc'[n] = "send"
         \/ pc'[n] = "list" /\ pc[n] = "consider" /\ later'[n] = later[n] /\ later[n] # <<>>
         \/ pc'[n] = "consider" /\ Is(n, "share")
      /\ later' \in [Requests -> Seq(Groups)]
      /\ pc' \in [Requests -> {"idle", "cleanup", "insert", "remove", "list",
                               "consider", "send", "done"}]
  <2>1. CASE ListFails(n)
    <3>1. later[n] \in Seq(Groups) /\ later[n] # <<>>
      BY <2>1 DEF ListFails, Types, Flow
    <3>2. Tail(later[n]) \in Seq(Groups)
      BY <3>1
    <3> QED BY <2>1, <3>2 DEF ListFails, Goto, requests, sending, Types, Flow
  <2>2. CASE Considered(n)
    BY <2>2 DEF Considered, Goto, requests, listing, sending, Types, Flow
  <2> QED BY <2>1, <2>2
<1>2. Types'
  BY <1>1 DEF Types
<1>3. \A m \in Requests : Targets(m)' = Targets(m)
  BY <1>1 DEF Targets
<1>4. \A m \in Requests : Is(m, "message") => ~Is(m, "share")
  BY DEF Is
<1>5. Flow'
  BY <1>1, <1>3, <1>4 DEF Flow, Is, Notifies
<1>6. Settled'
  <2>1. \A q \in Requests : pc[q] = "done" => pc'[q] = "done"
    BY <1>1
  <2>2. \A q \in Requests : Is(q, "subscribe")' <=> Is(q, "subscribe")
    BY <1>1 DEF Is
  <2>3. rows \subseteq Requests
        /\ \A m \in Requests : todo[m] \cup Targets(m) \subseteq Requests
    BY DEF Types, Targets
  <2> QED BY <1>1, <1>3, <2>1, <2>2, <2>3 DEF Settled
<1>7. OneRowEach' /\ OncePerDevice' /\ MessagesAreTried'
  BY <1>1, <1>3 DEF OneRowEach, OncePerDevice, MessagesAreTried, Tried, Key, Is
<1> QED BY <1>1, <1>2, <1>5, <1>6, <1>7

LEMMA ConsiderSend ==
    ASSUME SendInv, NEW n \in Requests, NEW q \in Requests, Consider(n, q)
    PROVE  SendInv'
<1> USE DEF SendInv
<1>1. /\ UNCHANGED <<op, pc, rows, dead, later, reached, ended>>
      /\ pc[n] = "consider" /\ Notifies(n) /\ q \in todo[n]
      /\ todo' = [todo EXCEPT ![n] = todo[n] \ {q}]
  BY DEF Consider, requests, Flow
<1>2. /\ \A m, p \in Requests : <<m, p>> # <<n, q>> => worker'[m][p] = worker[m][p]
      /\ \/ worker'[n][q] = worker[n][q]
         \/ worker'[n][q] = "queued" /\ ~(Is(n, "share") /\ Seen(n, q))
      /\ worker' \in [Requests -> [Requests ->
                        {"none", "queued", "sending", "pruning", "done"}]]
  BY DEF Consider, Types
<1>3. Types'
  BY <1>1, <1>2 DEF Types
<1>4. /\ \A m \in Requests \ {n} : Targets(m)' = Targets(m) /\ todo'[m] = todo[m]
      /\ Targets(n)' \subseteq Targets(n) \cup {q}
      /\ todo'[n] \subseteq todo[n]
  BY <1>1, <1>2 DEF Targets, Types
<1>5. \A m \in Requests : /\ todo'[m] \cup Targets(m)' \subseteq todo[m] \cup Targets(m)
                          /\ todo[m] \cup Targets(m) \subseteq Requests
  BY <1>1, <1>4 DEF Targets, Types
<1>6. \A p \in Requests : Key(p)' = Key(p)
  BY <1>1 DEF Key
<1>7. \A m \in Requests : (Is(m, "message")' <=> Is(m, "message"))
                          /\ (Is(m, "subscribe")' <=> Is(m, "subscribe"))
  BY <1>1 DEF Is
<1>8. Flow'
  <2>1. \A m \in Requests : Notifies(m)' <=> Notifies(m)
    BY <1>1 DEF Notifies
  <2>2. \A m \in Requests : m # n => todo'[m] = todo[m] /\ Targets(m)' = Targets(m)
    BY <1>4
  <2>3. \A m, p \in Requests : m # n => worker'[m][p] = worker[m][p]
    BY <1>2
  <2> QED BY <1>1, <1>7, <2>1, <2>2, <2>3 DEF Flow, Is
<1>9. Settled'
  <2>1. rows \subseteq Requests
    BY DEF Types
  <2> QED BY <1>1, <1>5, <1>7, <2>1 DEF Settled
<1>10. OneRowEach'
  <2>1. \A p \in rows : p \in Requests
    BY DEF Types
  <2> QED BY <1>1, <1>5, <1>6, <1>7, <2>1 DEF OneRowEach
<1>11. OncePerDevice'
  <2>1. ASSUME q \notin Targets(n), q \in Targets(n)', NEW p \in Targets(n), Key(p) = Key(q)
        PROVE  FALSE
    <3>1. CASE Is(n, "message")
      BY <1>1, <2>1, <3>1 DEF OneRowEach
    <3>2. CASE Is(n, "share")
      <4>1. op[p].device # op[q].device
        BY <1>2, <2>1, <3>2 DEF Seen, Targets
      <4> QED BY <2>1, <4>1 DEF Key
    <3> QED BY <1>1, <3>1, <3>2 DEF Notifies, Is
  <2>2. \A p \in Targets(n)' : p \in Targets(n) \/ (p = q /\ q \notin Targets(n))
    BY <1>4
  <2>3. \A p, s \in Targets(n)' : Key(p) = Key(s) => p = s
    BY <2>1, <2>2 DEF OncePerDevice
  <2>4. \A m \in Requests : \A p \in Targets(m)' : p \in Requests
    BY DEF Targets
  <2> QED BY <1>4, <1>6, <2>3, <2>4 DEF OncePerDevice
<1>12. MessagesAreTried'
  <2>1. \A m, p \in Requests : worker'[m][p] = "done" => worker[m][p] = "done"
    BY <1>2
  <2> QED BY <1>1, <1>7, <2>1 DEF MessagesAreTried, Tried
<1>13. (\A m, p \in Requests :
          worker[m][p] = "pruning" => op[p].endpoint \in dead /\ p \in reached[m])'
  BY <1>1, <1>2
<1> QED BY <1>3, <1>8, <1>9, <1>10, <1>11, <1>12, <1>13

\* The context ends: by the notifier's return, which for a message finds every
\* worker done, or before.
LEMMA EndSend ==
    ASSUME SendInv, NEW n \in Requests, Return(n) \/ Timeout(n)
    PROVE  SendInv'
<1> USE DEF SendInv
<1>1. /\ UNCHANGED <<op, rows, dead, later, todo, worker, reached>>
      /\ Notifies(n)
      /\ \A m \in Requests \ {n} : pc'[m] = pc[m] /\ ended'[m] = ended[m]
      /\ pc'[n] = "done" \/ pc'[n] = pc[n]
      /\ pc \in [Requests -> {"idle", "cleanup", "insert", "remove", "list",
                              "consider", "send", "done"}]
      /\ pc' \in [Requests -> {"idle", "cleanup", "insert", "remove", "list",
                               "consider", "send", "done"}]
      /\ ended' \in [Requests -> {"no", "timeout", "returned"}]
      /\ \/ ended'[n] = "timeout" /\ pc'[n] = pc[n]
         \/ /\ pc[n] = "send" /\ pc'[n] = "done" /\ MayReturn(n)
            /\ ended'[n] = ended[n] \/ (ended'[n] = "returned" /\ ended[n] = "no")
  <2>1. CASE Return(n)
    BY <2>1 DEF Return, Answer, Goto, listing, sending, Types, Flow
  <2>2. CASE Timeout(n)
    BY <2>2 DEF Timeout, requests, listing, sending, Types
  <2> QED BY <2>1, <2>2
<1>2. Types'
  BY <1>1 DEF Types
<1>3. \A m \in Requests : /\ Targets(m)' = Targets(m) /\ Key(m)' = Key(m)
                          /\ Targets(m) \subseteq Requests
                          /\ (Is(m, "message")' <=> Is(m, "message"))
                          /\ (Is(m, "subscribe")' <=> Is(m, "subscribe"))
                          /\ (Notifies(m)' <=> Notifies(m))
                          /\ (pc[m] = "done" => pc'[m] = "done")
                          /\ (Is(m, "message") => ~Is(m, "share"))
  BY <1>1 DEF Targets, Key, Is, Notifies
<1>4. Is(n, "message") /\ pc'[n] = "done" =>
         \A q \in Requests : worker[n][q] \in {"none", "done"}
  <2>1. CASE pc[n] = "done"
    BY <2>1 DEF Flow
  <2>2. CASE pc[n] # "done"
    BY <1>1, <1>3, <2>2 DEF MayReturn, Targets
  <2> QED BY <2>1, <2>2
<1>5. Flow'
  <2>1. Is(n, "message")' <=> Is(n, "message")
    BY <1>3
  <2>2. op[n] # NoOp
    BY <1>1 DEF Notifies, NoOp
  <2> QED BY <1>1, <1>3, <1>4, <2>2 DEF Flow, Is
<1>6. Settled'
  BY <1>1, <1>3 DEF Settled, Types
<1>7. OneRowEach' /\ OncePerDevice'
  BY <1>1, <1>3 DEF OneRowEach, OncePerDevice, Types
<1>8. MessagesAreTried'
  BY <1>1, <1>3 DEF MessagesAreTried, Tried
<1> QED BY <1>1, <1>2, <1>5, <1>6, <1>7, <1>8

\* A worker goes on.
LEMMA WorkerSend ==
    ASSUME SendInv, NEW n \in Requests, NEW q \in Requests,
           Acquire(n, q) \/ Attempt(n, q) \/ Prune(n, q)
    PROVE  SendInv'
<1> USE DEF SendInv
<1>1. /\ UNCHANGED <<op, pc, dead, later, todo, ended>>
      /\ worker[n][q] \in {"queued", "sending", "pruning"}
      /\ \A m, p \in Requests : <<m, p>> # <<n, q>> => worker'[m][p] = worker[m][p]
      /\ worker'[n][q] \in {"sending", "pruning", "done"}
      /\ worker' \in [Requests -> [Requests ->
                        {"none", "queued", "sending", "pruning", "done"}]]
      /\ worker'[n][q] = "pruning" => op[q].endpoint \in dead /\ q \in reached'[n]
      /\ worker'[n][q] = "done" => q \in reached'[n] \/ ended[n] # "no"
      /\ rows' \subseteq rows
      /\ reached' \in [Requests -> SUBSET Requests]
      /\ \A m \in Requests : reached[m] \subseteq reached'[m]
  <2>1. CASE Acquire(n, q)
    BY <2>1 DEF Acquire, requests, listing, Types
  <2>2. CASE Attempt(n, q)
    <3>1. /\ UNCHANGED <<op, pc, rows, dead, later, todo, ended>>
          /\ worker[n][q] = "sending"
          /\ reached' = reached \/ reached' = [reached EXCEPT ![n] = reached[n] \cup {q}]
          /\ ended[n] = "no" => reached' = [reached EXCEPT ![n] = reached[n] \cup {q}]
      BY <2>2 DEF Attempt, requests, listing
    <3>2. /\ reached' \in [Requests -> SUBSET Requests]
          /\ \A m \in Requests : reached[m] \subseteq reached'[m]
          /\ ended[n] = "no" => q \in reached'[n]
      <4>1. reached \in [Requests -> SUBSET Requests]
        BY DEF Types
      <4> QED BY <3>1, <4>1
    <3>3. Retry(n, q) => worker' = worker \/ worker' = [worker EXCEPT ![n][q] = "done"]
      BY DEF Retry
    <3>4. \/ worker' = worker
          \/ worker' = [worker EXCEPT ![n][q] = "done"]
          \/ /\ op[q].endpoint \in dead /\ ended[n] = "no"
             /\ worker' = [worker EXCEPT ![n][q] = "pruning"]
      BY <2>2, <3>3 DEF Attempt
    <3>5. worker \in [Requests -> [Requests ->
                         {"none", "queued", "sending", "pruning", "done"}]]
      BY DEF Types
    <3>6. /\ \A m, p \in Requests : <<m, p>> # <<n, q>> => worker'[m][p] = worker[m][p]
          /\ worker'[n][q] \in {"sending", "pruning", "done"}
          /\ worker' \in [Requests -> [Requests ->
                            {"none", "queued", "sending", "pruning", "done"}]]
          /\ worker'[n][q] = "pruning" => op[q].endpoint \in dead /\ ended[n] = "no"
      <4>1. CASE worker' = worker
        BY <3>1, <3>5, <4>1
      <4>2. ASSUME NEW w \in {"pruning", "done"}, worker' = [worker EXCEPT ![n][q] = w]
            PROVE  /\ \A m, p \in Requests :
                         <<m, p>> # <<n, q>> => worker'[m][p] = worker[m][p]
                   /\ worker'[n][q] = w
                   /\ worker' \in [Requests -> [Requests ->
                                     {"none", "queued", "sending", "pruning", "done"}]]
        BY <3>5, <4>2
      <4> QED BY <3>1, <3>4, <4>1, <4>2
    <3> QED BY <3>1, <3>2, <3>6
  <2>3. CASE Prune(n, q)
    BY <2>3 DEF Prune, requests, listing, Types
  <2> QED BY <2>1, <2>2, <2>3
<1>2. Types'
  BY <1>1 DEF Types
<1>3. \A m \in Requests : /\ Targets(m)' = Targets(m) /\ Key(m)' = Key(m)
                          /\ Targets(m) \subseteq Requests
                          /\ (Is(m, "message")' <=> Is(m, "message"))
                          /\ (Is(m, "subscribe")' <=> Is(m, "subscribe"))
                          /\ (Notifies(m)' <=> Notifies(m))
  BY <1>1 DEF Targets, Key, Is, Notifies
<1>4. Is(n, "message") => pc[n] # "done" /\ ended[n] # "returned"
  BY <1>1 DEF Flow
<1>5. Flow'
  <2>1. UNCHANGED <<op, pc, later, todo, ended>>
    BY <1>1
  <2>2. \A m \in Requests : Is(m, "message") /\ pc[m] = "done" =>
           \A p \in Requests : worker'[m][p] = worker[m][p]
    BY <1>1, <1>4
  <2>3. Flow
    OBVIOUS
  <2> HIDE DEF SendInv
  <2> QED BY <1>3, <2>1, <2>2, <2>3 DEF Flow, Is
<1>6. Settled'
  <2>1. rows \subseteq Requests /\ \A m \in Requests : todo[m] \subseteq Requests
    BY DEF Types
  <2> QED BY <1>1, <1>3, <2>1 DEF Settled
<1>7. OneRowEach' /\ OncePerDevice'
  BY <1>1, <1>3 DEF OneRowEach, OncePerDevice, Types
<1>8. MessagesAreTried'
  <2>1. ended[n] \in {"no", "timeout", "returned"}
    BY DEF Types
  <2> QED BY <1>1, <1>3, <1>4, <2>1 DEF MessagesAreTried, Tried
<1>9. (\A m, p \in Requests :
          worker[m][p] = "pruning" => op[p].endpoint \in dead /\ p \in reached[m])'
  BY <1>1
<1> QED BY <1>2, <1>5, <1>6, <1>7, <1>8, <1>9

\* A step of the push service or of a socket.
LEMMA OutsideSend ==
    ASSUME SendInv, dead \subseteq dead', dead' \subseteq Endpoints,
           UNCHANGED <<op, pc, rows, later, todo, worker, reached, ended>>
    PROVE  SendInv'
<1> USE DEF SendInv
<1>1. Types' /\ Flow' /\ Settled' /\ OneRowEach'
  BY DEF Types, Flow, Settled, OneRowEach, Is, Notifies, Targets, Key
<1>2. OncePerDevice' /\ MessagesAreTried'
  BY DEF OncePerDevice, MessagesAreTried, Tried, Is, Targets, Key
<1> QED BY <1>1, <1>2

LEMMA NextSend == SendInv /\ [Next]_vars => SendInv'
<1> SUFFICES ASSUME SendInv, [Next]_vars PROVE SendInv'
  OBVIOUS
<1>1. ASSUME NEW r \in Requests,
             Begin(r) \/ Cleanup(r) \/ Insert(r) \/ Remove(r) \/ BreakOff(r)
      PROVE  SendInv'
  BY <1>1, BeginSend, RequestSend
<1>2. ASSUME NEW n \in Requests, Notifier(n) \/ Timeout(n) PROVE SendInv'
  BY <1>2, ListSend, MovesOnSend, ConsiderSend, EndSend DEF Notifier
<1>3. ASSUME NEW n \in Requests, NEW q \in Requests,
             Acquire(n, q) \/ Attempt(n, q) \/ Prune(n, q)
      PROVE  SendInv'
  BY <1>3, WorkerSend
<1>4. ASSUME NEW e \in Endpoints, Die(e) PROVE SendInv'
  BY <1>4, OutsideSend DEF Die, requests, listing, sending, SendInv, Types
<1>5. ASSUME UNCHANGED <<requests, pc, rows, dead, listing, sending, ended>> PROVE SendInv'
  BY <1>5, OutsideSend DEF requests, listing, sending, SendInv, Types
<1>6. ASSUME NEW c \in Sockets, Open(c) \/ Focus(c) \/ Renew(c) \/ Blur(c) \/ HangUp(c)
      PROVE  SendInv'
  BY <1>5, <1>6 DEF Open, Focus, Renew, Blur, HangUp
<1>7. ASSUME NEW k \in Keys, Expire(k) PROVE SendInv'
  BY <1>5, <1>7 DEF Expire
<1>8. CASE UNCHANGED vars
  BY <1>5, <1>8 DEF vars, requests, listing, sending
<1> QED BY <1>1, <1>2, <1>3, <1>4, <1>6, <1>7, <1>8 DEF Next, Send

LEMMA SendIsInvariant == Spec => []SendInv
  BY InitSend, NextSend, PTL DEF Spec

\* For any devices, groups, requests and slots: a notification gives each device
\* of a user at most one worker.
THEOREM NoDeviceTwice == Spec => []OncePerDevice
<1>1. SendInv => OncePerDevice
  BY DEF SendInv
<1> QED BY <1>1, SendIsInvariant, PTL

\* A message asks the push service of every device it was meant for, unless its
\* own 15 seconds are over.
THEOREM MessagesReachOut == Spec => []MessagesAreTried
<1>1. SendInv => MessagesAreTried
  BY DEF SendInv
<1> QED BY <1>1, SendIsInvariant, PTL

\* A subscription whose endpoint lives goes only with a request of its own user
\* or for its own endpoint or device.
THEOREM LiveStay == Spec => LiveRowsStay
<1> DEFINE Lost(q) ==
       \/ op[q].endpoint \in dead
       \/ \E r \in Requests :
             /\ pc[r] \in {"cleanup", "remove"} /\ pc'[r] # pc[r]
             /\ IF Is(r, "subscribe") THEN Conflicts(q, r) ELSE Asked(r, q)
<1>1. SendInv /\ [Next]_vars => [\A q \in rows \ rows' : Lost(q)]_vars
  <2> SUFFICES ASSUME SendInv, [Next]_vars, NEW q \in rows \ rows' PROVE Lost(q)
    BY DEF LiveRowsStay
  <2>1. ASSUME NEW r \in Requests, Cleanup(r) PROVE Lost(q)
    <3>1. Is(r, "subscribe") /\ pc[r] = "cleanup"
      BY <2>1 DEF SendInv, Flow, Cleanup
    <3>2. pc'[r] = "insert"
      BY <2>1 DEF Cleanup, Goto, SendInv, Types
    <3> QED BY <2>1, <3>1, <3>2 DEF Cleanup
  <2>2. ASSUME NEW r \in Requests, Remove(r) PROVE Lost(q)
    <3>1. ~Is(r, "subscribe") /\ pc[r] = "remove"
      BY <2>2 DEF SendInv, Flow, Remove, Is
    <3>2. pc'[r] = "done"
      BY <2>2 DEF Remove, Answer, Goto, SendInv, Types
    <3> QED BY <2>2, <3>1, <3>2 DEF Remove
  <2>3. ASSUME NEW n \in Requests, NEW p \in Requests, Prune(n, p) PROVE Lost(q)
    BY <2>3 DEF SendInv, Prune, Pruned
  <2>4. ASSUME rows \subseteq rows' PROVE Lost(q)
    BY <2>4
  <2>5. ASSUME NEW r \in Requests, Begin(r) \/ Insert(r) \/ BreakOff(r) PROVE Lost(q)
    BY <2>4, <2>5 DEF Begin, Insert, BreakOff
  <2>6. ASSUME NEW n \in Requests, Notifier(n) \/ Timeout(n) PROVE Lost(q)
    BY <2>4, <2>6 DEF Notifier, List, ListFails, Considered, Return, Consider, Timeout
  <2>7. ASSUME NEW n \in Requests, NEW p \in Requests, Acquire(n, p) \/ Attempt(n, p)
        PROVE  Lost(q)
    BY <2>4, <2>7 DEF Acquire, Attempt
  <2>8. ASSUME NEW e \in Endpoints, Die(e) PROVE Lost(q)
    BY <2>4, <2>8 DEF Die
  <2>9. ASSUME NEW c \in Sockets, Open(c) \/ Focus(c) \/ Renew(c) \/ Blur(c) \/ HangUp(c)
        PROVE  Lost(q)
    BY <2>4, <2>9 DEF Open, Focus, Renew, Blur, HangUp
  <2>10. ASSUME NEW k \in Keys, Expire(k) PROVE Lost(q)
    BY <2>4, <2>10 DEF Expire
  <2>11. CASE UNCHANGED vars
    BY <2>4, <2>11 DEF vars
  <2> QED BY <2>1, <2>2, <2>3, <2>5, <2>6, <2>7, <2>8, <2>9, <2>10, <2>11 DEF Next, Send
<1> QED BY <1>1, SendIsInvariant, PTL DEF Spec, LiveRowsStay
-----------------------------------------------------------------------------
(***************************************************************************)
(* Types, and the slots of the semaphore.                                  *)
(***************************************************************************)

\* A worker that may still try has an attempt left; a message's list is looked at once.
SlotInv ==
    /\ op \in [Requests -> {NoOp} \cup UNION {MayAsk[r] : r \in Requests}]
    /\ answer \in [Requests -> {"none", "ok", "error"}]
    /\ group \in [Requests -> Groups \cup {NoGroup}]
    /\ tries \in [Requests -> [Requests -> 0..Attempts]]
    /\ \A n, q \in Requests :
          worker[n][q] \in {"none", "queued", "sending"} => tries[n][q] < Attempts
    /\ \A n \in Requests : Is(n, "message") => todo[n] \cap Targets(n) = {}
    /\ IsFiniteSet(Busy)
    /\ Cardinality(Busy) <= Slots

LEMMA InitSlots == Init => SlotInv
<1> SUFFICES ASSUME Init PROVE SlotInv
  OBVIOUS
<1>1. Busy = {}
  BY DEF Init, Busy
<1> QED BY <1>1, FS_EmptySet DEF Init, SlotInv, Attempts, Is, NoOp

\* Slots that are given back stay within the bound.
LEMMA FewerBusy ==
    ASSUME SlotInv, Busy' \subseteq Busy
    PROVE  IsFiniteSet(Busy') /\ Cardinality(Busy') <= Slots
<1>1. IsFiniteSet(Busy') /\ Cardinality(Busy') <= Cardinality(Busy)
  BY FS_Subset DEF SlotInv
<1>2. Cardinality(Busy) \in Nat /\ Cardinality(Busy') \in Nat
  BY <1>1, FS_CardinalityType DEF SlotInv
<1> QED BY <1>1, <1>2 DEF SlotInv

\* Steps that leave the workers and what they are given alone.
LEMMA OtherSlots ==
    ASSUME SlotInv, UNCHANGED <<op, todo, worker, tries>>,
           answer' \in [Requests -> {"none", "ok", "error"}],
           group' \in [Requests -> Groups \cup {NoGroup}]
    PROVE  SlotInv'
<1>1. Busy' = Busy
  BY DEF Busy
<1> QED BY <1>1 DEF SlotInv, Targets, Is

LEMMA BeginSlots ==
    ASSUME SendInv, SlotInv, NEW r \in Requests, Begin(r)
    PROVE  SlotInv'
<1>1. PICK o \in MayAsk[r] : op' = [op EXCEPT ![r] = o]
  BY DEF Begin
<1>2. UNCHANGED <<answer, group, todo, worker, tries>> /\ pc[r] = "idle"
  BY DEF Begin, sending
<1>3. Busy' = Busy /\ \A n \in Requests : Targets(n)' = Targets(n)
  BY <1>2 DEF Busy, Targets
<1>4. op' \in [Requests -> {NoOp} \cup UNION {MayAsk[q] : q \in Requests}]
  BY <1>1 DEF SlotInv
<1>5. todo[r] = {}
  BY <1>2 DEF SendInv, Flow
<1>6. \A n \in Requests \ {r} : Is(n, "message")' <=> Is(n, "message")
  BY <1>1 DEF Is, SlotInv
<1> QED BY <1>2, <1>3, <1>4, <1>5, <1>6 DEF SlotInv

LEMMA ListSlots ==
    ASSUME SendInv, SlotInv, NEW n \in Requests, List(n)
    PROVE  SlotInv'
<1>1. UNCHANGED <<op, answer, worker, tries>> /\ pc[n] = "list"
  BY DEF List, requests, sending
<1>2. Busy' = Busy /\ \A m \in Requests : Targets(m)' = Targets(m)
  BY <1>1 DEF Busy, Targets
<1>3. Head(later[n]) \in Groups
  BY <1>1 DEF SendInv, Types, Flow
<1>4. group' \in [Requests -> Groups \cup {NoGroup}]
  BY <1>3 DEF List, SlotInv
<1>5. \A m \in Requests \ {n} : todo'[m] = todo[m]
  BY DEF List, SendInv, Types
<1>6. Is(n, "message") => Targets(n) = {}
  BY <1>1 DEF SendInv, Flow
<1>7. \A m \in Requests : Is(m, "message")' <=> Is(m, "message")
  BY <1>1 DEF Is
<1>8. \A m \in Requests : Is(m, "message")' => todo'[m] \cap Targets(m)' = {}
  BY <1>2, <1>5, <1>6, <1>7 DEF SlotInv
<1> QED BY <1>1, <1>2, <1>4, <1>8 DEF SlotInv

\* A subscription is given a worker once.
LEMMA ConsiderSlots ==
    ASSUME SendInv, SlotInv, NEW n \in Requests, NEW q \in Requests, Consider(n, q)
    PROVE  SlotInv'
<1>1. UNCHANGED <<op, answer, group, tries>> /\ pc[n] = "consider" /\ q \in todo[n]
      /\ todo' = [todo EXCEPT ![n] = @ \ {q}]
  BY DEF Consider, requests
<1>2. Notifies(n)
  BY <1>1 DEF SendInv, Flow
<1>3. \/ worker' = worker
      \/ worker' = [worker EXCEPT ![n][q] = "queued"] /\ q \notin Targets(n)
  <2>1. CASE Is(n, "share")
    BY <2>1 DEF Consider, Seen
  <2>2. CASE Is(n, "message")
    BY <1>1, <2>2 DEF Consider, SlotInv
  <2> QED BY <1>2, <2>1, <2>2 DEF Notifies, Is
<1>4. \A m, p \in Requests : worker'[m][p] =
         IF worker' # worker /\ m = n /\ p = q THEN "queued" ELSE worker[m][p]
  BY <1>3 DEF SendInv, Types
<1>5. Busy' \subseteq Busy
  BY <1>4 DEF Busy
<1>6. worker' # worker => worker[n][q] = "none"
  BY <1>3 DEF Targets
<1>7. \A m, p \in Requests :
         worker'[m][p] \in {"none", "queued", "sending"} => tries[m][p] < Attempts
  BY <1>4, <1>6 DEF SlotInv
<1>8. \A m \in Requests : Targets(m)' \subseteq Targets(m) \cup (IF m = n THEN {q} ELSE {})
  BY <1>4 DEF Targets
<1>9. \A m \in Requests : todo'[m] = IF m = n THEN todo[m] \ {q} ELSE todo[m]
  BY <1>1 DEF SendInv, Types
<1>10. \A m \in Requests : Is(m, "message")' => todo'[m] \cap Targets(m)' = {}
  <2> SUFFICES ASSUME NEW m \in Requests, Is(m, "message")
               PROVE  todo'[m] \cap Targets(m)' = {}
    BY <1>1 DEF Is
  <2>1. todo[m] \cap Targets(m) = {}
    BY DEF SlotInv
  <2> QED BY <1>8, <1>9, <2>1
<1> QED BY <1>1, <1>5, <1>7, <1>10, FewerBusy DEF SlotInv

\* A worker takes a slot that is free ...
LEMMA AcquireSlots ==
    ASSUME SendInv, SlotInv, NEW n \in Requests, NEW q \in Requests, Acquire(n, q)
    PROVE  SlotInv'
<1>1. UNCHANGED <<op, answer, group, todo, tries>> /\ worker[n][q] = "queued"
      /\ worker' = [worker EXCEPT ![n][q] = "sending"]
  BY DEF Acquire, requests, listing
<1>2. \A m, p \in Requests : worker'[m][p] =
         IF m = n /\ p = q THEN "sending" ELSE worker[m][p]
  BY <1>1 DEF SendInv, Types
<1>3. Busy' = Busy \cup {<<n, q>>}
  BY <1>2 DEF Busy
<1>4. /\ IsFiniteSet(Busy')
      /\ Cardinality(Busy') = Cardinality(Busy) \/ Cardinality(Busy') = Cardinality(Busy) + 1
  BY <1>3, FS_AddElement DEF SlotInv
<1>5. Cardinality(Busy) \in Nat /\ Cardinality(Busy) < Slots
  BY FS_CardinalityType DEF SlotInv, Acquire, HasSlot
<1>6. Cardinality(Busy') <= Slots
  BY <1>4, <1>5
<1>7. \A m \in Requests : Targets(m)' = Targets(m)
  BY <1>1, <1>2 DEF Targets
<1>8. \A m, p \in Requests :
         worker'[m][p] \in {"none", "queued", "sending"} => tries[m][p] < Attempts
  BY <1>1, <1>2 DEF SlotInv
<1> QED BY <1>1, <1>4, <1>6, <1>7, <1>8 DEF SlotInv, Is

\* ... and works until it is done.
LEMMA WorkerMoves ==
    ASSUME SendInv, SlotInv, NEW n \in Requests, NEW q \in Requests,
           NEW w \in {"sending", "pruning", "done"},
           worker[n][q] \in {"sending", "pruning"},
           worker' = [worker EXCEPT ![n][q] = w],
           UNCHANGED <<op, answer, group, todo>>,
           tries' \in [Requests -> [Requests -> 0..Attempts]],
           \A m, p \in Requests : m # n \/ p # q => tries'[m][p] = tries[m][p],
           w = "sending" => tries'[n][q] < Attempts
    PROVE  SlotInv'
<1>1. \A m, p \in Requests : worker'[m][p] =
         IF m = n /\ p = q THEN w ELSE worker[m][p]
  BY DEF SendInv, Types
<1>2. Busy' \subseteq Busy
  BY <1>1 DEF Busy
<1>3. \A m \in Requests : Targets(m)' = Targets(m)
  BY <1>1 DEF Targets
<1>4. \A m, p \in Requests :
         worker'[m][p] \in {"none", "queued", "sending"} => tries'[m][p] < Attempts
  BY <1>1 DEF SlotInv
<1> QED BY <1>2, <1>3, <1>4, FewerBusy DEF SlotInv, Is

\* An attempt is one of three.
LEMMA AttemptSlots ==
    ASSUME SendInv, SlotInv, NEW n \in Requests, NEW q \in Requests, Attempt(n, q)
    PROVE  SlotInv'
<1>1. UNCHANGED <<op, answer, group, todo>> /\ worker[n][q] = "sending"
  BY DEF Attempt, requests, listing
<1>2. tries[n][q] \in 0..Attempts /\ tries[n][q] < Attempts /\ Attempts \in Nat
  BY <1>1 DEF SlotInv, Attempts
<1>3. CASE Retry(n, q)
  <2>1. tries' = [tries EXCEPT ![n][q] = @ + 1]
    BY <1>3 DEF Retry
  <2>2. tries[n][q] + 1 \in 0..Attempts
    BY <1>2
  <2>3. tries' \in [Requests -> [Requests -> 0..Attempts]]
    BY <2>1, <2>2 DEF SlotInv
  <2>4. \A m, p \in Requests : m # n \/ p # q => tries'[m][p] = tries[m][p]
    BY <2>1 DEF SlotInv
  <2>5. CASE tries'[n][q] < Attempts
    <3>1. worker' = [worker EXCEPT ![n][q] = "sending"]
      BY <1>1, <1>3, <2>5 DEF Retry, SendInv, Types
    <3> QED BY <1>1, <2>3, <2>4, <2>5, <3>1, WorkerMoves
  <2>6. CASE ~(tries'[n][q] < Attempts)
    <3>1. worker' = [worker EXCEPT ![n][q] = "done"]
      BY <1>3, <2>6 DEF Retry
    <3> QED BY <1>1, <2>3, <2>4, <3>1, WorkerMoves
  <2> QED BY <2>5, <2>6
<1>4. CASE ~Retry(n, q)
  <2>1. tries' = tries
        /\ worker' = [worker EXCEPT ![n][q] =
              IF op[q].endpoint \in dead THEN "pruning" ELSE "done"]
    BY <1>4 DEF Attempt
  <2> QED BY <1>1, <2>1, WorkerMoves DEF SlotInv
<1> QED BY <1>3, <1>4

LEMMA PruneSlots ==
    ASSUME SendInv, SlotInv, NEW n \in Requests, NEW q \in Requests, Prune(n, q)
    PROVE  SlotInv'
<1>1. /\ UNCHANGED <<op, answer, group, todo, tries>> /\ worker[n][q] = "pruning"
      /\ worker' = [worker EXCEPT ![n][q] = "done"]
  BY DEF Prune, requests, listing
<1> QED BY <1>1, WorkerMoves DEF SlotInv

LEMMA NextSlots == SendInv /\ SlotInv /\ [Next]_vars => SlotInv'
<1> SUFFICES ASSUME SendInv, SlotInv, [Next]_vars PROVE SlotInv'
  OBVIOUS
<1>1. answer \in [Requests -> {"none", "ok", "error"}]
      /\ group \in [Requests -> Groups \cup {NoGroup}]
  BY DEF SlotInv
<1>2. ASSUME NEW r \in Requests, Cleanup(r) \/ Insert(r) \/ Remove(r) \/ BreakOff(r)
      PROVE  SlotInv'
  <2>1. UNCHANGED <<op, todo, worker, tries, group>>
        /\ answer' \in [Requests -> {"none", "ok", "error"}]
    BY <1>1, <1>2 DEF Cleanup, Insert, Remove, BreakOff, Goto, Answer, requests,
       listing, sending
  <2> QED BY <1>1, <2>1, OtherSlots
<1>3. ASSUME NEW n \in Requests, ListFails(n) \/ Considered(n) \/ Return(n) \/ Timeout(n)
      PROVE  SlotInv'
  <2>1. UNCHANGED <<op, todo, worker, tries, group>>
        /\ answer' \in [Requests -> {"none", "ok", "error"}]
    BY <1>1, <1>3 DEF ListFails, Considered, Return, Timeout, Goto, Answer, requests,
       listing, sending
  <2> QED BY <1>1, <2>1, OtherSlots
<1>4. ASSUME UNCHANGED <<requests, listing, sending>> PROVE SlotInv'
  BY <1>1, <1>4, OtherSlots DEF requests, listing, sending
<1>5. ASSUME NEW r \in Requests, Begin(r) PROVE SlotInv'
  BY <1>5, BeginSlots
<1>6. ASSUME NEW n \in Requests, List(n) PROVE SlotInv'
  BY <1>6, ListSlots
<1>7. ASSUME NEW n \in Requests, NEW q \in Requests,
             Consider(n, q) \/ Acquire(n, q) \/ Attempt(n, q) \/ Prune(n, q)
      PROVE  SlotInv'
  BY <1>7, ConsiderSlots, AcquireSlots, AttemptSlots, PruneSlots
<1>8. ASSUME NEW e \in Endpoints, Die(e) PROVE SlotInv'
  BY <1>4, <1>8 DEF Die
<1>9. ASSUME NEW c \in Sockets, Open(c) \/ Focus(c) \/ Renew(c) \/ Blur(c) \/ HangUp(c)
      PROVE  SlotInv'
  BY <1>4, <1>9 DEF Open, Focus, Renew, Blur, HangUp
<1>10. ASSUME NEW k \in Keys, Expire(k) PROVE SlotInv'
  BY <1>4, <1>10 DEF Expire
<1>11. CASE UNCHANGED vars
  BY <1>4, <1>11 DEF vars, requests, listing, sending
<1> QED
  BY <1>2, <1>3, <1>5, <1>6, <1>7, <1>8, <1>9, <1>10, <1>11 DEF Next, Notifier, Send

\* Whatever is registered, sent, tried again and pruned, the tables are well
\* formed and no more workers send at a time than there are slots.
THEOREM PushTyped == Spec => []TypeOK
<1>1. SendInv /\ LeaseInv /\ SlotInv => TypeOK
  BY DEF SendInv, Types, Settled, LeaseInv, SlotInv, TypeOK
<1>2. Spec => []SlotInv
  BY InitSlots, NextSlots, SendIsInvariant, PTL DEF Spec
<1>3. Spec => []LeaseInv
  BY InitLease, NextLease, PTL DEF Spec
<1> QED BY <1>1, <1>2, <1>3, SendIsInvariant, PTL
=============================================================================
