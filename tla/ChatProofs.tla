------------------------------ MODULE ChatProofs ------------------------------
(***************************************************************************)
(* Proofs about the chat service for any number of requests, users, groups *)
(* and failures: first the messages, the events about them and the rows    *)
(* behind them, then the reactions.                                        *)
(***************************************************************************)
EXTENDS ChatProperties, FiniteSetTheorems, TLAPS

Posting(r) == op[r].kind \in {"send", "meal"}
Changing(r) == op[r].kind \in {"delete", "react", "unreact"}

DeletionTold(m) ==
    \E i \in 1..Len(log) : log[i].kind = "deleted" /\ log[i].id = m

\* What a request's position says about the kind of its operation.
Position ==
    \A r \in Requests :
       /\ pc[r] = "idle" <=> op[r] = NoOp
       /\ pc[r] \in {"insert", "find", "get", "finish"} => Posting(r)
       /\ pc[r] \in {"write", "commit", "recheck"} => Changing(r)
       /\ pc[r] # "done" => answer[r] = "none"

\* A row belongs to a request that got past its insert and answers for it;
\* the request announces it once, unless it breaks off.
Rows ==
    \A r \in Requests :
       /\ Stored(r) => /\ Posting(r)
                       /\ found[r] = r
                       /\ pc[r] \in {"get", "announce", "finish", "done"}
       /\ pc[r] = "get" \/ (Posting(r) /\ answer[r] = "ok") =>
             /\ Stored(found[r])
             /\ Is(r, "send") => SameKey(found[r], r)
             /\ Is(r, "meal") => SameCard(found[r], r)
       /\ Posting(r) /\ answer[r] = "ok" => op[found[r]].group = op[r].group
       /\ Posting(r) /\ pc[r] \in {"announce", "finish"} =>
             found[r] = r /\ Stored(r)
       /\ Announced(r) => Stored(r) /\ pc[r] \in {"finish", "done"}
       /\ pc[r] = "finish" => Announced(r)
       /\ Stored(r) /\ pc[r] = "done" => Announced(r) \/ answer[r] = "error"

\* A target that passed the check stays a row; a deletion about to be told has
\* happened, is not told yet, and is told by one request.
Changes ==
    \A r \in Requests :
       /\ Changing(r) /\ pc[r] \in {"write", "commit", "announce", "recheck"} =>
             Stored(Target(r))
       /\ DeletionTold(r) => row[r] = "deleted"
       /\ r \in reactions => Is(r, "react") /\ pc[r] \in {"announce", "done"}
       /\ Is(r, "delete") /\ pc[r] = "announce" =>
             /\ row[Target(r)] = "deleted"
             /\ ~DeletionTold(Target(r))
             /\ \A q \in Requests :
                   /\ Is(q, "delete") /\ pc[q] = "announce" /\ Target(q) = Target(r)
                   => q = r

\* A request begun outside the group is at its check or has been refused there.
Outsiders ==
    \A r \in outsiders :
       /\ pc[r] \in {"check", "done"}
       /\ answer[r] # "ok"
       /\ ~Stored(r)
       /\ r \notin reactions
       /\ Is(r, "send") \/ Changing(r)
       /\ Is(r, "send") => <<op[r].user, op[r].group>> \notin members
       /\ Changing(r) => Posting(Target(r)) /\ ~IsMemberOfTarget(r)

OneRowPerKey ==
    \A q, r \in Requests :
       Is(r, "send") /\ Stored(q) /\ Stored(r) /\ SameKey(q, r) => q = r

OneRowPerCard ==
    \A q, r \in Requests :
       Is(r, "meal") /\ row[q] = "live" /\ row[r] = "live" /\ SameCard(q, r) => q = r

LogOnce ==
    /\ \A i, j \in 1..Len(log) :
          /\ log[i].kind \in {"message", "deleted"}
          /\ log[i].kind = log[j].kind
          /\ log[i].id = log[j].id
          => i = j
    /\ \A m \in pushed : Announced(m)
    /\ \A i \in 1..Len(log) : Stored(log[i].id)

ChatInv ==
    /\ TypeOK
    /\ Position
    /\ Rows
    /\ Changes
    /\ Outsiders
    /\ OneRowPerKey
    /\ OneRowPerCard
    /\ LogOnce

USE ChatAssumption

-----------------------------------------------------------------------------
(***************************************************************************)
(* Facts about the definitions the actions are built from.                 *)
(***************************************************************************)

\* No operation is the placeholder of a request that has not begun.
LEMMA OperationFields ==
    ASSUME NEW o \in Operations
    PROVE  /\ o # NoOp
           /\ o.kind \in {"send", "meal", "delete", "react", "unreact"}
           /\ o.kind \in {"send", "meal"} => o.user \in Users /\ o.group \in Groups
           /\ o.kind \in {"delete", "react", "unreact"} =>
                 o.user \in Users /\ o.target \in Requests
BY DEF Operations, NoOp

\* What a request that has begun was asked.
LEMMA RequestFields ==
    ASSUME TypeOK, Position, NEW r \in Requests, pc[r] # "idle"
    PROVE  /\ Posting(r) \/ Changing(r)
           /\ ~(Posting(r) /\ Changing(r))
           /\ Posting(r) => op[r].user \in Users /\ op[r].group \in Groups
           /\ Changing(r) => op[r].user \in Users /\ Target(r) \in Requests
<1>1. op[r] \in Operations
  BY DEF TypeOK, Position
<1> QED BY <1>1, OperationFields DEF Posting, Changing, Target

\* Appending an event changes what the log tells by that event only.
LEMMA AppendEvent ==
    ASSUME log \in Seq(Events), NEW e \in Events, log' = Append(log, e)
    PROVE  /\ log' \in Seq(Events)
           /\ Len(log) \in Nat /\ Len(log') = Len(log) + 1
           /\ \A i \in 1..Len(log) : log'[i] = log[i]
           /\ log'[Len(log) + 1] = e
           /\ \A m : Announced(m)' <=> Announced(m) \/ (e.kind = "message" /\ e.id = m)
           /\ \A m : DeletionTold(m)' <=> DeletionTold(m) \/ (e.kind = "deleted" /\ e.id = m)
<1>1. /\ log' \in Seq(Events)
      /\ Len(log) \in Nat /\ Len(log') = Len(log) + 1
      /\ \A i \in 1..Len(log) : log'[i] = log[i]
      /\ log'[Len(log) + 1] = e
  OBVIOUS
<1>2. ASSUME NEW m
      PROVE  Announced(m)' <=> Announced(m) \/ (e.kind = "message" /\ e.id = m)
  BY <1>1 DEF Announced
<1>3. ASSUME NEW m
      PROVE  DeletionTold(m)' <=> DeletionTold(m) \/ (e.kind = "deleted" /\ e.id = m)
  BY <1>1 DEF DeletionTold
<1> QED BY <1>1, <1>2, <1>3

LEMMA InitChatInv == Init => ChatInv
<1> SUFFICES ASSUME Init PROVE ChatInv
  OBVIOUS
<1> USE DEF Init
<1>1. log \in Seq(Events)
  OBVIOUS
<1>2. TypeOK
  <2>1. /\ op \in [Requests -> Operations \cup {NoOp}]
        /\ pc \in [Requests -> Labels]
        /\ row \in [Requests -> RowStates] /\ seen \in [Requests -> RowStates]
    BY DEF Labels, RowStates
  <2>2. /\ found \in [Requests -> Requests]
        /\ snap \in [Requests -> SUBSET Requests]
        /\ answer \in [Requests -> {"none", "ok", "refused", "error"}]
    OBVIOUS
  <2> QED BY <1>1, <2>1, <2>2 DEF TypeOK
<1>3. \A r \in Requests : ~Stored(r) /\ ~Posting(r) /\ ~Changing(r) /\ ~Is(r, "react")
                          /\ ~Is(r, "delete")
  BY DEF Stored, Posting, Changing, Is, NoOp
<1>4. Position
  BY DEF Position
<1>5. \A m : ~Announced(m) /\ ~DeletionTold(m)
  BY DEF Announced, DeletionTold
<1>6. Rows
  BY <1>3, <1>5 DEF Rows
<1>7. Changes
  BY <1>3, <1>5 DEF Changes
<1>8. Outsiders /\ OneRowPerKey /\ OneRowPerCard /\ LogOnce
  BY <1>3 DEF Outsiders, OneRowPerKey, OneRowPerCard, LogOnce
<1> QED BY <1>2, <1>4, <1>6, <1>7, <1>8 DEF ChatInv

-----------------------------------------------------------------------------
(***************************************************************************)
(* Steps that leave the tables, the log and what was found alone: checks,  *)
(* snapshots and reads.                                                    *)
(***************************************************************************)

\* Where the request may go by such a step.
ReadStep(r) ==
    \/ SendCheck(r) \/ Get(r) \/ ChangeCheck(r) \/ DeleteSnapshot(r)
    \/ ReactSnapshot(r) \/ Recheck(r) \/ BreakOff(r)

LEMMA ReadStepFrame ==
    ASSUME ChatInv, NEW r \in Requests, ReadStep(r)
    PROVE  /\ UNCHANGED <<op, members, row, reactions, found, log, pushed, outsiders>>
           /\ \A q \in Requests \ {r} : pc'[q] = pc[q] /\ answer'[q] = answer[q]
           /\ pc[r] \notin {"idle", "done"} /\ op[r] # NoOp
           /\ pc'[r] \in Labels \ {"idle"}
<1> USE DEF ChatInv, Goto, Return, tables, locals, outputs
<1>1. pc \in [Requests -> Labels] /\ answer \in [Requests -> {"none", "ok", "refused", "error"}]
  BY DEF TypeOK
<1>2. op[r] # NoOp <=> pc[r] # "idle"
  BY DEF Position
<1>3. CASE SendCheck(r) \/ ChangeCheck(r)
  BY <1>1, <1>2, <1>3 DEF SendCheck, ChangeCheck, Labels
<1>4. CASE Get(r)
  BY <1>1, <1>2, <1>4 DEF Get, Labels
<1>5. CASE DeleteSnapshot(r) \/ ReactSnapshot(r)
  BY <1>1, <1>2, <1>5 DEF DeleteSnapshot, ReactSnapshot, Labels
<1>6. CASE Recheck(r) \/ BreakOff(r)
  BY <1>1, <1>2, <1>6 DEF Recheck, BreakOff, Labels
<1> QED BY <1>3, <1>4, <1>5, <1>6 DEF ReadStep

LEMMA ReadStepType ==
    ASSUME ChatInv, NEW r \in Requests, ReadStep(r)
    PROVE  TypeOK'
<1> USE DEF ChatInv, Goto, Return, tables, locals, outputs
<1>1. CASE SendCheck(r) \/ ChangeCheck(r)
  BY <1>1 DEF SendCheck, ChangeCheck, TypeOK, Labels
<1>2. CASE Get(r)
  BY <1>2 DEF Get, TypeOK, Labels
<1>3. CASE DeleteSnapshot(r)
  BY <1>3 DEF DeleteSnapshot, TypeOK, Labels
<1>4. CASE ReactSnapshot(r)
  <2>1. Target(r) \in Requests
    BY <1>4, RequestFields DEF ReactSnapshot, Is, Changing
  <2> QED BY <1>4, <2>1 DEF ReactSnapshot, TypeOK, Labels
<1>5. CASE Recheck(r)
  <2>1. RecheckAnswer(r) \in {"refused", "ok"}
    BY DEF RecheckAnswer
  <2> QED BY <1>5, <2>1 DEF Recheck, TypeOK, Labels
<1>6. CASE BreakOff(r)
  BY <1>6 DEF BreakOff, TypeOK, Labels
<1> QED BY <1>1, <1>2, <1>3, <1>4, <1>5, <1>6 DEF ReadStep

\* Where the step takes the request, by its kind, and what it answers.
LEMMA ReadStepTarget ==
    ASSUME ChatInv, NEW r \in Requests, ReadStep(r)
    PROVE  /\ Posting(r) => \/ pc[r] = "check" /\ pc'[r] = "insert" /\ r \notin outsiders
                            \/ pc[r] = "get" /\ pc'[r] = "announce" /\ found[r] = r
                            \/ pc[r] = "get" /\ pc'[r] = "done" /\ answer'[r] = "ok"
                               /\ op[found[r]].group = op[r].group /\ found[r] # r
                            \/ pc'[r] = "done" /\ answer'[r] = "refused" /\ ~Stored(r)
                            \/ pc'[r] = "done" /\ answer'[r] = "error"
           /\ Changing(r) => \/ pc[r] = "check" /\ pc'[r] = "write" /\ Stored(Target(r))
                                /\ r \notin outsiders
                             \/ pc[r] = "write" /\ pc'[r] = "commit"
                             \/ pc[r] = "recheck" /\ pc'[r] = "done" /\ answer'[r] \in {"ok", "refused"}
                             \/ pc'[r] = "done" /\ answer'[r] \in {"refused", "error"}
           /\ pc'[r] # "done" => answer'[r] = "none"
<1> USE DEF ChatInv, Goto, Return
<1>1. pc \in [Requests -> Labels] /\ answer \in [Requests -> {"none", "ok", "refused", "error"}]
  BY DEF TypeOK
<1>2. pc[r] # "done" => answer[r] = "none"
  BY DEF Position
<1>3. CASE SendCheck(r)
  <2>1. ~Stored(r)
    BY <1>3 DEF SendCheck, Rows
  <2> QED BY <1>1, <1>2, <1>3, <2>1 DEF SendCheck, Is, Posting, Changing, Outsiders
<1>4. CASE Get(r)
  <2>1. Posting(r) /\ ~Changing(r)
    BY <1>4 DEF Get, Position, Posting, Changing
  <2>2. op[found[r]].group # op[r].group => ~Stored(r)
    BY DEF Rows
  <2> QED BY <1>1, <1>2, <1>4, <2>1, <2>2 DEF Get, IsNew
<1>5. CASE ChangeCheck(r)
  <2>1. Changing(r) /\ ~Posting(r) /\ pc[r] = "check"
    BY <1>5 DEF ChangeCheck, Posting, Changing
  <2>2. r \in outsiders => ~MayChange(r)
    BY <2>1 DEF Outsiders, MayChange
  <2>3. MayChange(r) => Stored(Target(r))
    BY DEF MayChange
  <2> QED BY <1>1, <1>2, <1>5, <2>1, <2>2, <2>3 DEF ChangeCheck
<1>6. CASE DeleteSnapshot(r) \/ ReactSnapshot(r)
  BY <1>1, <1>2, <1>6 DEF DeleteSnapshot, ReactSnapshot, Is, Posting, Changing
<1>7. CASE Recheck(r)
  BY <1>1, <1>2, <1>7 DEF Recheck, RecheckAnswer, Is, Posting, Changing
<1>8. CASE BreakOff(r)
  BY <1>1, <1>2, <1>8 DEF BreakOff
<1> QED BY <1>3, <1>4, <1>5, <1>6, <1>7, <1>8 DEF ReadStep

LEMMA ReadStepChatInv ==
    ASSUME ChatInv, NEW r \in Requests, ReadStep(r)
    PROVE  ChatInv'
<1> DEFINE kept == UNCHANGED <<op, members, row, reactions, found, log, pushed, outsiders>>
<1>1. /\ kept
      /\ \A q \in Requests \ {r} : pc'[q] = pc[q] /\ answer'[q] = answer[q]
      /\ pc[r] \notin {"idle", "done"} /\ op[r] # NoOp
      /\ pc'[r] \in Labels \ {"idle"}
  BY ReadStepFrame
<1>2. TypeOK'
  BY ReadStepType
<1>3. /\ Posting(r) \/ Changing(r)
      /\ ~(Posting(r) /\ Changing(r))
      /\ answer[r] = "none"
  BY <1>1, RequestFields DEF ChatInv, Position
<1>4. /\ \A q : /\ Is(q, "send")' = Is(q, "send") /\ Is(q, "meal")' = Is(q, "meal")
                /\ Is(q, "react")' = Is(q, "react") /\ Is(q, "delete")' = Is(q, "delete")
                /\ Posting(q)' = Posting(q) /\ Changing(q)' = Changing(q)
                /\ Stored(q)' = Stored(q) /\ Target(q)' = Target(q)
                /\ Announced(q)' = Announced(q) /\ DeletionTold(q)' = DeletionTold(q)
                /\ IsMemberOfTarget(q)' = IsMemberOfTarget(q)
      /\ \A p, q : SameKey(p, q)' = SameKey(p, q) /\ SameCard(p, q)' = SameCard(p, q)
  BY <1>1 DEF Is, Posting, Changing, Stored, Target, Announced, DeletionTold,
              IsMemberOfTarget, SameKey, SameCard
<1>5. Position'
  BY <1>1, <1>3, <1>4, ReadStepTarget DEF ChatInv, Position
<1>6. Rows'
  BY <1>1, <1>3, <1>4, ReadStepTarget DEF ChatInv, Rows
<1>7. Changes'
  <2>1. pc'[r] = "announce" => Posting(r)
    BY <1>3, ReadStepTarget
  <2>2. \A q \in Requests : Is(q, "delete") \/ Is(q, "react") => ~Posting(q)
    BY DEF Is, Posting
  <2>3. \A q \in Requests : Is(q, "delete") /\ pc'[q] = "announce" => pc[q] = "announce"
    BY <1>1, <2>1, <2>2
  <2>4. \A q \in reactions : q # r \/ pc'[r] = "done"
    BY <1>1, <1>3, <2>2, ReadStepTarget DEF ChatInv, Changes
  <2>5. \A q \in Requests : Changing(q) /\ pc'[q] \in {"write", "commit", "announce", "recheck"}
             => Stored(Target(q))
    BY <1>1, <1>3, <2>1, ReadStepTarget DEF ChatInv, Changes
  <2> QED BY <1>1, <1>4, <2>3, <2>4, <2>5 DEF ChatInv, Changes, TypeOK
<1>8. Outsiders'
  BY <1>1, <1>3, <1>4, ReadStepTarget DEF ChatInv, Outsiders, TypeOK
<1>9. OneRowPerKey' /\ OneRowPerCard' /\ LogOnce'
  BY <1>1, <1>4 DEF ChatInv, OneRowPerKey, OneRowPerCard, LogOnce
<1> QED BY <1>2, <1>5, <1>6, <1>7, <1>8, <1>9 DEF ChatInv

-----------------------------------------------------------------------------
(***************************************************************************)
(* Beginning and leaving.                                                  *)
(***************************************************************************)
LEMMA BeginChatInv ==
    ASSUME ChatInv, NEW r \in Requests, Begin(r)
    PROVE  ChatInv'
<1> USE DEF ChatInv
<1>1. PICK o \in MayAsk[r] :
          /\ op' = [op EXCEPT ![r] = o]
          /\ outsiders' = IF Outside(o) THEN outsiders \cup {r} ELSE outsiders
          /\ Goto(r, IF o.kind = "meal" THEN "insert" ELSE "check")
  BY DEF Begin
<1>2. o \in Operations
  OBVIOUS
<1>3. /\ pc[r] = "idle" /\ op[r] = NoOp /\ answer[r] = "none"
      /\ UNCHANGED <<members, row, reactions, found, seen, snap, log, advanced,
                     pushed, answer, failures>>
  BY <1>1 DEF Begin, Goto, Position, tables, locals, outputs
<1>4. /\ op'[r] = o /\ \A q \in Requests \ {r} : op'[q] = op[q]
      /\ pc'[r] \in {"insert", "check"}
      /\ pc'[r] = "insert" <=> o.kind = "meal"
      /\ \A q \in Requests \ {r} : pc'[q] = pc[q]
  BY <1>1 DEF Goto, TypeOK
<1>5. TypeOK'
  BY <1>1, <1>2, <1>3 DEF TypeOK, Goto, Labels
<1>6. /\ ~Stored(r) /\ r \notin reactions /\ ~Announced(r) /\ r \notin outsiders
      /\ ~DeletionTold(r)
  BY <1>3 DEF Rows, Changes, Outsiders, Posting, Stored, Is, NoOp
<1>7. /\ \A q \in Requests \ {r} :
            /\ Is(q, "send")' = Is(q, "send") /\ Is(q, "meal")' = Is(q, "meal")
            /\ Is(q, "react")' = Is(q, "react") /\ Is(q, "delete")' = Is(q, "delete")
            /\ Posting(q)' = Posting(q) /\ Changing(q)' = Changing(q)
            /\ Target(q)' = Target(q)
      /\ \A q : /\ Stored(q)' = Stored(q)
                /\ Announced(q)' = Announced(q) /\ DeletionTold(q)' = DeletionTold(q)
      /\ \A p, q \in Requests \ {r} :
            SameKey(p, q)' = SameKey(p, q) /\ SameCard(p, q)' = SameCard(p, q)
  BY <1>3, <1>4 DEF Is, Posting, Changing, Stored, Target, Announced,
                    DeletionTold, SameKey, SameCard
<1>8. Position'
  BY <1>2, <1>3, <1>4, <1>7, OperationFields DEF Position, Posting
<1>9. \A q \in Requests : Stored(q) => q # r
  BY <1>6
<1>10. Rows'
  <2>1. ASSUME NEW q \in Requests, q # r, Stored(found[q])
        PROVE  /\ found[q] \in Requests \ {r}
               /\ SameKey(found[q], q)' = SameKey(found[q], q)
               /\ SameCard(found[q], q)' = SameCard(found[q], q)
               /\ op'[found[q]] = op[found[q]] /\ op'[q] = op[q]
    <3>1. found[q] \in Requests \ {r}
      BY <1>6, <2>1 DEF TypeOK
    <3>2. q \in Requests \ {r}
      BY <2>1
    <3>3. op'[found[q]] = op[found[q]] /\ op'[q] = op[q]
      BY <1>4, <3>1, <3>2
    <3> QED BY <1>3, <3>1, <3>3 DEF SameKey, SameCard, Is
  <2> QED BY <1>3, <1>4, <1>6, <1>7, <2>1 DEF Rows
<1>11. Changes'
  BY <1>3, <1>4, <1>6, <1>7 DEF Changes
<1>12. Outsiders'
  <2>1. ASSUME NEW q \in outsiders'
        PROVE  /\ pc'[q] \in {"check", "done"}
               /\ answer'[q] # "ok"
               /\ ~Stored(q)'
               /\ q \notin reactions'
               /\ Is(q, "send")' \/ Changing(q)'
               /\ Is(q, "send")' => <<op'[q].user, op'[q].group>> \notin members'
               /\ Changing(q)' => Posting(Target(q))' /\ ~IsMemberOfTarget(q)'
    <3>1. CASE q \in outsiders
      <4>1. q \in Requests \ {r}
        BY <1>6, <3>1 DEF TypeOK
      <4>2. Changing(q) => Posting(Target(q)) /\ Target(q) \in Requests \ {r}
        <5>1. SUFFICES ASSUME Changing(q) PROVE Posting(Target(q)) /\ Target(q) \in Requests \ {r}
          OBVIOUS
        <5>2. Posting(Target(q)) /\ pc[q] # "idle"
          BY <3>1, <5>1 DEF Outsiders
        <5>3. Target(q) \in Requests
          BY <4>1, <5>1, <5>2, RequestFields
        <5>4. ~Posting(r)
          BY <1>3 DEF Posting, NoOp
        <5> QED BY <5>2, <5>3, <5>4
      <4> QED BY <1>3, <1>4, <1>7, <3>1, <4>1, <4>2 DEF Outsiders, IsMemberOfTarget
    <3>2. CASE q \notin outsiders
      <4>1. q = r /\ Outside(o)
        BY <1>1, <3>2
      <4>2. o.kind # "meal"
        BY <4>1 DEF Outside
      <4>3. CASE o.kind = "send"
        BY <1>3, <1>4, <1>6, <1>7, <4>1, <4>3 DEF Outside, Is, Changing
      <4>4. CASE o.kind # "send"
        <5>1. /\ o.kind \in {"delete", "react", "unreact"} /\ o.target \in Requests
              /\ op[o.target] # NoOp /\ op[o.target].kind \in {"send", "meal"}
              /\ <<o.user, op[o.target].group>> \notin members
          BY <1>2, <4>1, <4>2, <4>4, OperationFields DEF Outside
        <5>2. o.target # r /\ op'[o.target] = op[o.target]
          BY <1>3, <1>4, <5>1
        <5> QED BY <1>3, <1>4, <1>6, <1>7, <4>1, <5>1, <5>2
                DEF Is, Changing, Posting, Target, IsMemberOfTarget
      <4> QED BY <4>3, <4>4
    <3> QED BY <3>1, <3>2
  <2> QED BY <2>1 DEF Outsiders
<1>13. OneRowPerKey' /\ OneRowPerCard'
  BY <1>3, <1>6, <1>7 DEF OneRowPerKey, OneRowPerCard, Stored
<1>14. LogOnce'
  BY <1>3, <1>7 DEF LogOnce
<1> QED BY <1>5, <1>8, <1>10, <1>11, <1>12, <1>13, <1>14

LEMMA LeaveChatInv ==
    ASSUME ChatInv, NEW u, NEW g, Leave(u, g)
    PROVE  ChatInv'
<1> USE DEF ChatInv, Leave, locals, outputs
<1>1. TypeOK'
  BY DEF TypeOK
<1>2. Position' /\ OneRowPerKey' /\ OneRowPerCard'
  BY DEF Position, OneRowPerKey, OneRowPerCard, Posting, Changing, Is, Stored,
         SameKey, SameCard
<1>3. Rows' /\ LogOnce'
  BY DEF Rows, LogOnce, Posting, Is, Stored, SameKey, SameCard, Announced
<1>4. Changes'
  BY DEF Changes, Changing, Is, Stored, Target, DeletionTold
<1>5. Outsiders'
  BY DEF Outsiders, Is, Stored, Changing, Posting, Target, IsMemberOfTarget
<1> QED BY <1>1, <1>2, <1>3, <1>4, <1>5
-----------------------------------------------------------------------------
(***************************************************************************)
(* Inserting and finding the row.                                          *)
(***************************************************************************)

\* What depends on the operations of the requests alone.
LEMMA OperationsKept ==
    ASSUME UNCHANGED op
    PROVE  /\ \A q : /\ Is(q, "send")' = Is(q, "send") /\ Is(q, "meal")' = Is(q, "meal")
                     /\ Is(q, "react")' = Is(q, "react") /\ Is(q, "delete")' = Is(q, "delete")
                     /\ Posting(q)' = Posting(q) /\ Changing(q)' = Changing(q)
                     /\ Target(q)' = Target(q)
           /\ \A p, q : SameKey(p, q)' = SameKey(p, q) /\ SameCard(p, q)' = SameCard(p, q)
BY DEF Is, Posting, Changing, Target, SameKey, SameCard

LEMMA InsertChatInv ==
    ASSUME ChatInv, NEW r \in Requests, Insert(r)
    PROVE  ChatInv'
<1> USE DEF ChatInv, Goto
<1>1. /\ UNCHANGED <<op, members, reactions, log, pushed, outsiders, answer>>
      /\ pc[r] = "insert" /\ pc'[r] \in {"get", "find"}
      /\ \A q \in Requests \ {r} : pc'[q] = pc[q] /\ row'[q] = row[q] /\ found'[q] = found[q]
  BY DEF Insert, TypeOK, outputs
<1>2. /\ Posting(r) /\ ~Changing(r) /\ ~Stored(r) /\ r \notin outsiders /\ r \notin reactions
      /\ ~Announced(r) /\ ~DeletionTold(r) /\ answer[r] = "none"
      /\ Is(r, "send") \/ Is(r, "meal")
      /\ ~(Is(r, "send") /\ Is(r, "meal"))
  BY <1>1 DEF Position, Rows, Outsiders, Changes, Posting, Changing, Stored, Is
<1>3. \/ /\ pc'[r] = "get" /\ row'[r] = "live" /\ found'[r] = r
         /\ Is(r, "send") => ~KeyTaken(r)
         /\ Is(r, "meal") => ~CardTaken(r)
      \/ pc'[r] = "find" /\ UNCHANGED <<row, found>>
  BY <1>2 DEF Insert, TypeOK
<1>4. /\ \A q : /\ Is(q, "send")' = Is(q, "send") /\ Is(q, "meal")' = Is(q, "meal")
                /\ Is(q, "react")' = Is(q, "react") /\ Is(q, "delete")' = Is(q, "delete")
                /\ Posting(q)' = Posting(q) /\ Changing(q)' = Changing(q)
                /\ Target(q)' = Target(q)
      /\ \A p, q : SameKey(p, q)' = SameKey(p, q) /\ SameCard(p, q)' = SameCard(p, q)
  BY <1>1, OperationsKept
<1>5. \A q : Announced(q)' = Announced(q) /\ DeletionTold(q)' = DeletionTold(q)
  BY <1>1 DEF Announced, DeletionTold
<1>6. /\ \A q \in Requests : Stored(q) => Stored(q)'
      /\ \A q \in Requests \ {r} : Stored(q)' = Stored(q)
  BY <1>1, <1>2 DEF Stored
<1>7. TypeOK'
  BY DEF Insert, TypeOK, Labels, RowStates, outputs
<1>8. Position'
  BY <1>1, <1>2, <1>4 DEF Position, NoOp, Posting
<1>9. Rows'
  <2>1. pc'[r] = "get" => Stored(r)' /\ SameKey(r, r) = Is(r, "send")
                          /\ SameCard(r, r) = Is(r, "meal")
    BY <1>3 DEF Stored, SameKey, SameCard, Is
  <2>2. pc'[r] = "find" => ~Stored(r)'
    BY <1>2, <1>3 DEF Stored
  <2>3. \A q \in Requests : found[q] \in Requests
    BY DEF TypeOK
  <2> QED BY <1>1, <1>2, <1>3, <1>4, <1>5, <1>6, <2>1, <2>2, <2>3 DEF Rows
<1>10. Changes'
  <2>1. \A q \in Requests : /\ pc'[q] \in {"write", "commit", "announce", "recheck", "done"}
                              => pc[q] = pc'[q] /\ q # r
    BY <1>1
  <2>2. \A q \in Requests : Changing(q) /\ pc[q] # "idle" => Target(q) \in Requests
    BY RequestFields
  <2>3. \A q \in Requests : row[q] = "deleted" => row'[q] = "deleted"
    BY <1>1, <1>2 DEF Stored
  <2>4. \A q \in Requests : Is(q, "delete") => Changing(q)
    BY DEF Is, Changing
  <2>5. \A q \in reactions : q # r
    BY <1>2
  <2> QED BY <1>1, <1>4, <1>5, <1>6, <2>1, <2>2, <2>3, <2>4, <2>5 DEF Changes
<1>11. Outsiders'
  BY <1>1, <1>2, <1>4, <1>6 DEF Outsiders, IsMemberOfTarget, TypeOK
<1>12. OneRowPerKey'
  <2>1. ASSUME NEW p \in Requests, NEW q \in Requests,
               Is(q, "send"), Stored(p)', Stored(q)', SameKey(p, q)
        PROVE  p = q
    <3>1. CASE p # r /\ q # r
      BY <1>6, <2>1, <3>1 DEF OneRowPerKey
    <3>2. CASE p # r /\ q = r
      BY <1>2, <1>3, <1>6, <2>1, <3>2 DEF KeyTaken, Stored
    <3>3. CASE p = r /\ q # r
      <4>1. Is(r, "send") /\ SameKey(q, r)
        BY <2>1, <3>3 DEF SameKey, Is
      <4> QED BY <1>2, <1>3, <1>6, <2>1, <3>3, <4>1 DEF KeyTaken, Stored
    <3> QED BY <3>1, <3>2, <3>3
  <2> QED BY <1>4, <2>1 DEF OneRowPerKey
<1>13. OneRowPerCard'
  <2>1. ASSUME NEW p \in Requests, NEW q \in Requests,
               Is(q, "meal"), row'[p] = "live", row'[q] = "live", SameCard(p, q)
        PROVE  p = q
    <3>1. CASE p # r /\ q # r
      BY <1>1, <2>1, <3>1 DEF OneRowPerCard
    <3>2. CASE p # r /\ q = r
      BY <1>1, <1>2, <1>3, <2>1, <3>2 DEF CardTaken, Stored
    <3>3. CASE p = r /\ q # r
      <4>1. Is(r, "meal") /\ SameCard(q, r)
        BY <2>1, <3>3 DEF SameCard, Is
      <4> QED BY <1>1, <1>2, <1>3, <2>1, <3>3, <4>1 DEF CardTaken, Stored
    <3> QED BY <3>1, <3>2, <3>3
  <2> QED BY <1>4, <2>1 DEF OneRowPerCard
<1>14. LogOnce'
  <2>1. \A i \in 1..Len(log) : log[i].id \in Requests
    BY DEF TypeOK, Events
  <2> QED BY <1>1, <1>5, <1>6, <2>1 DEF LogOnce
<1> QED BY <1>7, <1>8, <1>9, <1>10, <1>11, <1>12, <1>13, <1>14

LEMMA FindChatInv ==
    ASSUME ChatInv, NEW r \in Requests, Find(r) \/ FindCard(r)
    PROVE  ChatInv'
<1> USE DEF ChatInv, Goto, Return
<1>1. /\ UNCHANGED <<op, members, row, reactions, log, pushed, outsiders>>
      /\ pc[r] = "find" /\ pc'[r] \in {"get", "done"}
      /\ \A q \in Requests \ {r} : pc'[q] = pc[q] /\ answer'[q] = answer[q] /\ found'[q] = found[q]
  BY DEF Find, FindCard, TypeOK, tables, outputs
<1>2. /\ Posting(r) /\ ~Changing(r) /\ ~Stored(r) /\ r \notin outsiders /\ r \notin reactions
      /\ ~Announced(r) /\ answer[r] = "none"
  BY <1>1 DEF Position, Rows, Outsiders, Changes, Posting, Changing, Is
<1>3. PICK f \in Requests :
         /\ found'[r] = f
         /\ \/ /\ Is(r, "send") /\ pc'[r] = "get" /\ answer'[r] = "none"
               /\ Stored(f) /\ SameKey(f, r)
            \/ /\ Is(r, "meal") /\ pc'[r] = "done" /\ answer'[r] = "ok"
               /\ Stored(f) /\ SameCard(f, r) /\ op[f].group = op[r].group
            \/ pc'[r] = "done" /\ answer'[r] = "error"
  <2>1. CASE Find(r)
    BY <1>2, <2>1 DEF Find, TypeOK
  <2>2. CASE FindCard(r)
    BY <1>2, <2>2 DEF FindCard, TypeOK, Stored, SameCard
  <2> QED BY <2>1, <2>2
<1>4. /\ \A q : /\ Is(q, "send")' = Is(q, "send") /\ Is(q, "meal")' = Is(q, "meal")
                /\ Is(q, "react")' = Is(q, "react") /\ Is(q, "delete")' = Is(q, "delete")
                /\ Posting(q)' = Posting(q) /\ Changing(q)' = Changing(q)
                /\ Target(q)' = Target(q)
      /\ \A p, q : SameKey(p, q)' = SameKey(p, q) /\ SameCard(p, q)' = SameCard(p, q)
  BY <1>1, OperationsKept
<1>5. \A q : /\ Announced(q)' = Announced(q) /\ DeletionTold(q)' = DeletionTold(q)
             /\ Stored(q)' = Stored(q)
  BY <1>1 DEF Announced, DeletionTold, Stored
<1>6. TypeOK'
  <2>1. CASE Find(r)
    BY <2>1 DEF Find, TypeOK, Labels, tables, outputs
  <2>2. CASE FindCard(r)
    BY <2>2 DEF FindCard, TypeOK, Labels, tables, outputs
  <2> QED BY <2>1, <2>2
<1>7. Position'
  BY <1>1, <1>2, <1>3, <1>4 DEF Position, NoOp, Posting
<1>8. Rows'
  <2>1. Is(r, "send") => ~Is(r, "meal")
    BY DEF Is
  <2>2. ASSUME NEW q \in Requests, q # r
        PROVE  /\ Stored(found[q])' = Stored(found[q])
               /\ SameKey(found[q], q)' = SameKey(found[q], q)
               /\ SameCard(found[q], q)' = SameCard(found[q], q)
               /\ op'[found'[q]] = op[found[q]]
    BY <1>1, <2>2 DEF Stored, SameKey, SameCard, Is
  <2>3. /\ Stored(found[r])' <=> Stored(f)
        /\ SameKey(found[r], r)' <=> SameKey(f, r)
        /\ SameCard(found[r], r)' <=> SameCard(f, r)
        /\ op'[found'[r]] = op[f] /\ op'[r] = op[r]
    BY <1>1, <1>3 DEF Stored, SameKey, SameCard, Is
  <2> QED BY <1>1, <1>2, <1>3, <1>4, <1>5, <2>1, <2>2, <2>3 DEF Rows
<1>9. Changes'
  BY <1>1, <1>2, <1>4, <1>5 DEF Changes, Is, Changing
<1>10. Outsiders'
  BY <1>1, <1>2, <1>4, <1>5 DEF Outsiders, IsMemberOfTarget, TypeOK
<1>11. OneRowPerKey' /\ OneRowPerCard' /\ LogOnce'
  BY <1>1, <1>4, <1>5 DEF OneRowPerKey, OneRowPerCard, LogOnce
<1> QED BY <1>6, <1>7, <1>8, <1>9, <1>10, <1>11
-----------------------------------------------------------------------------
(***************************************************************************)
(* Announcing a message and what follows it.                               *)
(***************************************************************************)
LEMMA AnnounceChatInv ==
    ASSUME ChatInv, NEW r \in Requests, Announce(r)
    PROVE  ChatInv'
<1> USE DEF ChatInv, Goto
<1> DEFINE e == Event("message", found[r], seen[r])
<1>1. /\ UNCHANGED <<op, members, row, reactions, found, pushed, outsiders, answer>>
      /\ pc[r] = "announce" /\ pc'[r] = "finish" /\ log' = Append(log, e)
      /\ \A q \in Requests \ {r} : pc'[q] = pc[q]
  BY DEF Announce, TypeOK, Broadcast, tables, locals
<1>2. /\ Posting(r) /\ ~Changing(r) /\ r \notin outsiders /\ r \notin reactions
      /\ ~Announced(r) /\ found[r] = r /\ Stored(r) /\ answer[r] = "none"
  BY <1>1 DEF Announce, Position, Rows, Outsiders, Changes, Posting, Changing, Is
<1>3. e \in Events /\ e.kind = "message" /\ e.id = r
  BY <1>2 DEF Event, Events, TypeOK
<1>4. /\ \A q : /\ Is(q, "send")' = Is(q, "send") /\ Is(q, "meal")' = Is(q, "meal")
                /\ Is(q, "react")' = Is(q, "react") /\ Is(q, "delete")' = Is(q, "delete")
                /\ Posting(q)' = Posting(q) /\ Changing(q)' = Changing(q)
                /\ Target(q)' = Target(q)
      /\ \A p, q : SameKey(p, q)' = SameKey(p, q) /\ SameCard(p, q)' = SameCard(p, q)
  BY <1>1, OperationsKept
<1>5. \A q : Stored(q)' = Stored(q)
  BY <1>1 DEF Stored
<1>6. log \in Seq(Events)
  BY DEF TypeOK
<1> HIDE DEF e
<1>7. \A m : /\ Announced(m)' <=> Announced(m) \/ m = r
             /\ DeletionTold(m)' <=> DeletionTold(m)
  BY <1>1, <1>3, <1>6, AppendEvent
<1>8. TypeOK'
  <2>1. log' \in Seq(Events)
    BY <1>1, <1>3, <1>6, AppendEvent
  <2> QED BY <2>1 DEF Announce, TypeOK, Labels, tables, locals
<1>9. Position'
  BY <1>1, <1>2, <1>4 DEF Position, NoOp, Posting
<1>10. Rows'
  BY <1>1, <1>2, <1>4, <1>5, <1>7 DEF Rows
<1>11. Changes'
  <2>1. ~Is(r, "delete")
    BY <1>2 DEF Is, Changing
  <2> QED BY <1>1, <1>2, <1>4, <1>5, <1>7, <2>1 DEF Changes
<1>12. Outsiders'
  BY <1>1, <1>2, <1>4, <1>5 DEF Outsiders, IsMemberOfTarget, TypeOK
<1>13. OneRowPerKey' /\ OneRowPerCard'
  BY <1>1, <1>4, <1>5 DEF OneRowPerKey, OneRowPerCard
<1>14. LogOnce'
  <2>1. /\ Len(log) \in Nat /\ Len(log') = Len(log) + 1
        /\ \A i \in 1..Len(log) : log'[i] = log[i]
        /\ log'[Len(log) + 1] = e
    BY <1>1, <1>3, <1>6, AppendEvent
  <2>2. \A i \in 1..Len(log) : log[i].kind = "message" => log[i].id # r
    BY <1>2 DEF Announced
  <2>3. \A i \in 1..Len(log') : i \in 1..Len(log) \/ i = Len(log) + 1
    BY <2>1
  <2>4. \A i, j \in 1..Len(log') :
           /\ log'[i].kind \in {"message", "deleted"}
           /\ log'[i].kind = log'[j].kind
           /\ log'[i].id = log'[j].id
           => i = j
    BY <1>3, <2>1, <2>2, <2>3 DEF LogOnce
  <2>5. \A i \in 1..Len(log') : Stored(log'[i].id)
    BY <1>2, <1>3, <2>1, <2>3 DEF LogOnce
  <2>6. \A i \in 1..Len(log') : Stored(log[i].id)'
    BY <1>1, <2>5 DEF Stored
  <2> QED BY <1>1, <1>7, <2>4, <2>6 DEF LogOnce
<1> QED BY <1>8, <1>9, <1>10, <1>11, <1>12, <1>13, <1>14

LEMMA FinishChatInv ==
    ASSUME ChatInv, NEW r \in Requests, Finish(r)
    PROVE  ChatInv'
<1> USE DEF ChatInv, Return
<1>1. /\ UNCHANGED <<op, members, row, reactions, found, log, outsiders>>
      /\ pc[r] = "finish" /\ pc'[r] = "done" /\ answer'[r] = "ok"
      /\ pushed' \in {pushed, pushed \cup {found[r]}}
      /\ \A q \in Requests \ {r} : pc'[q] = pc[q] /\ answer'[q] = answer[q]
  BY DEF Finish, TypeOK, tables, locals
<1>2. /\ Posting(r) /\ ~Changing(r) /\ r \notin outsiders /\ r \notin reactions
      /\ Announced(r) /\ found[r] = r /\ Stored(r)
  BY <1>1 DEF Position, Rows, Outsiders, Changes, Posting, Changing, Is
<1>3. /\ \A q : /\ Is(q, "send")' = Is(q, "send") /\ Is(q, "meal")' = Is(q, "meal")
                /\ Is(q, "react")' = Is(q, "react") /\ Is(q, "delete")' = Is(q, "delete")
                /\ Posting(q)' = Posting(q) /\ Changing(q)' = Changing(q)
                /\ Target(q)' = Target(q)
      /\ \A p, q : SameKey(p, q)' = SameKey(p, q) /\ SameCard(p, q)' = SameCard(p, q)
  BY <1>1, OperationsKept
<1>4. \A q : /\ Announced(q)' = Announced(q) /\ DeletionTold(q)' = DeletionTold(q)
             /\ Stored(q)' = Stored(q)
  BY <1>1 DEF Announced, DeletionTold, Stored
<1>5. TypeOK'
  BY <1>1, <1>2 DEF Finish, TypeOK, Labels, tables, locals
<1>6. Position'
  BY <1>1, <1>2, <1>3 DEF Position, NoOp, Posting
<1>7. Rows'
  <2>1. Is(r, "send") => SameKey(r, r)
    BY DEF SameKey
  <2>2. Is(r, "meal") => SameCard(r, r)
    BY DEF SameCard
  <2> QED BY <1>1, <1>2, <1>3, <1>4, <2>1, <2>2 DEF Rows
<1>8. Changes'
  BY <1>1, <1>2, <1>3, <1>4 DEF Changes, Is, Changing
<1>9. Outsiders'
  BY <1>1, <1>2, <1>3, <1>4 DEF Outsiders, IsMemberOfTarget, TypeOK
<1>10. OneRowPerKey' /\ OneRowPerCard'
  BY <1>1, <1>3, <1>4 DEF OneRowPerKey, OneRowPerCard
<1>11. LogOnce'
  BY <1>1, <1>2, <1>4 DEF LogOnce
<1> QED BY <1>5, <1>6, <1>7, <1>8, <1>9, <1>10, <1>11

-----------------------------------------------------------------------------
(***************************************************************************)
(* Changing a message or its reactions, and announcing the change.         *)
(***************************************************************************)
LEMMA DeleteCommitChatInv ==
    ASSUME ChatInv, NEW r \in Requests, DeleteCommit(r)
    PROVE  ChatInv'
<1> USE DEF ChatInv, Goto, Return
<1>1. /\ UNCHANGED <<op, members, found, log, pushed, outsiders>>
      /\ Is(r, "delete") /\ pc[r] = "commit"
      /\ \A q \in Requests \ {r} : pc'[q] = pc[q] /\ answer'[q] = answer[q]
      /\ reactions' \subseteq reactions
  BY DEF DeleteCommit, TypeOK, locals, outputs
<1>2. /\ Changing(r) /\ ~Posting(r) /\ r \notin outsiders /\ r \notin reactions
      /\ answer[r] = "none" /\ Target(r) \in Requests /\ Stored(Target(r))
      /\ ~Announced(r)
  <2>1. Changing(r) /\ ~Posting(r)
    BY <1>1 DEF Is, Changing, Posting
  <2> QED BY <1>1, <2>1, RequestFields DEF Position, Rows, Outsiders, Changes
<1>3. \/ /\ row[Target(r)] = "live" /\ row' = [row EXCEPT ![Target(r)] = "deleted"]
         /\ pc'[r] = "announce" /\ answer'[r] = "none"
      \/ /\ row' = row /\ pc'[r] = "done" /\ answer'[r] = "ok"
  BY <1>2 DEF DeleteCommit, Tombstones, TypeOK
<1>4. /\ \A q : /\ Is(q, "send")' = Is(q, "send") /\ Is(q, "meal")' = Is(q, "meal")
                /\ Is(q, "react")' = Is(q, "react") /\ Is(q, "delete")' = Is(q, "delete")
                /\ Posting(q)' = Posting(q) /\ Changing(q)' = Changing(q)
                /\ Target(q)' = Target(q)
      /\ \A p, q : SameKey(p, q)' = SameKey(p, q) /\ SameCard(p, q)' = SameCard(p, q)
  BY <1>1, OperationsKept
<1>5. /\ \A q \in Requests : Stored(q)' <=> Stored(q)
      /\ \A q \in Requests : row'[q] = "live" => row[q] = "live"
      /\ \A q \in Requests : row[q] = "deleted" => row'[q] = "deleted"
  BY <1>2, <1>3 DEF Stored, TypeOK
<1>6. \A q : Announced(q)' = Announced(q) /\ DeletionTold(q)' = DeletionTold(q)
  BY <1>1 DEF Announced, DeletionTold
<1>7. TypeOK'
  BY <1>1, <1>2, <1>3 DEF DeleteCommit, TypeOK, Labels, RowStates, locals, outputs
<1>8. Position'
  BY <1>1, <1>2, <1>3, <1>4 DEF Position, NoOp, Changing
<1>9. Rows'
  <2>1. \A q \in Requests : found[q] \in Requests
    BY DEF TypeOK
  <2> QED BY <1>1, <1>2, <1>3, <1>4, <1>5, <1>6, <2>1 DEF Rows
<1>10. Changes'
  <2>1. \A q \in Requests : Changing(q) /\ pc[q] # "idle" => Target(q) \in Requests
    BY RequestFields
  <2>2. \A q \in Requests : Is(q, "delete") /\ pc[q] = "announce" => row[Target(q)] = "deleted"
    BY DEF Changes
  <2>3. \A q \in Requests : Is(q, "delete") /\ pc'[q] = "announce" =>
           /\ row'[Target(q)] = "deleted" /\ ~DeletionTold(Target(q))
           /\ \A p \in Requests :
                 Is(p, "delete") /\ pc'[p] = "announce" /\ Target(p) = Target(q) => p = q
    <3>1. CASE pc'[r] = "done"
      BY <1>1, <1>3, <3>1 DEF Changes
    <3>2. CASE pc'[r] = "announce"
      <4>1. row[Target(r)] = "live" /\ row'[Target(r)] = "deleted"
        BY <1>2, <1>3, <3>2 DEF TypeOK
      <4>2. ~DeletionTold(Target(r))
        BY <1>2, <4>1 DEF Changes
      <4>3. \A q \in Requests \ {r} : Is(q, "delete") /\ pc'[q] = "announce" =>
               /\ Target(q) \in Requests /\ Target(q) # Target(r)
               /\ row'[Target(q)] = "deleted" /\ ~DeletionTold(Target(q))
        <5>1. SUFFICES ASSUME NEW q \in Requests \ {r}, Is(q, "delete"), pc[q] = "announce"
                       PROVE  /\ Target(q) \in Requests /\ Target(q) # Target(r)
                              /\ row'[Target(q)] = "deleted" /\ ~DeletionTold(Target(q))
          BY <1>1
        <5>2. Changing(q)
          BY <5>1 DEF Is, Changing
        <5>3. Target(q) \in Requests
          BY <2>1, <5>1, <5>2
        <5> QED BY <1>5, <2>2, <4>1, <5>1, <5>3 DEF Changes
      <4> QED BY <1>1, <4>1, <4>2, <4>3 DEF Changes
    <3> QED BY <1>3, <3>1, <3>2
  <2>4. \A q \in Requests : Changing(q) /\ pc'[q] \in {"write", "commit", "announce", "recheck"}
           => Stored(Target(q))'
    <3>1. ASSUME NEW q \in Requests, Changing(q),
                 pc'[q] \in {"write", "commit", "announce", "recheck"}
          PROVE  Stored(Target(q))'
      <4>1. pc[q] \in {"write", "commit", "announce", "recheck"}
        BY <1>1, <3>1
      <4>2. Stored(Target(q)) /\ Target(q) \in Requests
        BY <2>1, <3>1, <4>1 DEF Changes
      <4>3. Target(q)' = Target(q)
        BY <1>4
      <4> QED BY <1>5, <4>2, <4>3 DEF Stored
    <3> QED BY <3>1
  <2> QED BY <1>1, <1>2, <1>4, <1>5, <1>6, <2>3, <2>4 DEF Changes
<1>11. Outsiders'
  BY <1>1, <1>2, <1>4, <1>5 DEF Outsiders, IsMemberOfTarget, TypeOK
<1>12. OneRowPerKey' /\ OneRowPerCard'
  <2>1. OneRowPerKey'
    BY <1>4, <1>5 DEF OneRowPerKey
  <2>2. OneRowPerCard'
    BY <1>4, <1>5 DEF OneRowPerCard
  <2> QED BY <2>1, <2>2
<1>13. LogOnce'
  <2>1. \A i \in 1..Len(log) : log[i].id \in Requests
    BY DEF TypeOK, Events
  <2> QED BY <1>1, <1>5, <1>6, <2>1 DEF LogOnce
<1> QED BY <1>7, <1>8, <1>9, <1>10, <1>11, <1>12, <1>13
LEMMA ReactionChatInv ==
    ASSUME ChatInv, NEW r \in Requests, ReactCommit(r) \/ Unreact(r)
    PROVE  ChatInv'
<1> USE DEF ChatInv, Goto, Return
<1>1. /\ UNCHANGED <<op, members, row, found, log, pushed, outsiders>>
      /\ Is(r, "react") \/ Is(r, "unreact")
      /\ pc[r] \in {"write", "commit"} /\ pc'[r] \in {"announce", "recheck", "done"}
      /\ \A q \in Requests \ {r} : pc'[q] = pc[q] /\ answer'[q] = answer[q]
      /\ reactions' \subseteq reactions \cup {r}
      /\ r \in reactions' => r \in reactions \/ (Is(r, "react") /\ pc'[r] \in {"announce", "done"})
  BY DEF ReactCommit, Unreact, TypeOK, locals, outputs
<1>2. /\ Changing(r) /\ ~Posting(r) /\ ~Is(r, "delete") /\ r \notin outsiders
      /\ r \notin reactions
      /\ answer[r] = "none" /\ Target(r) \in Requests /\ Stored(Target(r))
  <2>1. Changing(r) /\ ~Posting(r) /\ ~Is(r, "delete")
    BY <1>1 DEF Is, Changing, Posting
  <2>2. r \notin outsiders
    BY <1>1 DEF Outsiders
  <2>3. r \notin reactions
    BY <1>1 DEF Changes
  <2> QED BY <1>1, <2>1, <2>2, <2>3, RequestFields DEF Position, Changes
<1>3. pc'[r] # "done" => answer'[r] = "none"
  BY <1>2 DEF ReactCommit, Unreact, TypeOK
<1>4. /\ \A q : /\ Is(q, "send")' = Is(q, "send") /\ Is(q, "meal")' = Is(q, "meal")
                /\ Is(q, "react")' = Is(q, "react") /\ Is(q, "delete")' = Is(q, "delete")
                /\ Posting(q)' = Posting(q) /\ Changing(q)' = Changing(q)
                /\ Target(q)' = Target(q)
      /\ \A p, q : SameKey(p, q)' = SameKey(p, q) /\ SameCard(p, q)' = SameCard(p, q)
  BY <1>1, OperationsKept
<1>5. \A q : /\ Announced(q)' = Announced(q) /\ DeletionTold(q)' = DeletionTold(q)
             /\ Stored(q)' = Stored(q)
  BY <1>1 DEF Announced, DeletionTold, Stored
<1>6. TypeOK'
  <2>1. CASE ReactCommit(r)
    BY <2>1 DEF ReactCommit, TypeOK, Labels, locals, outputs
  <2>2. CASE Unreact(r)
    BY <2>2 DEF Unreact, TypeOK, Labels, locals, outputs
  <2> QED BY <2>1, <2>2
<1>7. Position'
  BY <1>1, <1>2, <1>3, <1>4 DEF Position, NoOp, Changing
<1>8. Rows'
  BY <1>1, <1>2, <1>4, <1>5 DEF Rows, Stored
<1>9. Changes'
  <2>1. \A q \in Requests : Is(q, "delete") => q # r
    BY <1>2
  <2>2. \A q \in reactions' : Is(q, "react") /\ pc'[q] \in {"announce", "done"} /\ q \in Requests
    BY <1>1, <1>2 DEF Changes, TypeOK
  <2>3. \A q \in Requests : Is(q, "delete") /\ pc'[q] = "announce" =>
           /\ row'[Target(q)] = "deleted" /\ ~DeletionTold(Target(q))
           /\ \A p \in Requests :
                 Is(p, "delete") /\ pc'[p] = "announce" /\ Target(p) = Target(q) => p = q
    BY <1>1, <2>1 DEF Changes
  <2>4. \A q \in Requests : Changing(q) /\ pc'[q] \in {"write", "commit", "announce", "recheck"}
           => Stored(Target(q))
    BY <1>1, <1>2 DEF Changes
  <2> QED BY <1>1, <1>4, <1>5, <2>2, <2>3, <2>4 DEF Changes
<1>10. Outsiders'
  BY <1>1, <1>2, <1>4, <1>5 DEF Outsiders, IsMemberOfTarget, TypeOK
<1>11. OneRowPerKey' /\ OneRowPerCard' /\ LogOnce'
  BY <1>1, <1>4, <1>5 DEF OneRowPerKey, OneRowPerCard, LogOnce
<1> QED BY <1>6, <1>7, <1>8, <1>9, <1>10, <1>11

LEMMA AnnounceChangeChatInv ==
    ASSUME ChatInv, NEW r \in Requests, AnnounceChange(r)
    PROVE  ChatInv'
<1> USE DEF ChatInv, Return
<1> DEFINE e == Announcement(r)
<1>1. /\ UNCHANGED <<op, members, row, reactions, found, pushed, outsiders>>
      /\ pc[r] = "announce" /\ pc'[r] = "done" /\ log' = Append(log, e)
      /\ answer'[r] = "ok"
      /\ \A q \in Requests \ {r} : pc'[q] = pc[q] /\ answer'[q] = answer[q]
  BY DEF AnnounceChange, TypeOK, Broadcast, tables, locals
<1>2. /\ Changing(r) /\ ~Posting(r) /\ r \notin outsiders
      /\ Target(r) \in Requests /\ Stored(Target(r)) /\ op[r].user \in Users
      /\ ~Announced(r)
  <2>1. Changing(r) /\ ~Posting(r)
    BY DEF AnnounceChange, Changing, Posting
  <2> QED BY <1>1, <2>1, RequestFields DEF Position, Rows, Outsiders, Changes
<1>3. /\ e \in Events /\ e.id = Target(r)
      /\ e.kind \in {"deleted", "added", "removed"}
      /\ e.kind = "deleted" <=> Is(r, "delete")
  <2>1. CASE Is(r, "delete")
    <3>1. e = Event("deleted", Target(r), "deleted")
      BY <2>1 DEF Announcement, Is
    <3> QED BY <1>2, <2>1, <3>1 DEF Event, Events, RowStates
  <2>2. CASE ~Is(r, "delete")
    <3>1. e \in {Event("added", Target(r), op[r].user), Event("removed", Target(r), op[r].user)}
      BY <2>2 DEF Announcement
    <3> QED BY <1>2, <2>2, <3>1 DEF Event, Events
  <2> QED BY <2>1, <2>2
<1>4. /\ \A q : /\ Is(q, "send")' = Is(q, "send") /\ Is(q, "meal")' = Is(q, "meal")
                /\ Is(q, "react")' = Is(q, "react") /\ Is(q, "delete")' = Is(q, "delete")
                /\ Posting(q)' = Posting(q) /\ Changing(q)' = Changing(q)
                /\ Target(q)' = Target(q)
      /\ \A p, q : SameKey(p, q)' = SameKey(p, q) /\ SameCard(p, q)' = SameCard(p, q)
  BY <1>1, OperationsKept
<1>5. \A q : Stored(q)' = Stored(q)
  BY <1>1 DEF Stored
<1>6. log \in Seq(Events)
  BY DEF TypeOK
<1> HIDE DEF e
<1>7. \A m : /\ Announced(m)' <=> Announced(m)
             /\ DeletionTold(m)' <=> DeletionTold(m) \/ (Is(r, "delete") /\ m = Target(r))
  BY <1>1, <1>3, <1>6, AppendEvent
<1>8. TypeOK'
  <2>1. log' \in Seq(Events)
    BY <1>1, <1>3, <1>6, AppendEvent
  <2> QED BY <2>1 DEF AnnounceChange, TypeOK, Labels, tables, locals
<1>9. Position'
  BY <1>1, <1>2, <1>4 DEF Position, NoOp, Changing
<1>10. Rows'
  BY <1>1, <1>2, <1>4, <1>5, <1>7 DEF Rows
<1>11. Changes'
  <2>1. Is(r, "delete") =>
           /\ row[Target(r)] = "deleted"
           /\ \A q \in Requests \ {r} :
                 Is(q, "delete") /\ pc[q] = "announce" => Target(q) # Target(r)
    BY <1>1 DEF Changes
  <2>2. \A q \in Requests : Is(q, "delete") /\ pc'[q] = "announce" =>
           /\ row'[Target(q)] = "deleted" /\ ~DeletionTold(Target(q))'
           /\ \A p \in Requests :
                 Is(p, "delete") /\ pc'[p] = "announce" /\ Target(p) = Target(q) => p = q
    <3>1. ASSUME NEW q \in Requests, Is(q, "delete"), pc'[q] = "announce"
          PROVE  q # r /\ pc[q] = "announce" /\ row[Target(q)] = "deleted"
                 /\ ~DeletionTold(Target(q)) /\ (Is(r, "delete") => Target(q) # Target(r))
      BY <1>1, <2>1, <3>1 DEF Changes
    <3>2. ASSUME NEW q \in Requests, Is(q, "delete"), pc'[q] = "announce"
          PROVE  ~DeletionTold(Target(q))'
      <4>1. Target(q)' = Target(q)
        BY <1>4
      <4> QED BY <1>7, <3>1, <3>2, <4>1
    <3> QED BY <1>1, <3>1, <3>2 DEF Changes
  <2>3. \A q \in Requests : DeletionTold(q)' => row'[q] = "deleted"
    BY <1>1, <1>7, <2>1 DEF Changes
  <2>4. \A q \in Requests : Changing(q) /\ pc'[q] \in {"write", "commit", "announce", "recheck"}
           => Stored(Target(q))
    BY <1>1 DEF Changes
  <2> QED BY <1>1, <1>4, <1>5, <2>2, <2>3, <2>4 DEF Changes
<1>12. Outsiders'
  BY <1>1, <1>2, <1>4, <1>5 DEF Outsiders, IsMemberOfTarget, TypeOK
<1>13. OneRowPerKey' /\ OneRowPerCard'
  BY <1>1, <1>4, <1>5 DEF OneRowPerKey, OneRowPerCard
<1>14. LogOnce'
  <2>1. /\ Len(log) \in Nat /\ Len(log') = Len(log) + 1
        /\ \A i \in 1..Len(log) : log'[i] = log[i]
        /\ log'[Len(log) + 1] = e
    BY <1>1, <1>3, <1>6, AppendEvent
  <2>2. Is(r, "delete") =>
           \A i \in 1..Len(log) : log[i].kind = "deleted" => log[i].id # Target(r)
    BY <1>1 DEF Changes, DeletionTold
  <2>3. \A i \in 1..Len(log') : i \in 1..Len(log) \/ i = Len(log) + 1
    BY <2>1
  <2>4. \A i, j \in 1..Len(log') :
           /\ log'[i].kind \in {"message", "deleted"}
           /\ log'[i].kind = log'[j].kind
           /\ log'[i].id = log'[j].id
           => i = j
    BY <1>3, <2>1, <2>2, <2>3 DEF LogOnce
  <2>5. \A i \in 1..Len(log') : Stored(log'[i].id)
    BY <1>2, <1>3, <2>1, <2>3 DEF LogOnce
  <2>6. \A i \in 1..Len(log') : Stored(log[i].id)'
    BY <1>1, <2>5 DEF Stored
  <2> QED BY <1>1, <1>7, <2>4, <2>6 DEF LogOnce
<1> QED BY <1>8, <1>9, <1>10, <1>11, <1>12, <1>13, <1>14

-----------------------------------------------------------------------------
LEMMA NextChatInv == ChatInv /\ [Next]_vars => ChatInv'
<1> SUFFICES ASSUME ChatInv, [Next]_vars PROVE ChatInv'
  OBVIOUS
<1>1. ASSUME NEW r \in Requests, Begin(r) PROVE ChatInv'
  BY <1>1, BeginChatInv
<1>2. ASSUME NEW r \in Requests, ReadStep(r) PROVE ChatInv'
  BY <1>2, ReadStepChatInv
<1>3. ASSUME NEW r \in Requests, Insert(r) PROVE ChatInv'
  BY <1>3, InsertChatInv
<1>4. ASSUME NEW r \in Requests, Find(r) \/ FindCard(r) PROVE ChatInv'
  BY <1>4, FindChatInv
<1>5. ASSUME NEW r \in Requests, Announce(r) PROVE ChatInv'
  BY <1>5, AnnounceChatInv
<1>6. ASSUME NEW r \in Requests, Finish(r) PROVE ChatInv'
  BY <1>6, FinishChatInv
<1>7. ASSUME NEW r \in Requests, DeleteCommit(r) PROVE ChatInv'
  BY <1>7, DeleteCommitChatInv
<1>8. ASSUME NEW r \in Requests, ReactCommit(r) \/ Unreact(r) PROVE ChatInv'
  BY <1>8, ReactionChatInv
<1>9. ASSUME NEW r \in Requests, AnnounceChange(r) PROVE ChatInv'
  BY <1>9, AnnounceChangeChatInv
<1>10. ASSUME NEW x \in Leavers \cap members, Leave(x[1], x[2]) PROVE ChatInv'
  BY <1>10, LeaveChatInv
<1>11. CASE UNCHANGED vars
  <2> USE <1>11 DEF vars
  <2>1. TypeOK' /\ Position' /\ OneRowPerKey' /\ OneRowPerCard'
    BY DEF ChatInv, TypeOK, Position, OneRowPerKey, OneRowPerCard, Posting,
           Changing, Is, Stored, SameKey, SameCard
  <2>2. Rows' /\ LogOnce'
    BY DEF ChatInv, Rows, LogOnce, Posting, Is, Stored, SameKey, SameCard, Announced
  <2>3. Changes' /\ Outsiders'
    BY DEF ChatInv, Changes, Outsiders, Changing, Posting, Is, Stored, Target,
           DeletionTold, IsMemberOfTarget
  <2> QED BY <2>1, <2>2, <2>3 DEF ChatInv
<1> QED BY <1>1, <1>2, <1>3, <1>4, <1>5, <1>6, <1>7, <1>8, <1>9, <1>10, <1>11
        DEF Next, Step, ReadStep

LEMMA ChatInvSuffices ==
    ChatInv => /\ TypeOK
               /\ ExactlyOnce
               /\ ToldOnce
               /\ PersistedBeforeBroadcast
               /\ OutsidersChangeNothing
               /\ UnannouncedOnlyIfCutOff
               /\ OneLiveCard
<1> SUFFICES ASSUME ChatInv
             PROVE  /\ TypeOK
                    /\ ExactlyOnce
                    /\ ToldOnce
                    /\ PersistedBeforeBroadcast
                    /\ OutsidersChangeNothing
                    /\ UnannouncedOnlyIfCutOff
                    /\ OneLiveCard
  OBVIOUS
<1> USE DEF ChatInv
<1>1. \A r \in Requests : /\ Is(r, "send") \/ Is(r, "meal") => Posting(r)
                          /\ Is(r, "send") => ~Is(r, "meal")
  BY DEF Is, Posting
<1>2. ExactlyOnce
  BY <1>1 DEF ExactlyOnce, OneRowPerKey, Rows
<1>3. OneLiveCard
  BY <1>1 DEF OneLiveCard, OneRowPerCard, Rows
<1>4. ToldOnce
  BY DEF ToldOnce, LogOnce
<1>5. PersistedBeforeBroadcast
  <2>1. \A i \in 1..Len(log) : log[i].id \in Requests
    BY DEF TypeOK, Events
  <2> QED BY <2>1 DEF PersistedBeforeBroadcast, LogOnce, Changes, DeletionTold
<1>6. OutsidersChangeNothing
  BY DEF OutsidersChangeNothing, Outsiders
<1>7. UnannouncedOnlyIfCutOff
  BY DEF UnannouncedOnlyIfCutOff, Rows
<1> QED BY <1>2, <1>3, <1>4, <1>5, <1>6, <1>7

\* In every run of the chat service, with any number of concurrent requests
\* and failures: a client id and a meal card have one row, a message and its
\* deletion are announced at most once and only after they are stored, a stored
\* message goes unannounced only if the request that stored it broke off, and a
\* request of someone outside the group leaves no trace.
THEOREM ChatCorrect ==
    Spec => [](/\ TypeOK
               /\ ExactlyOnce
               /\ ToldOnce
               /\ PersistedBeforeBroadcast
               /\ OutsidersChangeNothing
               /\ UnannouncedOnlyIfCutOff
               /\ OneLiveCard)
<1>1. Init => ChatInv
  BY InitChatInv
<1>2. ChatInv /\ [Next]_vars => ChatInv'
  BY NextChatInv
<1>3. ChatInv => /\ TypeOK
                 /\ ExactlyOnce
                 /\ ToldOnce
                 /\ PersistedBeforeBroadcast
                 /\ OutsidersChangeNothing
                 /\ UnannouncedOnlyIfCutOff
                 /\ OneLiveCard
  BY ChatInvSuffices
<1> QED BY <1>1, <1>2, <1>3, PTL DEF Spec
\* Whatever fails, rows, events and answers are of the kinds the schema and the
\* hub know.
THEOREM ChatTyped == Spec => []TypeOK
  BY ChatCorrect, PTL

\* Retries of one client message id, racing or broken off, store one row, and
\* each that is answered is answered with it.
THEOREM RetriesAreSafe == Spec => []ExactlyOnce
  BY ChatCorrect, PTL

\* Several requests that meet one row announce it once and its deletion once.
THEOREM NothingToldTwice == Spec => []ToldOnce
  BY ChatCorrect, PTL

\* What the hub is told of is in the database, whatever breaks off between the
\* statements of Send and Delete.
THEOREM StoredBeforeTold == Spec => []PersistedBeforeBroadcast
  BY ChatCorrect, PTL

\* A request begun after its user left finds no way around the check of
\* membership, not even by a retry of what it sent as a member.
THEOREM OutsidersAreHarmless == Spec => []OutsidersChangeNothing
  BY ChatCorrect, PTL

\* Only the break of the request that inserted a message keeps it from being
\* announced; no deletion and no retry does.
THEOREM SilenceNeedsACutOff == Spec => []UnannouncedOnlyIfCutOff
  BY ChatCorrect, PTL

\* Shares and deletions of one meal in one group, however many overlap, leave at
\* most one live card, and a share answered as done has one in the table.
THEOREM CardsAreSingle == Spec => []OneLiveCard
  BY ChatCorrect, PTL

-----------------------------------------------------------------------------
(***************************************************************************)
(* Reactions: what watchers are told adds up to the table, and a caller    *)
(* told its reaction is there has landed it.                               *)
(***************************************************************************)
Reacting(r) == op[r].kind \in {"react", "unreact"}

\* Where the log tells of kind about u's reaction to m.
Logged(kind, m, u) == {i \in 1..Len(log) : log[i] = Event(kind, m, u)}

\* The requests of u about to tell of what verb did to m.
Coming(verb, m, u) ==
    {r \in Requests :
        pc[r] = "announce" /\ Is(r, verb) /\ Target(r) = m /\ op[r].user = u}

Placed(m, u) == {q \in reactions : Target(q) = m /\ op[q].user = u}

\* u's reaction to m was placed at some time, as far as can be told.
Tells(m, u) == Logged("added", m, u) # {} \/ Coming("react", m, u) # {} \/ CutOff(m, u)

Finite ==
    \A m \in Requests, u \in Users :
       IsFiniteSet(Coming("react", m, u)) /\ IsFiniteSet(Coming("unreact", m, u))

Single == \A q, r \in reactions : SameReaction(q, r) => q = r

\* The ledger, from before the message is stored until it is deleted.
Balance ==
    \A m \in Requests, u \in Users : row[m] # "deleted" /\ ~CutOff(m, u) =>
       Cardinality(Logged("added", m, u)) + Cardinality(Coming("react", m, u)) =
          Cardinality(Logged("removed", m, u)) + Cardinality(Coming("unreact", m, u)) +
          Cardinality(Placed(m, u))

Landed == \A q \in reactions : Tells(Target(q), op[q].user)

\* What a request may rely on between its statements.
Waits(r) ==
    /\ Is(r, "delete") /\ pc[r] = "commit" =>
          \A q \in snap[r] : Is(q, "react") /\ Target(q) = Target(r)
    /\ Is(r, "react") /\ pc[r] = "commit" /\ seen[r] # "live" =>
          row[Target(r)] = "deleted"
    /\ Is(r, "react") /\ pc[r] = "recheck" =>
          row[Target(r)] = "deleted" \/ Tells(Target(r), op[r].user)
    /\ Is(r, "react") /\ answer[r] = "ok" => Tells(Target(r), op[r].user)

LedgerInv ==
    /\ Finite
    /\ Single
    /\ Balance
    /\ Landed
    /\ \A r \in Requests : Waits(r)

USE ChatAssumption

-----------------------------------------------------------------------------
(***************************************************************************)
(* Steps that place no reaction, announce none, and at most take away those *)
(* of a message that is now deleted.                                       *)
(***************************************************************************)
Quiet ==
    /\ \A q \in Requests :
          /\ pc[q] # "idle" => op'[q] = op[q]
          /\ pc[q] = "announce" /\ Reacting(q) => pc'[q] = "announce" \/ answer'[q] = "error"
          /\ pc'[q] = "announce" => pc[q] = "announce" \/ (pc[q] # "idle" /\ ~Reacting(q))
          /\ answer[q] = "error" => answer'[q] = "error"
          /\ row[q] = "deleted" => row'[q] = "deleted"
    /\ reactions' \subseteq reactions
    /\ \A q \in reactions : q \in reactions' \/ row'[Target(q)] = "deleted"
    /\ \A m, u : /\ Logged("added", m, u)' = Logged("added", m, u)
                 /\ Logged("removed", m, u)' = Logged("removed", m, u)

\* The parts of the ledger at one message and user.
SameParts(m, u) ==
    /\ Logged("added", m, u)' = Logged("added", m, u)
    /\ Logged("removed", m, u)' = Logged("removed", m, u)
    /\ Coming("react", m, u)' = Coming("react", m, u)
    /\ Coming("unreact", m, u)' = Coming("unreact", m, u)
    /\ Placed(m, u)' = Placed(m, u)

\* Rows of message_reactions and requests that broke off have begun.
LEMMA HaveBegun ==
    ASSUME ChatInv
    PROVE  /\ \A q \in reactions : q \in Requests /\ pc[q] # "idle" /\ Is(q, "react")
           /\ \A q \in Requests : answer[q] # "none" => pc[q] = "done"
BY DEF ChatInv, TypeOK, Position, Changes

LEMMA QuietKeepsLedger ==
    ASSUME ChatInv, LedgerInv, Quiet
    PROVE  /\ Finite' /\ Single' /\ Balance' /\ Landed'
           /\ \A m \in Requests, u \in Users : Tells(m, u) => Tells(m, u)'
<1> USE DEF Quiet
<1>1. \A q \in Requests : pc[q] # "idle" =>
         /\ \A verb : Is(q, verb)' = Is(q, verb)
         /\ Target(q)' = Target(q) /\ op'[q].user = op[q].user
         /\ Reacting(q)' = Reacting(q)
  BY DEF Is, Target, Reacting
<1>2. ASSUME NEW m, NEW u, CutOff(m, u)
      PROVE  CutOff(m, u)'
  <2>1. PICK r \in Requests : /\ answer[r] = "error" /\ Reacting(r)
                              /\ Target(r) = m /\ op[r].user = u
    BY <1>2 DEF CutOff, Reacting
  <2>2. pc[r] # "idle"
    BY <2>1, HaveBegun
  <2> QED BY <1>1, <2>1, <2>2 DEF CutOff, Reacting
<1>3. ASSUME NEW verb \in {"react", "unreact"}, NEW m, NEW u
      PROVE  Coming(verb, m, u)' \subseteq Coming(verb, m, u)
  <2> SUFFICES ASSUME NEW r \in Coming(verb, m, u)' PROVE r \in Coming(verb, m, u)
    OBVIOUS
  <2>1. r \in Requests /\ pc'[r] = "announce" /\ Is(r, verb)' /\ Target(r)' = m
        /\ op'[r].user = u
    BY DEF Coming
  <2>2. Reacting(r)'
    BY <2>1 DEF Reacting, Is
  <2>3. pc[r] # "idle" /\ op'[r] = op[r]
    BY <2>1
  <2>4. pc[r] = "announce"
    BY <1>1, <2>1, <2>2, <2>3
  <2> QED BY <1>1, <2>1, <2>3, <2>4 DEF Coming
<1>4. ASSUME NEW verb \in {"react", "unreact"}, NEW m, NEW u, ~CutOff(m, u)'
      PROVE  Coming(verb, m, u)' = Coming(verb, m, u)
  <2> SUFFICES ASSUME NEW r \in Coming(verb, m, u) PROVE r \in Coming(verb, m, u)'
    BY <1>3
  <2>1. r \in Requests /\ pc[r] = "announce" /\ Is(r, verb) /\ Target(r) = m
        /\ op[r].user = u
    BY DEF Coming
  <2>2. Reacting(r) /\ Reacting(r)'
    BY <1>1, <2>1 DEF Reacting, Is
  <2>3. Is(r, verb)' /\ Target(r)' = m /\ op'[r].user = u
    BY <1>1, <2>1
  <2>4. answer'[r] # "error"
    BY <1>4, <2>1, <2>2, <2>3 DEF CutOff, Reacting
  <2> QED BY <2>1, <2>2, <2>3, <2>4 DEF Coming
<1>5. ASSUME NEW m, NEW u, row'[m] # "deleted"
      PROVE  Placed(m, u)' = Placed(m, u)
  <2>1. \A q \in reactions : Target(q)' = Target(q) /\ op'[q].user = op[q].user
    BY <1>1, HaveBegun
  <2> QED BY <1>5, <2>1 DEF Placed
<1>6. Finite'
  BY <1>3, FS_Subset DEF LedgerInv, Finite
<1>7. Single'
  <2>1. \A q, r \in reactions : SameReaction(q, r)' = SameReaction(q, r)
    BY <1>1, HaveBegun DEF SameReaction, Target
  <2> QED BY <2>1 DEF LedgerInv, Single
<1>8. Balance'
  <2> SUFFICES ASSUME NEW m \in Requests, NEW u \in Users,
                      row'[m] # "deleted", ~CutOff(m, u)'
               PROVE  Cardinality(Logged("added", m, u))' + Cardinality(Coming("react", m, u))' =
                         Cardinality(Logged("removed", m, u))' +
                         Cardinality(Coming("unreact", m, u))' + Cardinality(Placed(m, u))'
    BY DEF Balance
  <2>1. row[m] # "deleted" /\ ~CutOff(m, u)
    BY <1>2
  <2>2. SameParts(m, u)
    BY <1>4, <1>5 DEF SameParts
  <2> QED BY <2>1, <2>2 DEF LedgerInv, Balance, SameParts
<1>9. ASSUME NEW m \in Requests, NEW u \in Users, Tells(m, u)
      PROVE  Tells(m, u)'
  <2>1. CASE CutOff(m, u)'
    BY <2>1 DEF Tells
  <2>2. CASE ~CutOff(m, u)'
    <3>1. Coming("react", m, u)' = Coming("react", m, u)
      BY <1>4, <2>2
    <3> QED BY <1>2, <1>9, <2>2, <3>1 DEF Tells
  <2> QED BY <2>1, <2>2
<1>10. Landed'
  <2> SUFFICES ASSUME NEW q \in reactions' PROVE Tells(Target(q), op[q].user)'
    BY DEF Landed
  <2>1. q \in reactions /\ q \in Requests /\ pc[q] # "idle" /\ Is(q, "react")
    BY HaveBegun
  <2>2. Target(q)' = Target(q) /\ op'[q].user = op[q].user
    BY <1>1, <2>1
  <2>3. Target(q) \in Requests /\ op[q].user \in Users
    BY <2>1, RequestFields DEF ChatInv, Changing, Is
  <2>4. Tells(Target(q), op[q].user)
    BY <2>1 DEF LedgerInv, Landed
  <2>5. PICK m \in Requests, u \in Users : m = Target(q) /\ u = op[q].user
    BY <2>3
  <2>6. Tells(m, u)'
    BY <1>9, <2>4, <2>5
  <2>7. Target(q)' = m /\ op'[q].user = u
    BY <2>2, <2>5
  <2> QED BY <2>6, <2>7
<1> QED BY <1>6, <1>7, <1>8, <1>9, <1>10

\* The steps of r that are quiet, Leave aside.
QuietStep(r) ==
    \/ Begin(r) \/ ReadStep(r) \/ Insert(r) \/ Find(r) \/ FindCard(r)
    \/ Announce(r) \/ Finish(r) \/ DeleteCommit(r)
    \/ ReactCommit(r) /\ ~Lands(r)
    \/ Unreact(r) /\ ~Removes(r)
    \/ AnnounceChange(r) /\ ~Reacting(r)

\* What the log tells of reactions grows with an event that is about it only.
LEMMA AppendLogged ==
    ASSUME log \in Seq(Events), NEW e \in Events, log' = Append(log, e),
           NEW kind, NEW m, NEW u
    PROVE  /\ IsFiniteSet(Logged(kind, m, u)) /\ Len(log) + 1 \notin Logged(kind, m, u)
           /\ e = Event(kind, m, u) =>
                 Logged(kind, m, u)' = Logged(kind, m, u) \cup {Len(log) + 1}
           /\ e # Event(kind, m, u) => Logged(kind, m, u)' = Logged(kind, m, u)
<1>1. /\ Len(log) \in Nat /\ Len(log') = Len(log) + 1
      /\ \A i \in 1..Len(log) : log'[i] = log[i]
      /\ log'[Len(log) + 1] = e
  BY AppendEvent
<1>2. IsFiniteSet(1..Len(log))
  BY <1>1, FS_Interval
<1>3. IsFiniteSet(Logged(kind, m, u))
  BY <1>2, FS_Subset DEF Logged
<1>4. 1..Len(log') = 1..Len(log) \cup {Len(log) + 1}
  BY <1>1
<1>5. Len(log) + 1 \notin 1..Len(log)
  BY <1>1
<1>6. Logged(kind, m, u)' = {i \in 1..Len(log') : log'[i] = Event(kind, m, u)}
  BY DEF Logged
<1> QED BY <1>1, <1>3, <1>4, <1>5, <1>6 DEF Logged

LEMMA LoggedFrame ==
    ASSUME UNCHANGED log
    PROVE  \A kind, m, u : Logged(kind, m, u)' = Logged(kind, m, u)
BY DEF Logged

\* An event about a message or a deletion tells of no reaction.
LEMMA OtherEventLogged ==
    ASSUME log \in Seq(Events), NEW e \in Events, log' = Append(log, e),
           e.kind \notin {"added", "removed"}
    PROVE  \A m, u : /\ Logged("added", m, u)' = Logged("added", m, u)
                     /\ Logged("removed", m, u)' = Logged("removed", m, u)
<1>1. \A m, u : e # Event("added", m, u) /\ e # Event("removed", m, u)
  BY DEF Event
<1> QED BY <1>1, AppendLogged

\* Only the position and the answer of r change, and it begins if it is idle.
Alone(r) ==
    /\ pc[r] # "done"
    /\ \A q \in Requests : pc[q] # "idle" \/ q # r => op'[q] = op[q]
    /\ \A q \in Requests \ {r} : /\ pc'[q] = pc[q] /\ answer'[q] = answer[q]
                                /\ seen'[q] = seen[q] /\ snap'[q] = snap[q]

LEMMA StepAlone ==
    ASSUME ChatInv, NEW r \in Requests,
           Begin(r) \/ Step(r) \/ BreakOff(r)
    PROVE  Alone(r)
<1> USE DEF Alone, Goto, Return, tables, locals, outputs, ChatInv, TypeOK
<1>1. CASE Begin(r)
  BY <1>1 DEF Begin
<1>2. CASE SendCheck(r) \/ Insert(r) \/ Find(r) \/ FindCard(r)
  BY <1>2 DEF SendCheck, Insert, Find, FindCard
<1>3. CASE Get(r) \/ Announce(r) \/ Finish(r)
  BY <1>3 DEF Get, Announce, Finish
<1>4. CASE ChangeCheck(r) \/ DeleteSnapshot(r) \/ DeleteCommit(r)
  BY <1>4 DEF ChangeCheck, DeleteSnapshot, DeleteCommit
<1>5. CASE ReactSnapshot(r) \/ ReactCommit(r) \/ Recheck(r)
  BY <1>5 DEF ReactSnapshot, ReactCommit, Recheck
<1>6. CASE Unreact(r) \/ AnnounceChange(r) \/ BreakOff(r)
  BY <1>6 DEF Unreact, AnnounceChange, BreakOff
<1> QED BY <1>1, <1>2, <1>3, <1>4, <1>5, <1>6 DEF Step

\* Enough for a step of r to be quiet.
LEMMA QuietIf ==
    ASSUME ChatInv, LedgerInv, NEW r \in Requests, Alone(r),
           pc'[r] = "announce" => pc[r] # "idle" /\ ~Reacting(r),
           pc[r] = "announce" => ~Reacting(r) \/ answer'[r] = "error",
           \A q \in Requests : row[q] = "deleted" => row'[q] = "deleted",
           reactions' \subseteq reactions,
           \A q \in reactions : q \in reactions' \/ row'[Target(q)] = "deleted",
           \A m, u : /\ Logged("added", m, u)' = Logged("added", m, u)
                     /\ Logged("removed", m, u)' = Logged("removed", m, u)
    PROVE  Quiet
<1>1. answer[r] = "none"
  BY DEF Alone, ChatInv, Position
<1> QED BY <1>1 DEF Quiet, Alone

LEMMA QuietStepIsQuiet ==
    ASSUME ChatInv, LedgerInv, NEW r \in Requests, QuietStep(r)
    PROVE  Quiet /\ Alone(r)
<1> USE DEF Goto, Return, tables, locals, outputs
<1>1. Alone(r)
  BY StepAlone DEF QuietStep, ReadStep, Step
<1>2. /\ pc \in [Requests -> Labels] /\ row \in [Requests -> RowStates]
      /\ answer \in [Requests -> {"none", "ok", "refused", "error"}]
      /\ log \in Seq(Events)
  BY DEF ChatInv, TypeOK
<1>3. Posting(r) => ~Reacting(r)
  BY DEF Posting, Reacting
<1>4. CASE Begin(r)
  <2>1. /\ UNCHANGED <<row, reactions, log>> /\ pc[r] = "idle" /\ pc'[r] # "announce"
    BY <1>2, <1>4 DEF Begin
  <2> QED BY <1>1, <2>1, LoggedFrame, QuietIf
<1>5. CASE ReadStep(r)
  <2>1. UNCHANGED <<row, reactions, log>> /\ pc[r] # "idle"
    BY <1>5, ReadStepFrame
  <2>2. pc'[r] = "announce" => Posting(r)
    <3>1. Posting(r) \/ Changing(r)
      BY <2>1, RequestFields DEF ChatInv
    <3> QED BY <1>5, <3>1, ReadStepTarget
  <2>3. pc[r] = "announce" => answer'[r] = "error"
    BY <1>2, <1>5 DEF ReadStep, SendCheck, Get, ChangeCheck, DeleteSnapshot,
              ReactSnapshot, Recheck, BreakOff
  <2> QED BY <1>1, <1>3, <2>1, <2>2, <2>3, LoggedFrame, QuietIf
<1>6. CASE Insert(r) \/ Find(r) \/ FindCard(r)
  <2>1. /\ UNCHANGED <<reactions, log>> /\ pc[r] \in {"insert", "find"}
        /\ pc'[r] # "announce"
    BY <1>2, <1>6 DEF Insert, Find, FindCard
  <2>2. \A q \in Requests : row'[q] = row[q] \/ (q = r /\ pc[r] = "insert")
    BY <1>2, <1>6 DEF Insert, Find, FindCard
  <2>3. pc[r] = "insert" => row[r] = "none"
    BY <1>2 DEF ChatInv, Rows, Stored
  <2> QED BY <1>1, <2>1, <2>2, <2>3, LoggedFrame, QuietIf
<1>7. CASE Announce(r)
  <2>1. /\ UNCHANGED <<row, reactions>> /\ pc[r] = "announce" /\ pc'[r] # "announce"
        /\ log' = Append(log, Event("message", found[r], seen[r])) /\ Posting(r)
    BY <1>2, <1>7 DEF Announce, Broadcast, Posting, Is
  <2>2. /\ Event("message", found[r], seen[r]) \in Events
        /\ Event("message", found[r], seen[r]).kind = "message"
    BY DEF ChatInv, TypeOK, Event, Events
  <2> QED BY <1>1, <1>2, <1>3, <2>1, <2>2, OtherEventLogged, QuietIf
<1>8. CASE Finish(r)
  <2>1. /\ UNCHANGED <<row, reactions, log>> /\ pc[r] = "finish" /\ pc'[r] # "announce"
    BY <1>2, <1>8 DEF Finish
  <2> QED BY <1>1, <2>1, LoggedFrame, QuietIf
<1>9. CASE DeleteCommit(r)
  <2>1. /\ UNCHANGED log /\ pc[r] = "commit" /\ Is(r, "delete") /\ ~Reacting(r)
        /\ reactions' \subseteq reactions
    BY <1>9 DEF DeleteCommit, Is, Reacting
  <2>2. Target(r) \in Requests
    BY <2>1, RequestFields DEF ChatInv, Changing, Is
  <2>3. \A q \in Requests : row[q] = "deleted" => row'[q] = "deleted"
    BY <1>2, <1>9, <2>2 DEF DeleteCommit
  <2>4. \A q \in reactions : q \in reactions' \/ row'[Target(q)] = "deleted"
    <3>1. CASE Tombstones(r) /\ reactions' = reactions \ snap[r]
               /\ row' = [row EXCEPT ![Target(r)] = "deleted"]
      <4>1. \A q \in snap[r] : Target(q) = Target(r)
        BY <2>1 DEF LedgerInv, Waits
      <4> QED BY <1>2, <2>2, <3>1, <4>1
    <3>2. CASE UNCHANGED reactions
      BY <3>2
    <3> QED BY <1>9, <3>1, <3>2 DEF DeleteCommit
  <2> QED BY <1>1, <2>1, <2>3, <2>4, LoggedFrame, QuietIf
<1>10. CASE ReactCommit(r) /\ ~Lands(r)
  <2>1. /\ UNCHANGED <<row, reactions, log>> /\ pc[r] = "commit" /\ pc'[r] # "announce"
    BY <1>2, <1>10 DEF ReactCommit
  <2> QED BY <1>1, <2>1, LoggedFrame, QuietIf
<1>11. CASE Unreact(r) /\ ~Removes(r)
  <2>1. /\ UNCHANGED <<row, log>> /\ pc[r] = "write" /\ pc'[r] # "announce"
        /\ reactions' = reactions
    BY <1>2, <1>11 DEF Unreact, Removes
  <2> QED BY <1>1, <2>1, LoggedFrame, QuietIf
<1>12. CASE AnnounceChange(r) /\ ~Reacting(r)
  <2>1. /\ UNCHANGED <<row, reactions>> /\ pc[r] = "announce" /\ pc'[r] # "announce"
        /\ log' = Append(log, Announcement(r)) /\ Is(r, "delete")
    BY <1>2, <1>12 DEF AnnounceChange, Broadcast, Reacting, Is
  <2>2. Target(r) \in Requests
    BY <2>1, RequestFields DEF ChatInv, Changing, Is
  <2>3. Announcement(r) = Event("deleted", Target(r), "deleted")
    BY <2>1 DEF Announcement, Is
  <2>4. Announcement(r) \in Events /\ Announcement(r).kind = "deleted"
    BY <2>2, <2>3 DEF Event, Events, RowStates
  <2> QED BY <1>1, <1>2, <1>12, <2>1, <2>4, OtherEventLogged, QuietIf
<1> QED BY <1>1, <1>4, <1>5, <1>6, <1>7, <1>8, <1>9, <1>10, <1>11, <1>12 DEF QuietStep

-----------------------------------------------------------------------------
(***************************************************************************)
(* What requests rely on between their statements.                         *)
(***************************************************************************)
TellsKept == \A m \in Requests, u \in Users : Tells(m, u) => Tells(m, u)'

\* A step of one request leaves what the others rely on.
LEMMA OthersWait ==
    ASSUME ChatInv, LedgerInv, TellsKept, NEW r, Alone(r),
           \A m \in Requests : row[m] = "deleted" => row'[m] = "deleted",
           NEW q \in Requests \ {r}
    PROVE  Waits(q)'
<1> USE DEF Alone
<1>1. /\ op'[q] = op[q] /\ pc'[q] = pc[q] /\ answer'[q] = answer[q]
      /\ seen'[q] = seen[q] /\ snap'[q] = snap[q]
      /\ \A kind : Is(q, kind)' = Is(q, kind)
      /\ Target(q)' = Target(q)
  BY DEF Is, Target
<1>2. pc[q] # "idle" /\ Is(q, "react") => Target(q) \in Requests /\ op[q].user \in Users
  BY RequestFields DEF ChatInv, Changing, Is
<1>3. answer[q] # "none" => pc[q] = "done"
  BY HaveBegun
<1>4. ASSUME Is(q, "delete"), pc[q] = "commit", NEW p \in snap[q]
      PROVE  Is(p, "react")' /\ Target(p)' = Target(q)
  <2>1. p \in Requests /\ Is(p, "react") /\ Target(p) = Target(q)
    BY <1>4 DEF LedgerInv, Waits, ChatInv, TypeOK
  <2>2. pc[p] # "idle"
    BY <2>1 DEF ChatInv, Position, Is, NoOp
  <2> QED BY <2>1, <2>2 DEF Is, Target
<1>5. ASSUME pc[q] # "idle", Is(q, "react"), Tells(Target(q), op[q].user)
      PROVE  Tells(Target(q), op[q].user)'
  <2>1. PICK m \in Requests, u \in Users : m = Target(q) /\ u = op[q].user
    BY <1>2, <1>5
  <2>2. Tells(m, u)'
    BY <1>5, <2>1 DEF TellsKept
  <2>3. Target(q)' = m /\ op'[q].user = u
    BY <1>1, <2>1
  <2> QED BY <2>2, <2>3
<1>6. Waits(q)
  BY DEF LedgerInv
<1>7. Is(q, "delete")' /\ pc'[q] = "commit" =>
         \A p \in snap'[q] : Is(p, "react")' /\ Target(p)' = Target(q)'
  BY <1>1, <1>4
<1>8. Is(q, "react")' /\ pc'[q] = "commit" /\ seen'[q] # "live" => row'[Target(q)'] = "deleted"
  BY <1>1, <1>2, <1>6 DEF Waits
<1>9. Is(q, "react")' /\ pc'[q] = "recheck" =>
         row'[Target(q)'] = "deleted" \/ Tells(Target(q), op[q].user)'
  BY <1>1, <1>2, <1>5, <1>6 DEF Waits
<1>10. Is(q, "react")' /\ answer'[q] = "ok" => Tells(Target(q), op[q].user)'
  BY <1>1, <1>3, <1>5, <1>6 DEF Waits
<1> QED BY <1>7, <1>8, <1>9, <1>10 DEF Waits

\* A request is at rest that is about to write, to announce or to end, or is
\* answered otherwise than a reaction is.
LEMMA AtRest ==
    ASSUME NEW r, pc'[r] \notin {"commit", "recheck"},
           ~Is(r, "react")' \/ answer'[r] # "ok"
    PROVE  Waits(r)'
BY DEF Waits

LEMMA QuietStepWaits ==
    ASSUME ChatInv, LedgerInv, TellsKept, NEW r \in Requests, QuietStep(r)
    PROVE  Waits(r)'
<1> USE DEF Goto, Return, tables, locals, outputs
<1>1. /\ pc \in [Requests -> Labels] /\ row \in [Requests -> RowStates]
      /\ answer \in [Requests -> {"none", "ok", "refused", "error"}]
      /\ seen \in [Requests -> RowStates] /\ snap \in [Requests -> SUBSET Requests]
  BY DEF ChatInv, TypeOK
<1>2. pc[r] # "done" => answer[r] = "none"
  BY DEF ChatInv, Position
<1>3. CASE Begin(r)
  <2>1. pc'[r] \in {"insert", "check"} /\ answer'[r] = "none"
    BY <1>1, <1>2, <1>3 DEF Begin
  <2> QED BY <2>1, AtRest
<1>4. CASE Posting(r) /\ ~Begin(r)
  <2>1. op'[r] = op[r]
    BY <1>4, QuietStepIsQuiet DEF Alone, Posting, ChatInv, Position, NoOp
  <2>2. ~Is(r, "react")'
    BY <1>4, <2>1 DEF Posting, Is
  <2>3. pc'[r] \notin {"commit", "recheck"}
    <3>1. CASE ReadStep(r)
      BY <1>4, <3>1, ReadStepTarget
    <3>2. CASE Insert(r) \/ Find(r) \/ FindCard(r) \/ Announce(r) \/ Finish(r)
      BY <1>1, <3>2 DEF Insert, Find, FindCard, Announce, Finish
    <3> QED BY <1>4, <3>1, <3>2 DEF QuietStep, DeleteCommit, ReactCommit, Unreact,
                AnnounceChange, Posting, Is
  <2> QED BY <2>2, <2>3, AtRest
<1>5. CASE SendCheck(r) \/ Get(r) \/ Insert(r) \/ Find(r) \/ FindCard(r)
           \/ Announce(r) \/ Finish(r)
  <2>1. Posting(r)
    BY <1>5 DEF SendCheck, Get, Insert, Find, FindCard, Announce, Finish, Posting, Is,
                ChatInv, Position
  <2>2. ~Begin(r)
    BY <1>5, <2>1 DEF Begin, Posting, ChatInv, Position, NoOp
  <2> QED BY <1>4, <2>1, <2>2
<1>6. CASE ChangeCheck(r) \/ BreakOff(r)
  <2>1. pc'[r] \in {"write", "done"} /\ answer'[r] # "ok"
    BY <1>1, <1>2, <1>6 DEF ChangeCheck, BreakOff
  <2> QED BY <2>1, AtRest
<1>7. CASE DeleteSnapshot(r)
  <2>1. /\ UNCHANGED <<op, answer>> /\ pc'[r] = "commit" /\ Is(r, "delete")
        /\ snap'[r] = {q \in reactions : Target(q) = Target(r)} /\ answer[r] = "none"
    BY <1>1, <1>2, <1>7 DEF DeleteSnapshot
  <2>2. \A q \in snap'[r] : Is(q, "react") /\ Target(q) = Target(r)
    BY <2>1, HaveBegun
  <2> QED BY <2>1, <2>2 DEF Waits, Is, Target
<1>8. CASE ReactSnapshot(r)
  <2>1. /\ UNCHANGED <<op, row, answer>> /\ pc'[r] = "commit" /\ Is(r, "react")
        /\ seen'[r] = row[Target(r)] /\ answer[r] = "none" /\ pc[r] = "write"
    BY <1>1, <1>2, <1>8 DEF ReactSnapshot
  <2>2. Target(r) \in Requests /\ Stored(Target(r))
    BY <2>1, RequestFields DEF ChatInv, Changes, Changing, Is
  <2>3. row[Target(r)] \in {"live", "deleted"}
    BY <1>1, <2>2 DEF Stored, RowStates
  <2> QED BY <2>1, <2>3 DEF Waits, Is, Target
<1>9. CASE Recheck(r)
  <2>1. /\ UNCHANGED <<op, row>> /\ pc[r] = "recheck" /\ pc'[r] = "done" /\ Is(r, "react")
        /\ answer'[r] = "ok" => row[Target(r)] # "deleted"
    BY <1>1, <1>9 DEF Recheck, RecheckAnswer
  <2>2. row[Target(r)] = "deleted" \/ Tells(Target(r), op[r].user)
    BY <2>1 DEF LedgerInv, Waits
  <2>3. PICK m \in Requests, u \in Users : m = Target(r) /\ u = op[r].user
    BY <2>1, RequestFields DEF ChatInv, Changing, Is
  <2>4. answer'[r] = "ok" => Tells(m, u)'
    BY <2>1, <2>2, <2>3 DEF TellsKept
  <2>5. Target(r)' = m /\ op'[r].user = u
    BY <2>1, <2>3 DEF Target
  <2>6. answer'[r] = "ok" => Tells(Target(r), op[r].user)'
    BY <2>4, <2>5
  <2> QED BY <2>1, <2>6 DEF Waits
<1>10. CASE DeleteCommit(r) \/ Unreact(r) \/ (AnnounceChange(r) /\ ~Reacting(r))
  <2>1. UNCHANGED op /\ pc'[r] \in {"announce", "done"} /\ ~Is(r, "react")
    BY <1>1, <1>10 DEF DeleteCommit, Unreact, AnnounceChange, Is, Reacting
  <2> QED BY <2>1, AtRest DEF Is
<1>11. CASE ReactCommit(r) /\ ~Lands(r)
  <2>1. /\ UNCHANGED <<op, row, answer>> /\ pc[r] = "commit" /\ pc'[r] = "recheck"
        /\ Is(r, "react") /\ answer[r] = "none"
    BY <1>1, <1>2, <1>11 DEF ReactCommit
  <2>2. PICK m \in Requests, u \in Users : m = Target(r) /\ u = op[r].user
    BY <2>1, RequestFields DEF ChatInv, Changing, Is
  <2>3. row[m] = "deleted" \/ Tells(m, u)
    <3>1. CASE seen[r] # "live"
      BY <2>1, <2>2, <3>1 DEF LedgerInv, Waits
    <3>2. CASE seen[r] = "live"
      <4>1. PICK q \in reactions : SameReaction(q, r)
        BY <1>11, <3>2 DEF Lands
      <4>2. Target(q) = m /\ op[q].user = u
        BY <2>2, <4>1 DEF SameReaction, Target
      <4> QED BY <4>2 DEF LedgerInv, Landed
    <3> QED BY <3>1, <3>2
  <2>4. row[m] = "deleted" \/ Tells(m, u)'
    BY <2>3 DEF TellsKept
  <2>5. Target(r)' = m /\ op'[r].user = u
    BY <2>1, <2>2 DEF Target
  <2>6. row'[Target(r)'] = "deleted" \/ Tells(Target(r), op[r].user)'
    BY <2>1, <2>4, <2>5
  <2> QED BY <2>1, <2>6 DEF Waits
<1>12. CASE ReadStep(r)
  BY <1>5, <1>6, <1>7, <1>8, <1>9, <1>12 DEF ReadStep
<1> QED BY <1>3, <1>5, <1>10, <1>11, <1>12 DEF QuietStep

LEMMA QuietStepLedgerInv ==
    ASSUME ChatInv, LedgerInv, NEW r \in Requests, QuietStep(r)
    PROVE  LedgerInv'
<1>1. Quiet /\ Alone(r)
  BY QuietStepIsQuiet
<1>2. Finite' /\ Single' /\ Balance' /\ Landed' /\ TellsKept
  BY <1>1, QuietKeepsLedger DEF TellsKept
<1>3. Waits(r)'
  BY <1>2, QuietStepWaits
<1>4. \A q \in Requests \ {r} : Waits(q)'
  BY <1>1, <1>2, OthersWait DEF Quiet
<1> QED BY <1>2, <1>3, <1>4 DEF LedgerInv

-----------------------------------------------------------------------------
(***************************************************************************)
(* The three steps that move a reaction from one part of the ledger to     *)
(* another: one lands, one is removed, and either is announced.            *)
(***************************************************************************)
Balanced(m, u) ==
    Cardinality(Logged("added", m, u)) + Cardinality(Coming("react", m, u)) =
       Cardinality(Logged("removed", m, u)) + Cardinality(Coming("unreact", m, u)) +
       Cardinality(Placed(m, u))

Bounded(m, u) == IsFiniteSet(Coming("react", m, u)) /\ IsFiniteSet(Coming("unreact", m, u))

LEMMA LoggedFinite ==
    ASSUME ChatInv
    PROVE  \A kind, m, u : /\ IsFiniteSet(Logged(kind, m, u))
                           /\ Cardinality(Logged(kind, m, u)) \in Nat
<1>1. IsFiniteSet(1..Len(log))
  BY FS_Interval DEF ChatInv, TypeOK
<1> QED BY <1>1, FS_Subset, FS_CardinalityType DEF Logged

LEMMA BoundedSizes ==
    ASSUME NEW m, NEW u, Bounded(m, u)
    PROVE  /\ Cardinality(Coming("react", m, u)) \in Nat
           /\ Cardinality(Coming("unreact", m, u)) \in Nat
BY FS_CardinalityType DEF Bounded

LEMMA CutOffFrame ==
    ASSUME UNCHANGED op,
           \A q \in Requests : answer'[q] = "error" <=> answer[q] = "error"
    PROVE  \A m, u : CutOff(m, u)' <=> CutOff(m, u)
BY DEF CutOff, Target

\* It is enough to balance the message and user that the step is about.
LEMMA BalanceOfOne ==
    ASSUME LedgerInv, UNCHANGED <<op, row>>, NEW m, NEW u,
           \A q \in Requests : answer'[q] = "error" <=> answer[q] = "error",
           \A n, v : (n = m /\ v = u) \/ SameParts(n, v),
           Bounded(m, u) => Bounded(m, u)',
           Bounded(m, u) /\ Balanced(m, u) => Balanced(m, u)'
    PROVE  Finite' /\ Balance'
<1>1. \A n, v : CutOff(n, v)' <=> CutOff(n, v)
  BY CutOffFrame
<1>2. \A n \in Requests, v \in Users :
         /\ Bounded(n, v)
         /\ row[n] # "deleted" /\ ~CutOff(n, v) => Balanced(n, v)
  BY DEF LedgerInv, Finite, Balance, Bounded, Balanced
<1>3. ASSUME NEW n \in Requests, NEW v \in Users
      PROVE  /\ Bounded(n, v)'
             /\ row'[n] # "deleted" /\ ~CutOff(n, v)' => Balanced(n, v)'
  <2>1. CASE n = m /\ v = u
    BY <1>1, <1>2, <2>1
  <2>2. CASE SameParts(n, v)
    BY <1>1, <1>2, <2>2 DEF SameParts, Bounded, Balanced
  <2> QED BY <2>1, <2>2
<1> QED BY <1>3 DEF Finite, Balance, Bounded, Balanced

LEMMA LandsLedgerInv ==
    ASSUME ChatInv, LedgerInv, NEW r \in Requests, ReactCommit(r), Lands(r)
    PROVE  LedgerInv'
<1>1. /\ UNCHANGED <<op, row, log, answer>> /\ Is(r, "react")
      /\ pc[r] = "commit" /\ pc'[r] = "announce"
      /\ \A q \in Requests \ {r} : pc'[q] = pc[q]
      /\ reactions' = reactions \cup {r}
  BY DEF ReactCommit, Goto, ChatInv, TypeOK, locals, outputs
<1>2. PICK m \in Requests, u \in Users : m = Target(r) /\ u = op[r].user
  BY <1>1, RequestFields DEF ChatInv, Changing, Is
<1>3. /\ r \notin reactions /\ answer[r] = "none"
      /\ \A q : Target(q)' = Target(q) /\ \A verb : Is(q, verb)' = Is(q, verb)
  BY <1>1 DEF ChatInv, Changes, Position, Target, Is
<1>4. \A n, v : /\ Logged("added", n, v)' = Logged("added", n, v)
                /\ Logged("removed", n, v)' = Logged("removed", n, v)
  BY <1>1, LoggedFrame
<1>5. \A n, v : Coming("unreact", n, v)' = Coming("unreact", n, v)
  BY <1>1, <1>3 DEF Coming, Is
<1>6. /\ \A n, v : (n = m /\ v = u) \/ Coming("react", n, v)' = Coming("react", n, v)
      /\ Coming("react", m, u)' = Coming("react", m, u) \cup {r}
      /\ r \notin Coming("react", m, u)
  BY <1>1, <1>2, <1>3 DEF Coming
<1>7. /\ \A n, v : (n = m /\ v = u) \/ Placed(n, v)' = Placed(n, v)
      /\ Placed(m, u) = {} /\ Placed(m, u)' = {r}
  BY <1>1, <1>2, <1>3 DEF Placed, Lands, SameReaction, Target
<1>8. Bounded(m, u) => Bounded(m, u)'
  BY <1>5, <1>6, FS_AddElement DEF Bounded
<1>9. Bounded(m, u) /\ Balanced(m, u) => Balanced(m, u)'
  <2> SUFFICES ASSUME Bounded(m, u), Balanced(m, u) PROVE Balanced(m, u)'
    OBVIOUS
  <2>1. Cardinality(Coming("react", m, u))' = Cardinality(Coming("react", m, u)) + 1
    BY <1>6, FS_AddElement DEF Bounded
  <2>2. Cardinality(Placed(m, u)) = 0 /\ Cardinality(Placed(m, u))' = 1
    BY <1>7, FS_EmptySet, FS_Singleton
  <2> QED BY <1>4, <1>5, <2>1, <2>2, LoggedFinite, BoundedSizes DEF Balanced
<1>10. Finite' /\ Balance'
  <2>1. \A n, v : (n = m /\ v = u) \/ SameParts(n, v)
    BY <1>4, <1>5, <1>6, <1>7 DEF SameParts
  <2> QED BY <1>1, <1>8, <1>9, <2>1, BalanceOfOne
<1>11. \A n, v : Tells(n, v) => Tells(n, v)'
  BY <1>1, <1>4, <1>6, CutOffFrame DEF Tells
<1>12. Single'
  BY <1>1 DEF LedgerInv, Single, Lands, SameReaction
<1>13. Landed'
  <2>1. Tells(m, u)'
    BY <1>6 DEF Tells
  <2>2. Tells(Target(r), op[r].user)'
    BY <1>1, <1>2, <1>3, <2>1
  <2>3. ASSUME NEW q \in reactions PROVE Tells(Target(q), op[q].user)'
    <3>1. PICK n, v : n = Target(q) /\ v = op[q].user /\ Tells(n, v)
      BY DEF LedgerInv, Landed
    <3>2. Target(q)' = n /\ op'[q].user = v
      BY <1>1, <1>3, <3>1
    <3> QED BY <1>11, <3>1, <3>2
  <2> QED BY <1>1, <2>2, <2>3 DEF Landed
<1>14. \A q \in Requests : Waits(q)'
  <2>1. Alone(r)
    BY StepAlone DEF Step
  <2>2. \A q \in Requests \ {r} : Waits(q)'
    BY <1>1, <1>11, <2>1, OthersWait DEF TellsKept
  <2>3. Waits(r)'
    BY <1>1, <1>3, AtRest
  <2> QED BY <2>2, <2>3
<1> QED BY <1>10, <1>12, <1>13, <1>14 DEF LedgerInv

LEMMA RemovesLedgerInv ==
    ASSUME ChatInv, LedgerInv, NEW r \in Requests, Unreact(r), Removes(r)
    PROVE  LedgerInv'
<1>1. /\ UNCHANGED <<op, row, log, answer>> /\ Is(r, "unreact")
      /\ pc[r] = "write" /\ pc'[r] = "announce"
      /\ \A q \in Requests \ {r} : pc'[q] = pc[q]
      /\ reactions' = {q \in reactions : ~SameReaction(q, r)}
  BY DEF Unreact, Goto, ChatInv, TypeOK, locals, outputs
<1>2. PICK m \in Requests, u \in Users : m = Target(r) /\ u = op[r].user
  BY <1>1, RequestFields DEF ChatInv, Changing, Is
<1>3. /\ answer[r] = "none" /\ ~Is(r, "react")
      /\ \A q : Target(q)' = Target(q) /\ \A verb : Is(q, verb)' = Is(q, verb)
  BY <1>1 DEF ChatInv, Position, Target, Is
<1>4. \A n, v : /\ Logged("added", n, v)' = Logged("added", n, v)
                /\ Logged("removed", n, v)' = Logged("removed", n, v)
  BY <1>1, LoggedFrame
<1>5. \A n, v : Coming("react", n, v)' = Coming("react", n, v)
  BY <1>1, <1>3 DEF Coming
<1>6. /\ \A n, v : (n = m /\ v = u) \/ Coming("unreact", n, v)' = Coming("unreact", n, v)
      /\ Coming("unreact", m, u)' = Coming("unreact", m, u) \cup {r}
      /\ r \notin Coming("unreact", m, u)
  BY <1>1, <1>2, <1>3 DEF Coming
<1>7. /\ \A n, v : (n = m /\ v = u) \/ Placed(n, v)' = Placed(n, v)
      /\ Placed(m, u)' = {}
      /\ \E q : Placed(m, u) = {q}
  <2>1. \A q : SameReaction(q, r) <=> Target(q) = m /\ op[q].user = u
    BY <1>2 DEF SameReaction, Target
  <2>2. PICK q \in reactions : Target(q) = m /\ op[q].user = u
    BY <2>1 DEF Removes
  <2>3. Placed(m, u) = {q}
    BY <2>2 DEF Placed, LedgerInv, Single, SameReaction, Target
  <2> QED BY <1>1, <1>3, <2>1, <2>3 DEF Placed
<1>8. Bounded(m, u) => Bounded(m, u)'
  BY <1>5, <1>6, FS_AddElement DEF Bounded
<1>9. Bounded(m, u) /\ Balanced(m, u) => Balanced(m, u)'
  <2> SUFFICES ASSUME Bounded(m, u), Balanced(m, u) PROVE Balanced(m, u)'
    OBVIOUS
  <2>1. Cardinality(Coming("unreact", m, u))' = Cardinality(Coming("unreact", m, u)) + 1
    BY <1>6, FS_AddElement DEF Bounded
  <2>2. Cardinality(Placed(m, u)) = 1 /\ Cardinality(Placed(m, u))' = 0
    BY <1>7, FS_EmptySet, FS_Singleton
  <2> QED BY <1>4, <1>5, <2>1, <2>2, LoggedFinite, BoundedSizes DEF Balanced
<1>10. Finite' /\ Balance'
  <2>1. \A n, v : (n = m /\ v = u) \/ SameParts(n, v)
    BY <1>4, <1>5, <1>6, <1>7 DEF SameParts
  <2> QED BY <1>1, <1>8, <1>9, <2>1, BalanceOfOne
<1>11. \A n, v : Tells(n, v) => Tells(n, v)'
  BY <1>1, <1>4, <1>5, CutOffFrame DEF Tells
<1>12. Single'
  BY <1>1 DEF LedgerInv, Single, SameReaction
<1>13. Landed'
  <2>1. ASSUME NEW q \in reactions PROVE Tells(Target(q), op[q].user)'
    <3>1. PICK n, v : n = Target(q) /\ v = op[q].user /\ Tells(n, v)
      BY DEF LedgerInv, Landed
    <3>2. Target(q)' = n /\ op'[q].user = v
      BY <1>1, <1>3, <3>1
    <3> QED BY <1>11, <3>1, <3>2
  <2> QED BY <1>1, <2>1 DEF Landed
<1>14. \A q \in Requests : Waits(q)'
  <2>1. Alone(r)
    BY StepAlone DEF Step
  <2>2. \A q \in Requests \ {r} : Waits(q)'
    BY <1>1, <1>11, <2>1, OthersWait DEF TellsKept
  <2>3. Waits(r)'
    BY <1>1, <1>3, AtRest
  <2> QED BY <2>2, <2>3
<1> QED BY <1>10, <1>12, <1>13, <1>14 DEF LedgerInv

\* An event about u's reaction to m tells of that and no other.
LEMMA AppendReaction ==
    ASSUME log \in Seq(Events), NEW m \in Requests, NEW u \in Users,
           NEW kind \in {"added", "removed"}, log' = Append(log, Event(kind, m, u))
    PROVE  /\ \A k, n, v : (k = kind /\ n = m /\ v = u) \/ Logged(k, n, v)' = Logged(k, n, v)
           /\ Logged(kind, m, u)' # {}
           /\ Cardinality(Logged(kind, m, u))' = Cardinality(Logged(kind, m, u)) + 1
<1>1. Event(kind, m, u) \in Events
  BY DEF Event, Events
<1>2. \A k, n, v : (k = kind /\ n = m /\ v = u) \/ Event(k, n, v) # Event(kind, m, u)
  BY DEF Event
<1>3. \A k, n, v : (k = kind /\ n = m /\ v = u) \/ Logged(k, n, v)' = Logged(k, n, v)
  BY <1>1, <1>2, AppendLogged
<1>4. /\ IsFiniteSet(Logged(kind, m, u)) /\ Len(log) + 1 \notin Logged(kind, m, u)
      /\ Logged(kind, m, u)' = Logged(kind, m, u) \cup {Len(log) + 1}
  BY <1>1, AppendLogged
<1>5. Cardinality(Logged(kind, m, u) \cup {Len(log) + 1}) = Cardinality(Logged(kind, m, u)) + 1
  BY <1>4, FS_AddElement
<1> QED BY <1>3, <1>4, <1>5

LEMMA ToldLedgerInv ==
    ASSUME ChatInv, LedgerInv, NEW r \in Requests, AnnounceChange(r), Reacting(r)
    PROVE  LedgerInv'
<1>1. /\ UNCHANGED <<op, row, reactions>> /\ log' = Append(log, Announcement(r))
      /\ pc[r] = "announce" /\ pc'[r] = "done" /\ answer'[r] = "ok"
      /\ \A q \in Requests \ {r} : pc'[q] = pc[q] /\ answer'[q] = answer[q]
  BY DEF AnnounceChange, Return, Broadcast, ChatInv, TypeOK, tables, locals
<1>2. PICK m \in Requests, u \in Users : m = Target(r) /\ u = op[r].user
  BY <1>1, RequestFields DEF ChatInv, Changing, Reacting
<1>3. /\ answer[r] = "none"
      /\ \A q : Target(q)' = Target(q) /\ \A verb : Is(q, verb)' = Is(q, verb)
      /\ log \in Seq(Events)
  BY <1>1 DEF ChatInv, TypeOK, Position, Target, Is
<1>4. PICK verb \in {"react", "unreact"}, kind \in {"added", "removed"} :
         /\ Is(r, verb) /\ (kind = "added" <=> verb = "react")
         /\ Announcement(r) = Event(kind, m, u)
  BY <1>2 DEF Reacting, Is, Announcement
<1>5. /\ \A k, n, v : (k = kind /\ n = m /\ v = u) \/ Logged(k, n, v)' = Logged(k, n, v)
      /\ Logged(kind, m, u)' # {}
      /\ Cardinality(Logged(kind, m, u))' = Cardinality(Logged(kind, m, u)) + 1
  BY <1>1, <1>3, <1>4, AppendReaction
<1>6. /\ \A b, n, v : (b = verb /\ n = m /\ v = u) \/ Coming(b, n, v)' = Coming(b, n, v)
      /\ Coming(verb, m, u)' = Coming(verb, m, u) \ {r}
      /\ r \in Coming(verb, m, u)
  BY <1>1, <1>2, <1>3, <1>4 DEF Coming, Is
<1>7. \A n, v : Placed(n, v)' = Placed(n, v)
  BY <1>1, <1>3 DEF Placed
<1>8. Bounded(m, u) => Bounded(m, u)'
  BY <1>6, FS_RemoveElement DEF Bounded
<1>9. Bounded(m, u) /\ Balanced(m, u) => Balanced(m, u)'
  <2> SUFFICES ASSUME Bounded(m, u), Balanced(m, u) PROVE Balanced(m, u)'
    OBVIOUS
  <2>1. Cardinality(Coming(verb, m, u))' = Cardinality(Coming(verb, m, u)) - 1
    <3>1. IsFiniteSet(Coming(verb, m, u))
      BY <1>4 DEF Bounded
    <3>2. Cardinality(Coming(verb, m, u) \ {r}) = Cardinality(Coming(verb, m, u)) - 1
      BY <1>6, <3>1, FS_RemoveElement
    <3> QED BY <1>6, <3>2
  <2>2. CASE verb = "react"
    <3>1. kind = "added"
      BY <1>4, <2>2
    <3>2. /\ Logged("removed", m, u)' = Logged("removed", m, u)
          /\ Coming("unreact", m, u)' = Coming("unreact", m, u)
      BY <1>5, <1>6, <2>2, <3>1
    <3> QED BY <1>5, <1>7, <2>1, <2>2, <3>1, <3>2, LoggedFinite, BoundedSizes DEF Balanced
  <2>3. CASE verb = "unreact"
    <3>1. kind = "removed"
      BY <1>4, <2>3
    <3>2. /\ Logged("added", m, u)' = Logged("added", m, u)
          /\ Coming("react", m, u)' = Coming("react", m, u)
      BY <1>5, <1>6, <2>3, <3>1
    <3>3. Cardinality(Logged("removed", m, u))' + Cardinality(Coming("unreact", m, u))' =
             Cardinality(Logged("removed", m, u)) + Cardinality(Coming("unreact", m, u))
      BY <1>5, <2>1, <2>3, <3>1, LoggedFinite, BoundedSizes
    <3> QED BY <1>7, <3>2, <3>3 DEF Balanced
  <2> QED BY <2>2, <2>3
<1>10. Finite' /\ Balance'
  <2>1. \A n, v : (n = m /\ v = u) \/ SameParts(n, v)
    BY <1>5, <1>6, <1>7 DEF SameParts
  <2> QED BY <1>1, <1>3, <1>8, <1>9, <2>1, BalanceOfOne
<1>11. /\ \A n, v : Tells(n, v) => Tells(n, v)'
       /\ verb = "react" => Tells(m, u)'
  <2>1. \A n, v : CutOff(n, v)' <=> CutOff(n, v)
    BY <1>1, <1>3, CutOffFrame
  <2>2. verb = "react" => Tells(m, u)'
    BY <1>4, <1>5 DEF Tells
  <2>3. \A n, v : Tells(n, v) => Tells(n, v)'
    BY <1>4, <1>5, <1>6, <2>1, <2>2 DEF Tells
  <2> QED BY <2>2, <2>3
<1>12. Single'
  BY <1>1 DEF LedgerInv, Single, SameReaction
<1>13. Landed'
  <2>1. ASSUME NEW q \in reactions PROVE Tells(Target(q), op[q].user)'
    <3>1. PICK n, v : n = Target(q) /\ v = op[q].user /\ Tells(n, v)
      BY DEF LedgerInv, Landed
    <3>2. Target(q)' = n /\ op'[q].user = v
      BY <1>1, <1>3, <3>1
    <3> QED BY <1>11, <3>1, <3>2
  <2> QED BY <1>1, <2>1 DEF Landed
<1>14. \A q \in Requests : Waits(q)'
  <2>1. Alone(r)
    BY StepAlone DEF Step
  <2>2. \A q \in Requests \ {r} : Waits(q)'
    BY <1>1, <1>11, <2>1, OthersWait DEF TellsKept
  <2>3. CASE verb = "react"
    <3>1. Target(r)' = m /\ op'[r].user = u
      BY <1>1, <1>2, <1>3
    <3>2. Tells(Target(r), op[r].user)'
      BY <1>11, <2>3, <3>1
    <3>3. ~Is(r, "delete")' /\ pc'[r] = "done"
      BY <1>1, <1>3, <1>4 DEF Is
    <3>4. Waits(r)'
      BY <3>2, <3>3 DEF Waits
    <3> QED BY <2>2, <3>4
  <2>4. CASE verb = "unreact"
    <3>1. ~Is(r, "react")'
      BY <1>3, <1>4, <2>4 DEF Is
    <3>2. Waits(r)'
      BY <1>1, <3>1, AtRest
    <3> QED BY <2>2, <3>2
  <2> QED BY <2>3, <2>4
<1> QED BY <1>10, <1>12, <1>13, <1>14 DEF LedgerInv

-----------------------------------------------------------------------------
LEMMA InitLedgerInv == Init => LedgerInv
<1> SUFFICES ASSUME Init PROVE LedgerInv
  OBVIOUS
<1> USE DEF Init
<1>1. \A kind, m, u : Logged(kind, m, u) = {} /\ Coming(kind, m, u) = {} /\ Placed(m, u) = {}
  BY DEF Logged, Coming, Placed
<1>2. Finite /\ Balance
  <2>1. IsFiniteSet({}) /\ Cardinality({}) = 0
    BY FS_EmptySet
  <2>2. Finite
    BY <1>1, <2>1 DEF Finite
  <2>3. \A m, u : Cardinality(Logged("added", m, u)) + Cardinality(Coming("react", m, u)) =
                   Cardinality(Logged("removed", m, u)) + Cardinality(Coming("unreact", m, u)) +
                   Cardinality(Placed(m, u))
    <3>1. \A S : S = {} => Cardinality(S) = 0
      BY <2>1
    <3>2. \A kind, m, u : /\ Cardinality(Logged(kind, m, u)) = 0
                          /\ Cardinality(Coming(kind, m, u)) = 0
                          /\ Cardinality(Placed(m, u)) = 0
      BY <1>1, <3>1, Zenon
    <3> QED BY <3>2
  <2> QED BY <2>2, <2>3 DEF Balance
<1>3. Single /\ Landed
  BY DEF Single, Landed
<1>4. \A r \in Requests : Waits(r)
  BY DEF Waits
<1> QED BY <1>2, <1>3, <1>4 DEF LedgerInv

\* The ledger is no matter of who belongs to a group.
LEMMA LedgerFrame ==
    ASSUME LedgerInv, UNCHANGED <<op, pc, row, reactions, seen, snap, log, answer>>
    PROVE  LedgerInv'
<1>1. /\ \A kind, m, u : /\ Logged(kind, m, u)' = Logged(kind, m, u)
                         /\ Coming(kind, m, u)' = Coming(kind, m, u)
      /\ \A m, u : /\ CutOff(m, u)' = CutOff(m, u) /\ Placed(m, u)' = Placed(m, u)
                   /\ Tells(m, u)' = Tells(m, u)
      /\ \A q, verb : Is(q, verb)' = Is(q, verb) /\ Target(q)' = Target(q)
      /\ \A q, r : SameReaction(q, r)' = SameReaction(q, r)
  BY DEF Logged, Coming, CutOff, Placed, Tells, Is, Target, SameReaction
<1>2. Finite' /\ Balance'
  BY <1>1 DEF LedgerInv, Finite, Balance
<1>3. Single'
  BY <1>1 DEF LedgerInv, Single
<1>4. \A q \in Requests : Tells(Target(q), op[q].user)' = Tells(Target(q), op[q].user)
  BY DEF Tells, Logged, Coming, CutOff, Is, Target
<1>5. Landed'
  BY DEF LedgerInv, Landed, Tells, Logged, Coming, CutOff, Is, Target
<1>6. \A r \in Requests : Waits(r)'
  BY <1>1, <1>4 DEF LedgerInv, Waits
<1> QED BY <1>2, <1>3, <1>5, <1>6 DEF LedgerInv

LEMMA NextLedgerInv == ChatInv /\ LedgerInv /\ [Next]_vars => LedgerInv'
<1> SUFFICES ASSUME ChatInv, LedgerInv, [Next]_vars PROVE LedgerInv'
  OBVIOUS
<1>1. ASSUME NEW r \in Requests, QuietStep(r) PROVE LedgerInv'
  BY <1>1, QuietStepLedgerInv
<1>2. ASSUME NEW r \in Requests, ReactCommit(r), Lands(r) PROVE LedgerInv'
  BY <1>2, LandsLedgerInv
<1>3. ASSUME NEW r \in Requests, Unreact(r), Removes(r) PROVE LedgerInv'
  BY <1>3, RemovesLedgerInv
<1>4. ASSUME NEW r \in Requests, AnnounceChange(r), Reacting(r) PROVE LedgerInv'
  BY <1>4, ToldLedgerInv
<1>5. ASSUME NEW x \in Leavers \cap members, Leave(x[1], x[2]) PROVE LedgerInv'
  BY <1>5, LedgerFrame DEF Leave, locals, outputs
<1>6. CASE UNCHANGED vars
  BY <1>6, LedgerFrame DEF vars
<1>7. ASSUME NEW r \in Requests, Begin(r) \/ Step(r) \/ BreakOff(r) PROVE LedgerInv'
  BY <1>1, <1>2, <1>3, <1>4, <1>7 DEF Step, QuietStep, ReadStep
<1> QED BY <1>5, <1>6, <1>7 DEF Next

LEMMA ToldParts ==
    ASSUME NEW m, NEW u
    PROVE  /\ Told("added", m, u) =
                 Cardinality(Logged("added", m, u)) + Cardinality(Coming("react", m, u))
           /\ Told("removed", m, u) =
                 Cardinality(Logged("removed", m, u)) + Cardinality(Coming("unreact", m, u))
<1>1. ASSUME NEW r, Reacting(r)
      PROVE  /\ Announcement(r) = Event("added", m, u) <=>
                   Is(r, "react") /\ Target(r) = m /\ op[r].user = u
             /\ Announcement(r) = Event("removed", m, u) <=>
                   Is(r, "unreact") /\ Target(r) = m /\ op[r].user = u
  <2>1. CASE Is(r, "react")
    <3>1. Announcement(r) = Event("added", Target(r), op[r].user)
      BY <2>1 DEF Announcement, Is
    <3> QED BY <2>1, <3>1 DEF Event, Is
  <2>2. CASE Is(r, "unreact")
    <3>1. Announcement(r) = Event("removed", Target(r), op[r].user)
      BY <2>2 DEF Announcement, Is
    <3> QED BY <2>2, <3>1 DEF Event, Is
  <2> QED BY <1>1, <2>1, <2>2 DEF Reacting, Is
<1>2. \A r : Is(r, "react") \/ Is(r, "unreact") <=> Reacting(r)
  BY DEF Is, Reacting
<1>3. /\ Coming("react", m, u) =
            {r \in Requests : /\ pc[r] = "announce" /\ Reacting(r)
                             /\ Announcement(r) = Event("added", m, u)}
      /\ Coming("unreact", m, u) =
            {r \in Requests : /\ pc[r] = "announce" /\ Reacting(r)
                             /\ Announcement(r) = Event("removed", m, u)}
  BY <1>1, <1>2 DEF Coming
<1> QED BY <1>3 DEF Told, Logged, Reacting

LEMMA LedgerInvSuffices == ChatInv /\ LedgerInv => ReactionLedger /\ DoneMeansLanded
<1> SUFFICES ASSUME ChatInv, LedgerInv PROVE ReactionLedger /\ DoneMeansLanded
  OBVIOUS
<1>1. ReactionLedger
  <2> SUFFICES ASSUME NEW m \in Requests, NEW u \in Users, row[m] = "live", ~CutOff(m, u)
               PROVE  Told("added", m, u) =
                         Told("removed", m, u) +
                         Cardinality({q \in reactions : Target(q) = m /\ op[q].user = u})
    BY DEF ReactionLedger
  <2> QED BY ToldParts DEF LedgerInv, Balance, Placed
<1>2. DoneMeansLanded
  <2> SUFFICES ASSUME NEW r \in Requests, Is(r, "react"), answer[r] = "ok",
                      ~CutOff(Target(r), op[r].user)
               PROVE  Told("added", Target(r), op[r].user) > 0
    BY DEF DoneMeansLanded
  <2>1. pc[r] # "idle"
    BY HaveBegun
  <2>2. PICK m \in Requests, u \in Users : m = Target(r) /\ u = op[r].user
    BY <2>1, RequestFields DEF ChatInv, Changing, Is
  <2>3. Logged("added", m, u) # {} \/ Coming("react", m, u) # {}
    BY <2>2 DEF LedgerInv, Waits, Tells
  <2>4. IsFiniteSet(Logged("added", m, u)) /\ IsFiniteSet(Coming("react", m, u))
    BY LoggedFinite DEF LedgerInv, Finite
  <2>5. /\ Cardinality(Logged("added", m, u)) \in Nat
        /\ Cardinality(Coming("react", m, u)) \in Nat
    BY <2>4, FS_CardinalityType
  <2>6. \/ Cardinality(Logged("added", m, u)) # 0
        \/ Cardinality(Coming("react", m, u)) # 0
    BY <2>3, <2>4, FS_EmptySet
  <2> QED BY <2>2, <2>5, <2>6, ToldParts
<1> QED BY <1>1, <1>2

LEMMA LedgerInvHolds == Spec => [](ReactionLedger /\ DoneMeansLanded)
<1>1. Init => ChatInv /\ LedgerInv
  BY InitChatInv, InitLedgerInv
<1>2. ChatInv /\ LedgerInv /\ [Next]_vars => (ChatInv /\ LedgerInv)'
  BY NextChatInv, NextLedgerInv
<1>3. ChatInv /\ LedgerInv => ReactionLedger /\ DoneMeansLanded
  BY LedgerInvSuffices
<1> QED BY <1>1, <1>2, <1>3, PTL DEF Spec

\* However reacts, unreacts, retries and deletions of a message overlap, what
\* its watchers are told adds up to the rows of message_reactions, unless a
\* request broke off between its statement and its broadcast.
THEOREM ReactionsAddUp == Spec => []ReactionLedger
  BY LedgerInvHolds, PTL

\* A caller that was told its reaction is there is not misled by a deletion
\* that came between the check and the insert.
THEOREM DoneIsTrue == Spec => []DoneMeansLanded
  BY LedgerInvHolds, PTL
-----------------------------------------------------------------------------
(***************************************************************************)
(* The service implements Conversation: what a request read some           *)
(* statements ago still says enough when it takes effect, is told or is    *)
(* answered.                                                               *)
(***************************************************************************)
Reads(r) ==
    /\ Posting(r) /\ pc[r] = "announce" => seen[r] \in {"live", row[r]}
    /\ Is(r, "delete") /\ pc[r] \in {"write", "commit"} =>
          op[Target(r)].user = op[r].user
    /\ Is(r, "react") /\ pc[r] \in {"commit", "recheck"} =>
          seen[r] = "live" \/ row[Target(r)] = "deleted"

Readings == \A r \in Requests : Reads(r)

LEMMA InitReadings == Init => Readings
BY DEF Init, Readings, Reads

\* Rows are only inserted and tombstoned, and operations are not changed.
Onward ==
    \A q \in Requests :
       /\ row[q] = "live" => row'[q] \in {"live", "deleted"}
       /\ row[q] = "deleted" => row'[q] = "deleted"
       /\ pc[q] # "idle" => op'[q] = op[q]

LEMMA StepOnward ==
    ASSUME ChatInv, [Next]_vars
    PROVE  Onward
<1> USE DEF ChatInv
<1>1. /\ row \in [Requests -> RowStates] /\ op \in [Requests -> Operations \cup {NoOp}]
      /\ \A r \in Requests : pc[r] = "insert" => ~Stored(r)
  BY DEF TypeOK, Rows
<1>2. ASSUME NEW r \in Requests, Begin(r) PROVE Onward
  BY <1>1, <1>2 DEF Begin, tables, Onward
<1>3. ASSUME NEW r \in Requests, ReadStep(r) PROVE Onward
  BY <1>3, ReadStepFrame DEF Onward
<1>4. ASSUME NEW r \in Requests, Insert(r) PROVE Onward
  BY <1>1, <1>4 DEF Insert, Onward, Stored
<1>5. ASSUME NEW r \in Requests, Find(r) \/ FindCard(r) PROVE Onward
  BY <1>5 DEF Find, FindCard, tables, Onward
<1>6. ASSUME NEW r \in Requests, Announce(r) \/ Finish(r) \/ AnnounceChange(r) PROVE Onward
  BY <1>6 DEF Announce, Finish, AnnounceChange, tables, Onward
<1>7. ASSUME NEW r \in Requests, DeleteCommit(r) PROVE Onward
  BY <1>1, <1>7 DEF DeleteCommit, Onward
<1>8. ASSUME NEW r \in Requests, ReactCommit(r) \/ Unreact(r) PROVE Onward
  BY <1>8 DEF ReactCommit, Unreact, Onward
<1>9. ASSUME NEW x \in Leavers \cap members, Leave(x[1], x[2]) PROVE Onward
  BY <1>9 DEF Leave, Onward
<1>10. CASE UNCHANGED vars
  BY <1>10 DEF vars, Onward
<1> QED BY <1>2, <1>3, <1>4, <1>5, <1>6, <1>7, <1>8, <1>9, <1>10 DEF Next, Step, ReadStep

LEMMA ReadsKept ==
    ASSUME ChatInv, Readings, Onward, NEW q \in Requests,
           pc[q] = "idle" \/ op'[q] = op[q], pc'[q] = pc[q], seen'[q] = seen[q]
    PROVE  Reads(q)'
<1> USE DEF ChatInv
<1>1. CASE pc[q] = "idle"
  BY <1>1 DEF Reads
<1>2. CASE pc[q] # "idle"
  <2>1. /\ op'[q] = op[q] /\ Posting(q)' = Posting(q) /\ Target(q)' = Target(q)
        /\ Is(q, "delete")' = Is(q, "delete") /\ Is(q, "react")' = Is(q, "react")
        /\ Is(q, "delete") \/ Is(q, "react") => Changing(q)
    BY <1>2 DEF Posting, Changing, Target, Is
  <2>2. Reads(q)
    BY DEF Readings
  <2>3. ASSUME Changing(q), pc[q] \in {"write", "commit", "recheck"}
        PROVE  op'[Target(q)] = op[Target(q)] /\ row[Target(q)] \in {"live", "deleted"}
    <3>1. Target(q) \in Requests /\ Stored(Target(q))
      BY <1>2, <2>3, RequestFields DEF Changes
    <3>2. pc[Target(q)] # "idle"
      BY <3>1 DEF Rows
    <3> QED BY <3>1, <3>2 DEF Onward, Stored, TypeOK, RowStates
  <2>4. Posting(q) /\ pc[q] = "announce" => row[q] \in {"live", "deleted"}
    BY DEF Rows, Stored, TypeOK, RowStates
  <2>5. Posting(q)' /\ pc'[q] = "announce" => seen'[q] \in {"live", row'[q]}
    BY <2>1, <2>2, <2>4 DEF Reads, Onward
  <2>6. Is(q, "delete")' /\ pc'[q] \in {"write", "commit"} => op'[Target(q)'].user = op'[q].user
    BY <2>1, <2>2, <2>3 DEF Reads
  <2>7. ASSUME Is(q, "react"), pc[q] \in {"commit", "recheck"}
        PROVE  seen'[q] = "live" \/ row'[Target(q)] = "deleted"
    <3>1. Target(q) \in Requests
      BY <1>2, <2>1, <2>7, RequestFields
    <3> QED BY <2>2, <2>7, <3>1 DEF Reads, Onward
  <2> QED BY <2>1, <2>5, <2>6, <2>7 DEF Reads
<1> QED BY <1>1, <1>2

\* A request at none of the places that Readings is about.
LEMMA NothingRead ==
    ASSUME NEW r \in Requests, pc'[r] \notin {"announce", "write", "commit", "recheck"}
    PROVE  Reads(r)'
BY DEF Reads

LEMMA StepReadings ==
    ASSUME ChatInv, Readings, Onward, NEW r \in Requests, Begin(r) \/ Step(r) \/ BreakOff(r)
    PROVE  Readings'
<1> USE DEF ChatInv, Goto, Return, tables, locals, outputs
<1>1. Alone(r)
  BY StepAlone
<1>2. ASSUME NEW q \in Requests \ {r} PROVE Reads(q)'
  <2>1. op'[q] = op[q] /\ pc'[q] = pc[q] /\ seen'[q] = seen[q]
    BY <1>1 DEF Alone
  <2> QED BY <2>1, ReadsKept
<1>3. /\ pc \in [Requests -> Labels] /\ seen \in [Requests -> RowStates]
      /\ row \in [Requests -> RowStates]
  BY DEF TypeOK
<1>4. ~(Posting(r) /\ Changing(r))
  BY DEF Posting, Changing
<1>5. CASE Begin(r)
  <2>1. pc'[r] \in {"insert", "check"}
    BY <1>3, <1>5 DEF Begin
  <2> QED BY <1>2, <2>1, NothingRead DEF Readings
<1>6. CASE SendCheck(r) \/ Insert(r) \/ Find(r) \/ FindCard(r)
  <2>1. pc'[r] \in {"insert", "done", "get", "find"}
    BY <1>3, <1>6 DEF SendCheck, Insert, Find, FindCard
  <2> QED BY <1>2, <2>1, NothingRead DEF Readings
<1>7. CASE Get(r)
  <2>1. pc'[r] \in {"done", "announce"} /\ UNCHANGED <<op, row>> /\ pc[r] = "get"
        /\ seen'[r] = row[found[r]]
    BY <1>3, <1>7 DEF Get
  <2>2. Posting(r)
    BY <2>1 DEF Position
  <2>3. pc'[r] = "announce" => found[r] = r
    BY <1>3, <1>7 DEF Get, IsNew
  <2>4. ~Is(r, "delete")' /\ ~Is(r, "react")'
    BY <2>1, <2>2 DEF Is, Posting
  <2>5. Reads(r)'
    BY <2>1, <2>3, <2>4 DEF Reads
  <2> QED BY <1>2, <2>5 DEF Readings
<1>8. CASE Announce(r) \/ Finish(r)
  <2>1. pc'[r] \in {"finish", "done"}
    BY <1>3, <1>8 DEF Announce, Finish
  <2> QED BY <1>2, <2>1, NothingRead DEF Readings
<1>9. CASE ChangeCheck(r)
  <2>1. /\ UNCHANGED <<op, row, seen>> /\ Changing(r)
        /\ pc'[r] = "done" \/ (pc'[r] = "write" /\ MayChange(r))
    BY <1>3, <1>9 DEF ChangeCheck, Changing
  <2>2. Is(r, "delete")' /\ pc'[r] = "write" => op'[Target(r)'].user = op'[r].user
    BY <2>1 DEF MayChange, Is, Target
  <2>3. Reads(r)'
    BY <2>1, <2>2 DEF Reads
  <2> QED BY <1>2, <2>3 DEF Readings
<1>10. CASE DeleteSnapshot(r)
  <2>1. /\ UNCHANGED <<op, row, seen>> /\ Is(r, "delete")
        /\ pc[r] = "write" /\ pc'[r] = "commit"
    BY <1>3, <1>10 DEF DeleteSnapshot
  <2>2. Reads(r)
    BY DEF Readings
  <2>3. op'[Target(r)'].user = op'[r].user
    BY <2>1, <2>2 DEF Reads, Target
  <2>4. ~Is(r, "react")'
    BY <2>1 DEF Is
  <2>5. Reads(r)'
    BY <2>1, <2>3, <2>4 DEF Reads
  <2> QED BY <1>2, <2>5 DEF Readings
<1>11. CASE ReactSnapshot(r)
  <2>1. /\ UNCHANGED <<op, row>> /\ Is(r, "react") /\ pc[r] = "write"
        /\ pc'[r] = "commit" /\ seen'[r] = row[Target(r)]
    BY <1>3, <1>11 DEF ReactSnapshot
  <2>2. Changing(r) /\ Target(r) \in Requests /\ Stored(Target(r))
    BY <2>1, RequestFields DEF Changes, Is, Changing
  <2>3. row[Target(r)] \in {"live", "deleted"}
    BY <1>3, <2>2 DEF Stored, RowStates
  <2>4. seen'[r] = "live" \/ row'[Target(r)'] = "deleted"
    BY <2>1, <2>3 DEF Target
  <2>5. ~Is(r, "delete")'
    BY <2>1 DEF Is
  <2>6. Reads(r)'
    BY <2>1, <2>4, <2>5 DEF Reads
  <2> QED BY <1>2, <2>6 DEF Readings
<1>12. CASE ReactCommit(r)
  <2>1. /\ UNCHANGED <<op, row, seen>> /\ Is(r, "react") /\ pc[r] = "commit"
        /\ pc'[r] \in {"announce", "recheck"}
    BY <1>3, <1>12 DEF ReactCommit
  <2>2. Reads(r)
    BY DEF Readings
  <2>3. seen'[r] = "live" \/ row'[Target(r)'] = "deleted"
    BY <2>1, <2>2 DEF Reads, Target
  <2>4. ~Is(r, "delete")' /\ ~Posting(r)'
    BY <2>1 DEF Is, Posting
  <2>5. Reads(r)'
    BY <2>1, <2>3, <2>4 DEF Reads
  <2> QED BY <1>2, <2>5 DEF Readings
<1>13. CASE DeleteCommit(r) \/ Unreact(r)
  <2>1. /\ op' = op /\ ~Posting(r) /\ pc'[r] \in {"announce", "done"}
    BY <1>3, <1>13 DEF DeleteCommit, Unreact, Is, Posting
  <2>2. ~Posting(r)'
    BY <2>1 DEF Posting
  <2>3. Reads(r)'
    BY <2>1, <2>2 DEF Reads
  <2> QED BY <1>2, <2>3 DEF Readings
<1>14. CASE Recheck(r) \/ AnnounceChange(r) \/ BreakOff(r)
  <2>1. pc'[r] = "done"
    BY <1>3, <1>14 DEF Recheck, AnnounceChange, BreakOff
  <2> QED BY <1>2, <2>1, NothingRead DEF Readings
<1> QED BY <1>5, <1>6, <1>7, <1>8, <1>9, <1>10, <1>11, <1>12, <1>13, <1>14 DEF Step

LEMMA NextReadings ==
    ASSUME ChatInv, Readings, [Next]_vars
    PROVE  Readings'
<1>1. Onward
  BY StepOnward
<1>2. ASSUME NEW r \in Requests, Begin(r) \/ Step(r) \/ BreakOff(r) PROVE Readings'
  BY <1>1, <1>2, StepReadings
<1>3. ASSUME UNCHANGED <<op, pc, seen>> PROVE Readings'
  BY <1>1, <1>3, ReadsKept DEF Readings
<1> QED BY <1>2, <1>3 DEF Next, Leave, locals, vars
-----------------------------------------------------------------------------
(***************************************************************************)
(* Where the steps of a request take it in Conversation.                   *)
(***************************************************************************)
Underway == {"asked", "owing", "told", "met"}

LEMMA StageOf ==
    ASSUME NEW r
    PROVE  /\ pc[r] = "idle" => Stage(r) = "new"
           /\ pc[r] \in {"check", "insert", "find", "write", "commit"} => Stage(r) = "asked"
           /\ pc[r] = "get" /\ found[r] = r => Stage(r) = "owing"
           /\ pc[r] = "get" /\ found[r] # r /\ op[found[r]].group = op[r].group =>
                 Stage(r) = "met"
           /\ pc[r] = "get" /\ found[r] # r /\ op[found[r]].group # op[r].group =>
                 Stage(r) = "asked"
           /\ pc[r] = "announce" => Stage(r) = "owing"
           /\ pc[r] = "finish" => Stage(r) = "told"
           /\ pc[r] = "recheck" /\ seen[r] = "live" => Stage(r) = "met"
           /\ pc[r] = "recheck" /\ seen[r] # "live" => Stage(r) = "asked"
           /\ pc[r] = "done" => Stage(r) = "over"
BY DEF Stage, IsNew

LEMMA NextStageOf ==
    ASSUME NEW r
    PROVE  /\ pc'[r] \in {"check", "insert", "find", "write", "commit"} => Stage(r)' = "asked"
           /\ pc'[r] = "get" /\ found'[r] = r => Stage(r)' = "owing"
           /\ pc'[r] = "get" /\ found'[r] # r /\ op'[found'[r]].group = op'[r].group =>
                 Stage(r)' = "met"
           /\ pc'[r] = "get" /\ found'[r] # r /\ op'[found'[r]].group # op'[r].group =>
                 Stage(r)' = "asked"
           /\ pc'[r] = "announce" => Stage(r)' = "owing"
           /\ pc'[r] = "finish" => Stage(r)' = "told"
           /\ pc'[r] = "recheck" /\ seen'[r] = "live" => Stage(r)' = "met"
           /\ pc'[r] = "recheck" /\ seen'[r] # "live" => Stage(r)' = "asked"
           /\ pc'[r] = "done" => Stage(r)' = "over"
BY DEF Stage, IsNew

LEMMA StageIsUnderway ==
    ASSUME ChatInv, NEW r \in Requests, pc[r] \notin {"idle", "done"}
    PROVE  Stage(r) \in Underway
<1>1. pc[r] \in {"check", "insert", "find", "get", "announce", "finish", "write", "commit", "recheck"}
  BY DEF ChatInv, TypeOK, Labels
<1> QED BY <1>1, StageOf DEF Underway

LEMMA StageKept ==
    ASSUME ChatInv, Onward, NEW q \in Requests,
           pc[q] = "idle" \/ op'[q] = op[q],
           pc'[q] = pc[q], seen'[q] = seen[q], found'[q] = found[q]
    PROVE  Stage(q)' = Stage(q)
<1>1. CASE pc[q] = "get"
  <2>1. op'[q] = op[q]
    BY <1>1
  <2>2. found[q] \in Requests /\ Stored(found[q])
    BY <1>1 DEF ChatInv, Rows, TypeOK
  <2>3. pc[found[q]] # "idle"
    BY <2>2 DEF ChatInv, Rows
  <2>4. op'[found[q]] = op[found[q]]
    BY <2>2, <2>3 DEF Onward
  <2> QED BY <1>1, <2>1, <2>4 DEF Stage, IsNew
<1>2. CASE pc[q] # "get"
  BY <1>2 DEF Stage
<1> QED BY <1>1, <1>2

\* Only the request that takes the step moves.
LEMMA OneMoves ==
    ASSUME ChatInv, NEW r \in Requests, Begin(r) \/ Step(r) \/ BreakOff(r)
    PROVE  /\ \A from, to : Stage(r) \in from /\ Stage(r)' = to => C!Moves(r, from, to)
           /\ Stage(r)' = Stage(r) => Stages' = Stages
<1> USE DEF Goto, Return, tables, locals, outputs
<1>1. Onward /\ Alone(r)
  BY StepOnward, StepAlone DEF Next
<1>2. ASSUME NEW q \in Requests \ {r} PROVE found'[q] = found[q]
  <2>1. CASE Begin(r) \/ BreakOff(r) \/ SendCheck(r) \/ Get(r) \/ Announce(r) \/ Finish(r)
    BY <2>1 DEF Begin, BreakOff, SendCheck, Get, Announce, Finish
  <2>2. CASE Insert(r) \/ Find(r) \/ FindCard(r)
    BY <2>2 DEF Insert, Find, FindCard, ChatInv, TypeOK
  <2>3. CASE ChangeCheck(r) \/ DeleteSnapshot(r) \/ DeleteCommit(r) \/ Unreact(r)
    BY <2>3 DEF ChangeCheck, DeleteSnapshot, DeleteCommit, Unreact
  <2>4. CASE ReactSnapshot(r) \/ ReactCommit(r) \/ Recheck(r) \/ AnnounceChange(r)
    BY <2>4 DEF ReactSnapshot, ReactCommit, Recheck, AnnounceChange
  <2> QED BY <2>1, <2>2, <2>3, <2>4 DEF Step
<1>3. \A q \in Requests \ {r} : Stage(q)' = Stage(q)
  <2> TAKE q \in Requests \ {r}
  <2>1. op'[q] = op[q] /\ pc'[q] = pc[q] /\ seen'[q] = seen[q]
    BY <1>1 DEF Alone
  <2> QED BY <1>1, <1>2, <2>1, StageKept
<1>4. ASSUME NEW from, NEW to, Stage(r) \in from, Stage(r)' = to
      PROVE  C!Moves(r, from, to)
  <2>1. Stages[r] \in from
    BY <1>4 DEF Stages
  <2>2. \A q \in Requests : Stages'[q] = [Stages EXCEPT ![r] = to][q]
    BY <1>3, <1>4 DEF Stages
  <2>3. Stages' = [Stages EXCEPT ![r] = to]
    BY <2>2 DEF Stages
  <2> QED BY <2>1, <2>3 DEF C!Moves
<1>5. Stage(r)' = Stage(r) => Stages' = Stages
  BY <1>3 DEF Stages
<1> QED BY <1>4, <1>5

\* What the two modules say of an operation.
LEMMA SameWords ==
    ASSUME NEW r
    PROVE  /\ \A kinds : C!Is(r, kinds) <=> op[r].kind \in kinds
           /\ C!Target(r) = Target(r)
           /\ \A q : C!Same(q, r) <=> SameReaction(q, r)
           /\ Is(r, "send") => \A q : C!Holds(q, r) <=> Stored(q) /\ SameKey(q, r)
           /\ Is(r, "meal") => \A q : C!Holds(q, r) <=> row[q] = "live" /\ SameCard(q, r)
BY DEF C!Is, C!Target, C!Same, C!Holds, Target, SameReaction, Is, Stored, SameKey, SameCard

LEMMA MovesOn ==
    ASSUME NEW r \in Requests, Stage(r)' # Stage(r),
           C!Ask(r) \/ C!TakeEffect(r) \/ C!Meet(r) \/ C!Tell(r) \/ C!Answer(r)
    PROVE  C!Next
BY DEF C!Next, Stages

LEMMA Answered ==
    ASSUME ChatInv, NEW r \in Requests, Begin(r) \/ Step(r) \/ BreakOff(r),
           NEW a \in {"ok", "refused", "error"}, Return(r, a),
           pc[r] \notin {"idle", "done"}, UNCHANGED <<op, row, reactions, log>>,
           \/ a = "ok" /\ Stage(r) \in {"told", "met"}
           \/ a = "ok" /\ Stage(r) = "asked" /\ C!InEffect(r)
           \/ a = "refused" /\ Stage(r) \in {"asked", "met"}
           \/ a = "error"
    PROVE  C!Next
<1>1. pc'[r] = "done" /\ answer' = [answer EXCEPT ![r] = a]
  BY DEF Return, ChatInv, TypeOK
<1>2. Stage(r) \in {"asked", "owing", "told", "met"} /\ Stage(r)' = "over"
  BY <1>1, StageIsUnderway, NextStageOf DEF Underway
<1>3. C!Moves(r, {"asked", "owing", "told", "met"}, "over")
  BY <1>2, OneMoves
<1>4. Stages[r] = Stage(r)
  BY DEF Stages
<1>5. C!Answer(r)
  BY <1>1, <1>3, <1>4 DEF C!Answer
<1> QED BY <1>2, <1>5, MovesOn

LEMMA Stutters ==
    ASSUME ChatInv, NEW r \in Requests, Begin(r) \/ Step(r) \/ BreakOff(r),
           UNCHANGED <<op, row, reactions, log, answer>>, Stage(r)' = Stage(r)
    PROVE  UNCHANGED C!vars
<1>1. Stages' = Stages
  BY OneMoves
<1> QED BY <1>1 DEF C!vars

LEMMA Effect ==
    ASSUME ChatInv, NEW r \in Requests, Step(r), Stage(r) = "asked", Stage(r)' = "owing",
           UNCHANGED <<op, log, answer>>,
           C!Post(r) \/ C!Delete(r) \/ C!React(r) \/ C!Unreact(r)
    PROVE  C!Next
<1>1. C!Moves(r, {"asked"}, "owing")
  BY OneMoves
<1>2. C!TakeEffect(r)
  BY <1>1 DEF C!TakeEffect
<1> QED BY <1>2, MovesOn

LEMMA Met ==
    ASSUME ChatInv, NEW r \in Requests, Step(r), Stage(r) = "asked", Stage(r)' = "met",
           C!InEffect(r), UNCHANGED <<op, row, reactions, log, answer>>
    PROVE  C!Next
<1>1. C!Moves(r, {"asked"}, "met")
  BY OneMoves
<1>2. C!Meet(r)
  BY <1>1 DEF C!Meet
<1> QED BY <1>2, MovesOn

LEMMA BeginAsks ==
    ASSUME ChatInv, NEW r \in Requests, Begin(r)
    PROVE  C!Next
<1>1. /\ pc[r] = "idle" /\ pc'[r] \in {"insert", "check"}
      /\ \E o \in MayAsk[r] : op' = [op EXCEPT ![r] = o]
      /\ UNCHANGED <<row, reactions, log, answer>>
  BY DEF Begin, Goto, tables, outputs, ChatInv, TypeOK
<1>2. Stage(r) = "new" /\ Stage(r)' = "asked"
  BY <1>1, StageOf, NextStageOf
<1>3. C!Moves(r, {"new"}, "asked")
  BY <1>2, OneMoves
<1>4. C!Ask(r)
  BY <1>1, <1>3 DEF C!Ask
<1> QED BY <1>2, <1>4, MovesOn
-----------------------------------------------------------------------------
(***************************************************************************)
(* Each step of the service is one of Conversation or none.                *)
(***************************************************************************)
LEMMA BreakOffSimulates ==
    ASSUME ChatInv, NEW r \in Requests, BreakOff(r)
    PROVE  C!Next
BY Answered DEF BreakOff, tables, outputs

LEMMA CheckSimulates ==
    ASSUME ChatInv, NEW r \in Requests, SendCheck(r) \/ ChangeCheck(r)
    PROVE  C!Next \/ UNCHANGED C!vars
<1> USE DEF tables, outputs
<1>1. /\ pc[r] = "check" /\ UNCHANGED <<op, row, reactions, log>> /\ Step(r)
      /\ Goto(r, "insert") \/ Goto(r, "write") \/ Return(r, "refused")
  BY DEF SendCheck, ChangeCheck, Step
<1>2. Stage(r) = "asked"
  BY <1>1, StageOf
<1>3. CASE Return(r, "refused")
  BY <1>1, <1>2, <1>3, Answered
<1>4. CASE Goto(r, "insert") \/ Goto(r, "write")
  <2>1. pc'[r] \in {"insert", "write"} /\ answer' = answer
    BY <1>4 DEF Goto, ChatInv, TypeOK
  <2>2. Stage(r)' = "asked"
    BY <2>1, NextStageOf
  <2> QED BY <1>1, <1>2, <2>1, <2>2, Stutters
<1> QED BY <1>1, <1>3, <1>4

LEMMA InsertSimulates ==
    ASSUME ChatInv, NEW r \in Requests, Insert(r)
    PROVE  C!Next \/ UNCHANGED C!vars
<1> USE DEF outputs
<1>1. /\ pc[r] = "insert" /\ Step(r) /\ UNCHANGED <<op, reactions, log, answer>>
      /\ pc \in [Requests -> Labels] /\ found \in [Requests -> Requests]
  BY DEF Insert, Step, Goto, ChatInv, TypeOK
<1>2. Posting(r) /\ Stage(r) = "asked"
  BY <1>1, StageOf DEF ChatInv, Position
<1>3. Is(r, "send") \/ (Is(r, "meal") /\ ~Is(r, "send"))
  BY <1>2 DEF Posting, Is
<1>4. CASE pc' = [pc EXCEPT ![r] = "find"]
  <2>1. row' = row
    BY <1>1, <1>4 DEF Insert, Goto, ChatInv, TypeOK
  <2>2. Stage(r)' = "asked"
    BY <1>1, <1>4, NextStageOf
  <2> QED BY <1>1, <1>2, <2>1, <2>2, Stutters
<1>5. CASE pc' = [pc EXCEPT ![r] = "get"]
  <2>1. /\ row' = [row EXCEPT ![r] = "live"] /\ found'[r] = r
        /\ IF Is(r, "send") THEN ~KeyTaken(r) ELSE ~CardTaken(r)
    BY <1>1, <1>5 DEF Insert, Goto
  <2>2. \A q \in Requests : ~C!Holds(q, r)
    BY <1>3, <2>1, SameWords DEF KeyTaken, CardTaken
  <2>3. C!Post(r)
    BY <1>1, <1>2, <2>1, <2>2, SameWords DEF C!Post, Posting
  <2>4. Stage(r)' = "owing"
    BY <1>1, <1>5, <2>1, NextStageOf
  <2> QED BY <1>1, <1>2, <2>3, <2>4, Effect
<1> QED BY <1>4, <1>5 DEF Insert, Goto

LEMMA FindSimulates ==
    ASSUME ChatInv, NEW r \in Requests, Find(r)
    PROVE  C!Next \/ UNCHANGED C!vars
<1> USE DEF tables, outputs
<1>1. PICK q \in Requests : Stored(q) /\ SameKey(q, r) /\ found' = [found EXCEPT ![r] = q]
  BY DEF Find
<1>2. /\ Is(r, "send") /\ pc[r] = "find" /\ pc'[r] = "get" /\ found'[r] = q /\ Step(r)
      /\ UNCHANGED <<op, row, reactions, log, answer>>
  BY <1>1 DEF Find, Step, Goto, ChatInv, TypeOK
<1>3. q # r /\ Stage(r) = "asked"
  BY <1>1, <1>2, StageOf DEF ChatInv, Rows
<1>4. CASE op[q].group = op[r].group
  <2>1. C!InEffect(r)
    BY <1>1, <1>2, <1>4, SameWords DEF C!InEffect, Is
  <2>2. Stage(r)' = "met"
    BY <1>2, <1>3, <1>4, NextStageOf
  <2> QED BY <1>2, <1>3, <2>1, <2>2, Met
<1>5. CASE op[q].group # op[r].group
  <2>1. Stage(r)' = "asked"
    BY <1>2, <1>3, <1>5, NextStageOf
  <2> QED BY <1>2, <1>3, <2>1, Stutters
<1> QED BY <1>4, <1>5

LEMMA FindCardSimulates ==
    ASSUME ChatInv, NEW r \in Requests, FindCard(r)
    PROVE  C!Next
<1> USE DEF tables, outputs
<1>1. /\ Is(r, "meal") /\ pc[r] = "find" /\ Step(r) /\ UNCHANGED <<op, row, reactions, log>>
  BY DEF FindCard, Step
<1>2. Stage(r) = "asked"
  BY <1>1, StageOf
<1>3. CASE Return(r, "error")
  BY <1>1, <1>3, Answered
<1>4. ASSUME NEW q \in Requests, row[q] = "live", SameCard(q, r), Return(r, "ok")
      PROVE  C!Next
  <2>1. C!Holds(q, r) /\ op[q].group = op[r].group
    BY <1>1, <1>4, SameWords DEF SameCard
  <2>2. C!InEffect(r)
    BY <1>1, <2>1, SameWords DEF C!InEffect, Is
  <2> QED BY <1>1, <1>2, <1>4, <2>2, Answered
<1> QED BY <1>3, <1>4 DEF FindCard

LEMMA GetSimulates ==
    ASSUME ChatInv, NEW r \in Requests, Get(r)
    PROVE  C!Next \/ UNCHANGED C!vars
<1> USE DEF tables, outputs
<1>1. /\ pc[r] = "get" /\ Step(r) /\ UNCHANGED <<op, row, reactions, log>>
  BY DEF Get, Step
<1>2. CASE found[r] = r
  <2>1. Goto(r, "announce")
    BY <1>2 DEF Get, IsNew
  <2>2. pc'[r] = "announce" /\ answer' = answer
    BY <2>1 DEF Goto, ChatInv, TypeOK
  <2>3. Stage(r) = "owing" /\ Stage(r)' = "owing"
    BY <1>1, <1>2, <2>2, StageOf, NextStageOf
  <2> QED BY <1>1, <2>2, <2>3, Stutters
<1>3. CASE found[r] # r /\ op[found[r]].group = op[r].group
  <2>1. Return(r, "ok")
    BY <1>3 DEF Get, IsNew
  <2>2. Stage(r) = "met"
    BY <1>1, <1>3, StageOf
  <2> QED BY <1>1, <2>1, <2>2, Answered
<1>4. CASE found[r] # r /\ op[found[r]].group # op[r].group
  <2>1. Return(r, "refused")
    BY <1>4 DEF Get
  <2>2. Stage(r) = "asked"
    BY <1>1, <1>4, StageOf
  <2> QED BY <1>1, <2>1, <2>2, Answered
<1> QED BY <1>2, <1>3, <1>4

LEMMA AnnounceSimulates ==
    ASSUME ChatInv, Readings, NEW r \in Requests, Announce(r)
    PROVE  C!Next
<1> USE DEF tables, outputs
<1>1. /\ pc[r] = "announce" /\ pc'[r] = "finish" /\ Step(r) /\ Posting(r)
      /\ log' = Append(log, Event("message", found[r], seen[r]))
      /\ UNCHANGED <<op, row, reactions, answer>>
  BY DEF Announce, Step, Goto, Broadcast, Posting, Is, ChatInv, TypeOK
<1>2. found[r] = r /\ seen[r] \in {"live", row[r]}
  BY <1>1 DEF ChatInv, Rows, Readings, Reads
<1>3. Event("message", found[r], seen[r]) \in C!News(r)
  <2>1. C!News(r) = [kind : {"message"}, id : {r}, shows : {"live", row[r]}]
    BY <1>1, SameWords DEF C!News, Posting
  <2> QED BY <1>2, <2>1 DEF Event
<1>4. Stage(r) = "owing" /\ Stage(r)' = "told"
  BY <1>1, StageOf, NextStageOf
<1>5. C!Moves(r, {"owing"}, "told")
  BY <1>1, <1>4, OneMoves
<1>6. C!Tell(r)
  BY <1>1, <1>3, <1>5 DEF C!Tell
<1> QED BY <1>4, <1>6, MovesOn

LEMMA FinishSimulates ==
    ASSUME ChatInv, NEW r \in Requests, Finish(r)
    PROVE  C!Next
<1>1. /\ pc[r] = "finish" /\ Step(r) /\ Return(r, "ok")
      /\ UNCHANGED <<op, row, reactions, log>>
  BY DEF Finish, Step, tables
<1>2. Stage(r) = "told"
  BY <1>1, StageOf
<1> QED BY <1>1, <1>2, Answered
LEMMA SnapshotSimulates ==
    ASSUME ChatInv, NEW r \in Requests, DeleteSnapshot(r) \/ ReactSnapshot(r)
    PROVE  UNCHANGED C!vars
<1>1. /\ pc[r] = "write" /\ pc'[r] = "commit" /\ Step(r)
      /\ UNCHANGED <<op, row, reactions, log, answer>>
  BY DEF DeleteSnapshot, ReactSnapshot, Step, Goto, tables, outputs, ChatInv, TypeOK
<1>2. Stage(r) = "asked" /\ Stage(r)' = "asked"
  BY <1>1, StageOf, NextStageOf
<1> QED BY <1>1, <1>2, Stutters

LEMMA DeleteCommitSimulates ==
    ASSUME ChatInv, LedgerInv, Readings, NEW r \in Requests, DeleteCommit(r)
    PROVE  C!Next
<1> USE DEF outputs
<1>1. /\ pc[r] = "commit" /\ Is(r, "delete") /\ Step(r) /\ UNCHANGED <<op, log>>
  BY DEF DeleteCommit, Step
<1>2. Stage(r) = "asked" /\ Stored(Target(r)) /\ Target(r) \in Requests
  <2>1. Changing(r) /\ pc[r] # "idle"
    BY <1>1 DEF Is, Changing
  <2> QED BY <1>1, <2>1, StageOf, RequestFields DEF ChatInv, Changes
<1>3. CASE Tombstones(r)
  <2>1. /\ row[Target(r)] = "live" /\ row' = [row EXCEPT ![Target(r)] = "deleted"]
        /\ reactions' = reactions \ snap[r] /\ pc'[r] = "announce" /\ answer' = answer
    BY <1>3 DEF DeleteCommit, Tombstones, Goto, ChatInv, TypeOK
  <2>2. op[Target(r)].user = op[r].user
    BY <1>1 DEF Readings, Reads
  <2>3. \A q \in snap[r] : Target(q) = Target(r)
    BY <1>1 DEF LedgerInv, Waits
  <2>4. C!Delete(r)
    BY <1>1, <2>1, <2>2, <2>3, SameWords DEF C!Delete, Is
  <2>5. Stage(r)' = "owing"
    BY <2>1, NextStageOf
  <2> QED BY <1>1, <1>2, <2>1, <2>4, <2>5, Effect
<1>4. CASE ~Tombstones(r)
  <2>1. UNCHANGED <<row, reactions>> /\ Return(r, "ok")
    BY <1>4 DEF DeleteCommit
  <2>2. row[Target(r)] = "deleted"
    BY <1>2, <1>4 DEF Tombstones, Stored, ChatInv, TypeOK, RowStates
  <2>3. C!InEffect(r)
    BY <1>1, <2>2, SameWords DEF C!InEffect, Is
  <2> QED BY <1>1, <1>2, <2>1, <2>3, Answered
<1> QED BY <1>3, <1>4

LEMMA ReactCommitSimulates ==
    ASSUME ChatInv, NEW r \in Requests, ReactCommit(r)
    PROVE  C!Next \/ UNCHANGED C!vars
<1> USE DEF locals, outputs
<1>1. /\ pc[r] = "commit" /\ Is(r, "react") /\ Step(r) /\ UNCHANGED <<op, row, seen, log, answer>>
  BY DEF ReactCommit, Step, Goto
<1>2. Stage(r) = "asked" /\ Stored(Target(r))
  <2>1. Changing(r) /\ pc[r] # "idle"
    BY <1>1 DEF Is, Changing
  <2> QED BY <1>1, <2>1, StageOf DEF ChatInv, Changes
<1>3. CASE Lands(r)
  <2>1. reactions' = reactions \cup {r} /\ pc'[r] = "announce"
    BY <1>3 DEF ReactCommit, Goto, ChatInv, TypeOK
  <2>2. C!React(r)
    BY <1>1, <1>2, <1>3, <2>1, SameWords DEF C!React, Is, Lands, Stored
  <2>3. Stage(r)' = "owing"
    BY <2>1, NextStageOf
  <2> QED BY <1>1, <1>2, <2>2, <2>3, Effect
<1>4. CASE ~Lands(r)
  <2>1. reactions' = reactions /\ pc'[r] = "recheck"
    BY <1>4 DEF ReactCommit, Goto, ChatInv, TypeOK
  <2>2. CASE seen[r] = "live"
    <3>1. \E q \in reactions : SameReaction(q, r)
      BY <1>4, <2>2 DEF Lands
    <3>2. C!InEffect(r)
      BY <1>1, <3>1, SameWords DEF C!InEffect, Is
    <3>3. Stage(r)' = "met"
      BY <1>1, <2>1, <2>2, NextStageOf
    <3> QED BY <1>1, <1>2, <2>1, <3>2, <3>3, Met
  <2>3. CASE seen[r] # "live"
    <3>1. Stage(r)' = "asked"
      BY <1>1, <2>1, <2>3, NextStageOf
    <3> QED BY <1>1, <1>2, <2>1, <3>1, Stutters
  <2> QED BY <2>2, <2>3
<1> QED BY <1>3, <1>4

LEMMA RecheckSimulates ==
    ASSUME ChatInv, Readings, NEW r \in Requests, Recheck(r)
    PROVE  C!Next
<1>1. /\ pc[r] = "recheck" /\ Is(r, "react") /\ Step(r)
      /\ UNCHANGED <<op, row, reactions, log>>
  BY DEF Recheck, Step, tables, outputs
<1>2. CASE row[Target(r)] = "deleted"
  <2>1. Return(r, "refused")
    BY <1>2 DEF Recheck, RecheckAnswer
  <2>2. Stage(r) \in {"asked", "met"}
    BY <1>1, StageOf
  <2> QED BY <1>1, <2>1, <2>2, Answered
<1>3. CASE row[Target(r)] # "deleted"
  <2>1. Return(r, "ok")
    BY <1>3 DEF Recheck, RecheckAnswer
  <2>2. seen[r] = "live"
    BY <1>1, <1>3 DEF Readings, Reads
  <2>3. Stage(r) = "met"
    BY <1>1, <2>2, StageOf
  <2> QED BY <1>1, <2>1, <2>3, Answered
<1> QED BY <1>2, <1>3

LEMMA UnreactSimulates ==
    ASSUME ChatInv, NEW r \in Requests, Unreact(r)
    PROVE  C!Next
<1> USE DEF locals, outputs
<1>1. /\ pc[r] = "write" /\ Is(r, "unreact") /\ Step(r) /\ UNCHANGED <<op, row, log>>
      /\ reactions' = {q \in reactions : ~SameReaction(q, r)}
  BY DEF Unreact, Step
<1>2. Stage(r) = "asked"
  BY <1>1, StageOf
<1>3. CASE Removes(r)
  <2>1. pc'[r] = "announce" /\ answer' = answer
    BY <1>3 DEF Unreact, Goto, ChatInv, TypeOK
  <2>2. \A q \in reactions : C!Same(q, r) <=> SameReaction(q, r)
    BY SameWords
  <2>3. reactions' = {q \in reactions : ~C!Same(q, r)}
    BY <1>1, <2>2
  <2>4. C!Unreact(r)
    BY <1>1, <1>3, <2>2, <2>3, SameWords DEF C!Unreact, Is, Removes
  <2>5. Stage(r)' = "owing"
    BY <2>1, NextStageOf
  <2> QED BY <1>1, <1>2, <2>1, <2>4, <2>5, Effect
<1>4. CASE ~Removes(r)
  <2>1. Return(r, "ok") /\ reactions' = reactions
    BY <1>1, <1>4 DEF Unreact, Removes
  <2>2. C!InEffect(r)
    BY <1>1, <1>4, SameWords DEF C!InEffect, Is, Removes
  <2> QED BY <1>1, <1>2, <2>1, <2>2, Answered
<1> QED BY <1>3, <1>4

LEMMA AnnounceChangeSimulates ==
    ASSUME ChatInv, NEW r \in Requests, AnnounceChange(r)
    PROVE  C!Next
<1>1. /\ pc[r] = "announce" /\ Changing(r) /\ Step(r) /\ UNCHANGED <<op, row, reactions>>
      /\ log' = Append(log, Announcement(r)) /\ Return(r, "ok")
  BY DEF AnnounceChange, Step, tables, Broadcast, Changing
<1>2. pc'[r] = "done" /\ answer' = [answer EXCEPT ![r] = "ok"]
  BY <1>1 DEF Return, ChatInv, TypeOK
<1>3. Announcement(r) \in C!News(r)
  <2>1. CASE op[r].kind = "delete"
    BY <2>1, SameWords DEF Announcement, Event, C!News, Is
  <2>2. CASE op[r].kind = "react"
    BY <2>2, SameWords DEF Announcement, Event, C!News, Is
  <2>3. CASE op[r].kind = "unreact"
    BY <2>3, SameWords DEF Announcement, Event, C!News, Is
  <2> QED BY <1>1, <2>1, <2>2, <2>3 DEF Changing
<1>4. Stage(r) = "owing" /\ Stage(r)' = "over"
  BY <1>1, <1>2, StageOf, NextStageOf
<1>5. C!Moves(r, {"owing"}, "over")
  BY <1>1, <1>4, OneMoves
<1>6. C!Tell(r)
  BY <1>1, <1>2, <1>3, <1>5 DEF C!Tell
<1> QED BY <1>4, <1>6, MovesOn

LEMMA StillSimulates ==
    ASSUME UNCHANGED <<op, pc, row, reactions, found, seen, log, answer>>
    PROVE  UNCHANGED C!vars
<1>1. \A q : Stage(q)' = Stage(q)
  BY DEF Stage, IsNew
<1> QED BY <1>1 DEF C!vars, Stages

LEMMA InitConversation == Init => C!Init
<1> SUFFICES ASSUME Init PROVE C!Init
  OBVIOUS
<1>1. \A r \in Requests : Stage(r) = "new"
  BY StageOf DEF Init
<1>2. Stages = [r \in Requests |-> "new"]
  BY <1>1 DEF Stages
<1> QED BY <1>2 DEF Init, C!Init

LEMMA NextConversation ==
    ChatInv /\ LedgerInv /\ Readings /\ [Next]_vars => [C!Next]_(C!vars)
<1> SUFFICES ASSUME ChatInv, LedgerInv, Readings, [Next]_vars
             PROVE  C!Next \/ UNCHANGED C!vars
  OBVIOUS
<1>1. ASSUME NEW r \in Requests, Begin(r) \/ BreakOff(r) PROVE C!Next
  BY <1>1, BeginAsks, BreakOffSimulates
<1>2. ASSUME NEW r \in Requests, SendCheck(r) \/ Insert(r) \/ Find(r) \/ FindCard(r) \/ Get(r)
      PROVE  C!Next \/ UNCHANGED C!vars
  BY <1>2, CheckSimulates, InsertSimulates, FindSimulates, FindCardSimulates, GetSimulates
<1>3. ASSUME NEW r \in Requests, Announce(r) \/ Finish(r) \/ AnnounceChange(r) PROVE C!Next
  BY <1>3, AnnounceSimulates, FinishSimulates, AnnounceChangeSimulates
<1>4. ASSUME NEW r \in Requests, ChangeCheck(r) \/ DeleteSnapshot(r) \/ ReactSnapshot(r)
      PROVE  C!Next \/ UNCHANGED C!vars
  BY <1>4, CheckSimulates, SnapshotSimulates
<1>5. ASSUME NEW r \in Requests, DeleteCommit(r) \/ ReactCommit(r) \/ Recheck(r) \/ Unreact(r)
      PROVE  C!Next \/ UNCHANGED C!vars
  BY <1>5, DeleteCommitSimulates, ReactCommitSimulates, RecheckSimulates, UnreactSimulates
<1>6. ASSUME UNCHANGED <<op, pc, row, reactions, found, seen, log, answer>>
      PROVE  UNCHANGED C!vars
  BY <1>6, StillSimulates
<1> QED BY <1>1, <1>2, <1>3, <1>4, <1>5, <1>6 DEF Next, Step, Leave, vars, locals, outputs

\* However the statements of any number of requests overlap, and whatever breaks
\* off, each request comes to one step between its start and its answer, is told
\* of once and after it happened, and is answered by what came of it.
THEOREM ChatImplementsConversation == Spec => ImplementsConversation
<1>1. Init => ChatInv /\ LedgerInv /\ Readings
  BY InitChatInv, InitLedgerInv, InitReadings
<1>2. ChatInv /\ LedgerInv /\ Readings /\ [Next]_vars => (ChatInv /\ LedgerInv /\ Readings)'
  BY NextChatInv, NextLedgerInv, NextReadings
<1> QED BY <1>1, <1>2, InitConversation, NextConversation, PTL
        DEF Spec, ImplementsConversation, C!Spec
=============================================================================
