---------------------------- MODULE Conversation ----------------------------
(***************************************************************************)
(* What the chat service promises, and nothing about its statements.       *)
(*                                                                         *)
(* A request takes effect in one step between its start and its answer, or *)
(* meets at one moment that its effect is there already.  An effect is     *)
(* told once, after it happened, unless its request ends in an error.      *)
(* "ok" is answered only for what took effect and was told, or was there;  *)
(* "refused" only for what had no effect.                                  *)
(*                                                                         *)
(* Not promised: that a reaction is to a message still live, that a        *)
(* deletion takes all reactions along, and in which order effects of       *)
(* several requests are told.  Who may ask what is left out.               *)
(***************************************************************************)
EXTENDS Naturals, Sequences

CONSTANTS
    Requests,
    MayAsk,      \* MayAsk[r]: the operations request r may turn out to be
    NoOp         \* the operation of a request that has not begun

VARIABLES
    op,          \* op[r]: what r asked for
    row,         \* row[r]: the message r posted: "none", "live", "deleted"
    reactions,   \* the react requests whose reaction is there
    log,         \* the events that were told
    answer,
    stage        \* "new", "asked", "owing" an event, "told", "met", "over"

vars == <<op, row, reactions, log, answer, stage>>

Is(r, kinds) == op[r].kind \in kinds
Target(r) == op[r].target

\* r cannot post, as q's message has the same client id or is the meal's card.
Holds(q, r) ==
    \/ /\ Is(r, {"send"}) /\ Is(q, {"send"}) /\ row[q] # "none"
       /\ op[q].user = op[r].user /\ op[q].key = op[r].key
    \/ /\ Is(r, {"meal"}) /\ Is(q, {"meal"}) /\ row[q] = "live"
       /\ op[q].group = op[r].group /\ op[q].meal = op[r].meal

\* q placed the reaction that r is about.
Same(q, r) == Target(q) = Target(r) /\ op[q].user = op[r].user

\* What r asks for is so.
InEffect(r) ==
    \/ /\ Is(r, {"send", "meal"})
       /\ \E q \in Requests : Holds(q, r) /\ op[q].group = op[r].group
    \/ Is(r, {"delete"}) /\ row[Target(r)] = "deleted"
    \/ Is(r, {"react"}) /\ \E q \in reactions : Same(q, r)
    \/ Is(r, {"unreact"}) /\ \A q \in reactions : ~Same(q, r)

Moves(r, from, to) == stage[r] \in from /\ stage' = [stage EXCEPT ![r] = to]

Init ==
    /\ op = [r \in Requests |-> NoOp]
    /\ row = [r \in Requests |-> "none"]
    /\ reactions = {}
    /\ log = <<>>
    /\ answer = [r \in Requests |-> "none"]
    /\ stage = [r \in Requests |-> "new"]

Ask(r) ==
    /\ Moves(r, {"new"}, "asked")
    /\ \E o \in MayAsk[r] : op' = [op EXCEPT ![r] = o]
    /\ UNCHANGED <<row, reactions, log, answer>>

-----------------------------------------------------------------------------
\* The effects.
Post(r) ==
    /\ Is(r, {"send", "meal"})
    /\ \A q \in Requests : ~Holds(q, r)
    /\ row' = [row EXCEPT ![r] = "live"]
    /\ UNCHANGED reactions

Delete(r) ==
    /\ Is(r, {"delete"})
    /\ row[Target(r)] = "live" /\ op[Target(r)].user = op[r].user
    /\ row' = [row EXCEPT ![Target(r)] = "deleted"]
    /\ reactions' \subseteq reactions
    /\ \A q \in reactions \ reactions' : Target(q) = Target(r)

React(r) ==
    /\ Is(r, {"react"})
    /\ row[Target(r)] # "none"
    /\ \A q \in reactions : ~Same(q, r)
    /\ reactions' = reactions \cup {r}
    /\ UNCHANGED row

Unreact(r) ==
    /\ Is(r, {"unreact"})
    /\ \E q \in reactions : Same(q, r)
    /\ reactions' = {q \in reactions : ~Same(q, r)}
    /\ UNCHANGED row

TakeEffect(r) ==
    /\ Moves(r, {"asked"}, "owing")
    /\ Post(r) \/ Delete(r) \/ React(r) \/ Unreact(r)
    /\ UNCHANGED <<op, log, answer>>

\* The effect is there without r.
Meet(r) ==
    /\ Moves(r, {"asked"}, "met")
    /\ InEffect(r)
    /\ UNCHANGED <<op, row, reactions, log, answer>>

-----------------------------------------------------------------------------
\* A message is told as it was when it was posted or as it is now.
News(r) ==
    CASE Is(r, {"send", "meal"}) ->
            [kind : {"message"}, id : {r}, shows : {"live", row[r]}]
      [] Is(r, {"delete"}) ->
            [kind : {"deleted"}, id : {Target(r)}, shows : {"deleted"}]
      [] Is(r, {"react"}) ->
            [kind : {"added"}, id : {Target(r)}, shows : {op[r].user}]
      [] OTHER ->
            [kind : {"removed"}, id : {Target(r)}, shows : {op[r].user}]

Tell(r) ==
    /\ \/ Moves(r, {"owing"}, "told") /\ UNCHANGED answer
       \/ Moves(r, {"owing"}, "over") /\ answer' = [answer EXCEPT ![r] = "ok"]
    /\ \E e \in News(r) : log' = Append(log, e)
    /\ UNCHANGED <<op, row, reactions>>

Answer(r) ==
    /\ Moves(r, {"asked", "owing", "told", "met"}, "over")
    /\ \E a \in {"ok", "refused", "error"} :
          /\ \/ a = "ok" /\ stage[r] \in {"told", "met"}
             \/ a = "ok" /\ stage[r] = "asked" /\ InEffect(r)
             \/ a = "refused" /\ stage[r] \in {"asked", "met"}
             \/ a = "error"
          /\ answer' = [answer EXCEPT ![r] = a]
    /\ UNCHANGED <<op, row, reactions, log>>

\* A step moves one request on.
Next ==
    \E r \in Requests :
       /\ stage'[r] # stage[r]
       /\ Ask(r) \/ TakeEffect(r) \/ Meet(r) \/ Tell(r) \/ Answer(r)

Spec == Init /\ [][Next]_vars
=============================================================================
