-------------------------- MODULE TimelineProperties --------------------------
(***************************************************************************)
(* What paging through a timeline and reading it must not lose, stated     *)
(* over the variables of Timeline.                                         *)
(***************************************************************************)
EXTENDS Timeline

Position == Nat \X (Messages \cup {0})

TypeOK ==
    /\ clock \in 1..MaxClock
    /\ at \in [Messages -> 0..MaxClock]
    /\ stored \in SUBSET {m \in Messages : at[m] # 0}
    /\ Range(walk) \in SUBSET stored
    /\ more \in BOOLEAN
    /\ first \in SUBSET stored
    /\ shown \in SUBSET stored
    /\ asked \in [Devices -> stored \cup {0}]
    /\ cursor \in Position

\* "Messages sharing a timestamp are neither repeated on the next page nor
\* skipped between pages": the loaded history is in order, and of the messages
\* that were there when the first page was read it holds all down to its oldest
\* one, although others appear between them meanwhile.
WalkIsWhole ==
    /\ \A i, j \in 1..Len(walk) : i < j => Before(Pos(walk[i]), Pos(walk[j]))
    /\ \A m \in first :
          m \in Range(walk) \/ (more /\ Before(Pos(m), Pos(walk[1])))

\* "A stale client replaying an old mark read after a newer one must not
\* resurrect messages the user already dismissed": whatever devices mark and
\* sends do, in whatever order they arrive, no step moves the cursor back.
CursorOnlyAdvances == [][Before(cursor, cursor')]_cursor

\* What lies after everything the member was shown or has sent is counted as
\* unread, messages that share the cursor's timestamp included.
News ==
    {m \in stored :
        \A n \in shown \cup (stored \cap Own) : Before(Pos(n), Pos(m))}

NewsIsUnread == Cardinality(News) <= Unread
=============================================================================
