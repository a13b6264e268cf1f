--------------------------- MODULE UnreadProperties ---------------------------
(***************************************************************************)
(* What the badges of a tab promise, stated over the variables of Unread.  *)
(***************************************************************************)
EXTENDS Unread

\* What the badge of g shows, or will show once the groups are there.
Badge(g) == IF state.loaded \/ Overridden(state, g) THEN state.count[g]
            ELSE state.pending[g]

\* "The newest request", "no local read/message mutation happened after that
\* request started", "only if no newer local message/mutation won the race": no
\* answer takes from a badge a message that was counted and is not read: neither
\* one that overtook a later one, nor one that was on its way when the message was
\* heard.  An answer whose counts failed says zero, and is believed.
NeverUndercounts ==
    \A g \in Groups : Known(state, g) \/ ~state.loaded =>
       Badge(g) >= Cardinality({m \in counted[g] : m > cursor[g]})
=============================================================================
