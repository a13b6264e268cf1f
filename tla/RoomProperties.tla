---------------------------- MODULE RoomProperties ----------------------------
(***************************************************************************)
(* What a reader may rely on in an open room, stated over the variables of *)
(* Room.                                                                   *)
(***************************************************************************)
EXTENDS Room

\* Connected, and neither the first page nor a backfill still out.
Quiet == /\ conn = "open" /\ fill = Idle
         /\ first.state \in {"done", "failed"} /\ ~first.overtaken

\* "Starting again from this page keeps history walkable: its cursor leads back
\* across the gap, where merging would strand those messages out of reach": once
\* connected and caught up, every message is on screen, on its way, or before the
\* cursor of "load earlier", but for those that fell through where the room has
\* no means: said before the first socket was subscribed and after the first page
\* was read; missed when a page could not be fetched; hidden from a backfill by
\* something newer that was on screen when it took its snapshot; lost to a backfill
\* whose snapshot was stale, for what was set was not rendered yet; set, and
\* overwritten by the first page before it was rendered; or between the pages when
\* an earlier one was asked for, just after a restart, with the cursor that was
\* still on screen.  A first page that a backfill overtook spoils the list for good.
HistoryStaysWalkable == Quiet => Gap \subseteq excused

\* "Deduplication is by id because the same message arrives twice by design", and
\* a retry "under the same id resolves to that message": nothing is on screen
\* twice, and what the reader meant to send once is stored once, whatever was
\* lost, late or tried again.
NothingTwice ==
    /\ Cardinality(ToSet(list)) = Len(list)
    /\ Cardinality({m \in 1..Len(stored) : stored[m] # 0}) <= meant
=============================================================================
