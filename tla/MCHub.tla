-------------------------------- MODULE MCHub --------------------------------
(***************************************************************************)
(* A connection watching g1 and a /ws/me connection, with broadcasts to g1 *)
(* and to a group nobody watches alone.                                    *)
(***************************************************************************)
EXTENDS HubProperties

CONSTANTS g1, g2, a, me

BothGroups == {g1, g2}
OneGroupSubs == {a}
MeSubs == {me}
OneGroupOf == [s \in OneGroupSubs |-> g1]
=============================================================================
