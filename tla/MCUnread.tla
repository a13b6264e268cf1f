------------------------------- MODULE MCUnread -------------------------------
(***************************************************************************)
(* A small instance of Unread: a group with messages and one that is there *)
(* to be created and pinned meanwhile.                                     *)
(***************************************************************************)
EXTENDS UnreadProperties

CONSTANTS g1, g2

TwoGroups == {g1, g2}

Quiet == total[g2] = 0
=============================================================================
