------------------------------ MODULE MCTimeline ------------------------------
(***************************************************************************)
(* A small instance of Timeline: four messages, one of them the member's   *)
(* own, that share two timestamps, pages of one message and two devices.   *)
(***************************************************************************)
EXTENDS TimelineProperties

CONSTANTS d1, d2

FourMessages == 1..4
TheSecond == {2}
TwoDevices == {d1, d2}
=============================================================================
