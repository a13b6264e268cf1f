-------------------------------- MODULE MCRoom --------------------------------
(***************************************************************************)
(* A small instance of Room: pages of two messages, of which three are     *)
(* there when the room is opened; up to six messages, one less for each    *)
(* client id that a send hands out.                                        *)
(***************************************************************************)
EXTENDS RoomProperties

Small == Len(stored) + ids <= MaxMessages
=============================================================================
