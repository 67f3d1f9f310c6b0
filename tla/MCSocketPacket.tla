---------------------------- MODULE MCSocketPacket ----------------------------
(***************************************************************************)
(* Instances of SocketPacket for TLC.  A full packet takes two units, so   *)
(* commands of 2, 4 and 5 units are one full packet, two full fragments,   *)
(* and two full fragments with a rest.                                     *)
(***************************************************************************)
EXTENDS SocketPacket

=============================================================================
