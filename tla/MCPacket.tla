------------------------------ MODULE MCPacket ------------------------------
(* A small instance of Packet for TLC. *)
EXTENDS Packet

CONSTANTS s1, s2

TwoSessions == {s1, s2}
SomeWidths == {0, 1, 2, 4}
=============================================================================
