---------------------- MODULE MCPacketLengthTestHandler ----------------------
(* Few lengths for TLC, neighbours and one apart.                          *)
EXTENDS PacketLengthTestHandler

Lengths == {1, 2, 4}
=============================================================================
