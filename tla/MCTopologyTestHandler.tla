------------------------ MODULE MCTopologyTestHandler ------------------------
(* Words of two bits and longs of four: hosts 0 and 1 have the high bit    *)
(* clear, hosts 2 and 3 have it set.                                       *)
EXTENDS TopologyTestHandler

MCWord == 2
MCLong == 8
LowAndHigh == {1, 2, 3}
=============================================================================
