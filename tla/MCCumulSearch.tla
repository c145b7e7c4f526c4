---------------------------- MODULE MCCumulSearch ----------------------------
(* Small maps for TLC: neighbours, gaps and a time of 0.                   *)
EXTENDS CumulSearch

Times == 0 .. 6
OneOrTwo == {1, 2}
=============================================================================
