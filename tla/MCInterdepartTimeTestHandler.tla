--------------------- MODULE MCInterdepartTimeTestHandler ---------------------
(* Few hosts and time stamps for TLC.                                      *)
EXTENDS InterdepartTimeTestHandler

OneHost == {1}
TwoHosts == {1, 7}
Stamps == {0, 1, 3}
=============================================================================
