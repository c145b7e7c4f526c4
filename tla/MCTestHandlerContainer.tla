----------------------- MODULE MCTestHandlerContainer -----------------------
(* Small captures for TLC.                                                 *)
EXTENDS TestHandlerContainer

ZeroOrOne == {0, 1}
=============================================================================
