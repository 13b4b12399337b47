------------------------- MODULE MCServerLifecycle -------------------------
(* Instances of ServerLifecycle for TLC.                                   *)
EXTENDS ServerLifecycle

CONSTANTS c1, c2, t1, t2
=============================================================================
