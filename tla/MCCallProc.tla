---------------------------- MODULE MCCallProc ----------------------------
(* Instances of CallProc for TLC.                                          *)
EXTENDS CallProc

Request(b, m) == [batch |-> b, msgs |-> m]

\* A batch of two calls.
CallBatches == {Request(TRUE, <<"call", "call">>)}
=============================================================================
