---------------------------- MODULE MCRpcClient ----------------------------
(* Instances of RpcClient for TLC.                                         *)
EXTENDS RpcClient

CONSTANTS call1, note, batch

WithNote == {call1, note}
WithBatch == {call1, batch}
=============================================================================
